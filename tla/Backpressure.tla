---------------------------- MODULE Backpressure ----------------------------
(***************************************************************************)
(* The delivery pipeline between the routing actor and its subscribers:    *)
(* bounded channel (buffer), one in-flight slow send with a queue parked   *)
(* behind it (grace), counted drops; end of a subscription by the consumer *)
(* (unsubscribe, unsubscribe_immediate, Drop) or by the actor (failed      *)
(* delivery, cleanup).                                                     *)
(*   core/src/routing/subscription_manager.rs  the actor                   *)
(*   core/src/routing/subscriber.rs            the consumer's handle       *)
(*                                                                         *)
(* A message is its position in the broker's stream (1, 2, ...).  Which    *)
(* subscriptions a message's topic matches is an input of HandleSend; the  *)
(* router is modelled in TopicRouter.  The actor runs one handler at a     *)
(* time; consumers run concurrently.  A handler that touches each channel  *)
(* at most once is one step; drain_parked, which may send several times to *)
(* the same channel, is one step per try_send.  Broker requests made by a  *)
(* handler succeed here at once.                                           *)
(***************************************************************************)
EXTENDS Naturals, Sequences

CONSTANTS
    Subs,           \* subscription ids
    Capacity,       \* SubscriptionConfig.channel_capacity, per subscription
    MaxParked,      \* SubscriptionConfig.max_parked_messages, per subscription
    UnsubCapacity,  \* capacity of the actor's unsubscribe channel
    MaxPublished    \* bound: messages dispatched in one behaviour

ASSUME CapacityAssumption      == Capacity \in [Subs -> Nat \ {0}]
ASSUME MaxParkedAssumption     == MaxParked \in [Subs -> Nat]
ASSUME UnsubCapacityAssumption == UnsubCapacity \in Nat \ {0}
ASSUME MaxPublishedAssumption  == MaxPublished \in Nat

VARIABLES
    \* the actor
    actor,      \* "running", "unsubscribing" (cleanup step 1), "grace"
                \* (cleanup step 3), "stopped"
    draining,   \* at most one id: the subscription drain_parked works on
    routed,     \* ids with an entry in topic_router
    parked,     \* keys of the `parked` map
    queue,      \* ParkedState.queue (held by drain_parked while it drains)
    slowSend,   \* messages of the subscription's futures in slow_send_futures
    channel,    \* the subscription's delivery channel
    dropped,    \* the shared dropped_messages counter
    unsubQ,     \* the unsubscribe channel
    \* the consumers
    phase,      \* what the owner of the Subscriber is doing with it
    canCancel,  \* subscribers whose unsubscribe_tx is still Some
    lastSeen,   \* last_seen_drops
    ended,      \* subscribers whose recv() returned None
    \* history
    published,  \* messages dispatched to the actor so far
    routedTo,   \* per subscription, how many messages matched it while routed
    received    \* per subscription, the messages recv() returned

actorVars    == <<actor, draining, routed, parked, queue, slowSend>>
consumerVars == <<phase, canCancel, lastSeen, ended>>
history      == <<published, routedTo, received>>
vars == <<actorVars, channel, dropped, unsubQ, consumerVars, history>>

-----------------------------------------------------------------------------
Phases == {"none", "idle", "receiving", "leaving", "gone"}

\* The Receiver half of the delivery channel exists.
Alive(s) == phase[s] \in {"idle", "receiving", "leaving"}

HasRoom(s) == Len(channel[s]) < Capacity[s]

\* A sender half exists: in the router entry, the parked entry or a pending
\* slow send.
Open(s) == s \in routed \cup parked \cup draining \/ slowSend[s] # <<>>

Idle == actor = "running" /\ draining = {}

Init ==
    /\ actor = "running"
    /\ draining = {}
    /\ routed = {}
    /\ parked = {}
    /\ queue = [s \in Subs |-> <<>>]
    /\ slowSend = [s \in Subs |-> <<>>]
    /\ channel = [s \in Subs |-> <<>>]
    /\ dropped = [s \in Subs |-> 0]
    /\ unsubQ = <<>>
    /\ phase = [s \in Subs |-> "none"]
    /\ canCancel = {}
    /\ lastSeen = [s \in Subs |-> 0]
    /\ ended = {}
    /\ published = 0
    /\ routedTo = [s \in Subs |-> 0]
    /\ received = [s \in Subs |-> <<>>]

-----------------------------------------------------------------------------
(* Subscribing *)

\* The entry is routed and the Subscriber handed to the waiting caller.
HandleSubscribe(s) ==
    /\ Idle
    /\ phase[s] = "none"
    /\ routed' = routed \cup {s}
    /\ phase' = [phase EXCEPT ![s] = "idle"]
    /\ canCancel' = canCancel \cup {s}
    /\ UNCHANGED <<actor, draining, parked, queue, slowSend, channel, dropped,
                   unsubQ, lastSeen, ended, history>>

\* Drop for Subscriber: one try_send, given up silently on a full channel.
QueueUnsubscribe(s) ==
    unsubQ' = IF actor # "stopped" /\ Len(unsubQ) < UnsubCapacity
              THEN Append(unsubQ, s) ELSE unsubQ

\* The caller's future was cancelled: the Subscriber comes back with the
\* failed response and is dropped, which queues an unsubscribe, and the actor
\* removes the subscription itself.
HandleSubscribeOrphan(s) ==
    /\ Idle
    /\ phase[s] = "none"
    /\ phase' = [phase EXCEPT ![s] = "gone"]
    /\ QueueUnsubscribe(s)
    /\ UNCHANGED <<actorVars, channel, dropped, canCancel, lastSeen, ended, history>>

-----------------------------------------------------------------------------
(* Delivering *)

\* Faulty form: one place too many.
QueueFull_OffByOne(s) == Len(queue[s]) > MaxParked[s]

QueueFull(s) == Len(queue[s]) >= MaxParked[s]

\* Faulty form: a full channel is retried before the parked queue is looked at.
HandleSend_Overtake(T) ==
    LET m    == published + 1
        fast == {s \in T : Alive(s) /\ HasRoom(s)}
        full == {s \in T \ parked : Alive(s) /\ ~HasRoom(s)}
    IN  /\ Idle
        /\ published < MaxPublished
        /\ T \subseteq routed
        /\ channel'  = [s \in Subs |-> IF s \in fast THEN Append(channel[s], m) ELSE channel[s]]
        /\ slowSend' = [s \in Subs |-> IF s \in full THEN Append(slowSend[s], m) ELSE slowSend[s]]
        /\ parked'   = parked \cup full
        /\ published' = m
        /\ routedTo' = [s \in Subs |-> IF s \in T THEN routedTo[s] + 1 ELSE routedTo[s]]
        /\ UNCHANGED <<actor, draining, routed, queue, dropped, unsubQ, consumerVars, received>>

\* One published message, matched by the subscriptions in T.
HandleSend(T) ==
    LET m      == published + 1
        behind == T \cap parked
        over   == {s \in behind : QueueFull(s)}
        closed == {s \in T \ parked : ~Alive(s)}
        full   == {s \in T \ parked : Alive(s) /\ ~HasRoom(s)}
        fast   == {s \in T \ parked : Alive(s) /\ HasRoom(s)}
    IN  /\ Idle
        /\ published < MaxPublished
        /\ T \subseteq routed
        /\ channel'  = [s \in Subs |-> IF s \in fast THEN Append(channel[s], m) ELSE channel[s]]
        /\ queue'    = [s \in Subs |-> IF s \in behind \ over
                                      THEN Append(queue[s], m) ELSE queue[s]]
        /\ dropped'  = [s \in Subs |-> IF s \in over THEN dropped[s] + 1 ELSE dropped[s]]
        /\ slowSend' = [s \in Subs |-> IF s \in full THEN Append(slowSend[s], m) ELSE slowSend[s]]
        /\ parked'   = parked \cup full
        /\ routed'   = routed \ closed
        /\ published' = m
        /\ routedTo' = [s \in Subs |-> IF s \in T THEN routedTo[s] + 1 ELSE routedTo[s]]
        /\ UNCHANGED <<actor, draining, unsubQ, consumerVars, received>>

\* Faulty form: the queue behind a finished slow send is not drained.
Resume_NoDrain(s) == UNCHANGED <<parked, draining>>

\* After a finished slow send: drain_parked takes the parked state out of the
\* map; a completion for a subscription no longer parked is ignored.
Resume(s) ==
    /\ parked' = parked \ {s}
    /\ draining' = draining \cup ({s} \cap parked)

PollsSlowSends == actor = "grace" \/ Idle

SlowSendOk(s) ==
    /\ PollsSlowSends
    /\ slowSend[s] # <<>>
    /\ Alive(s)
    /\ HasRoom(s)
    /\ channel' = [channel EXCEPT ![s] = Append(@, Head(slowSend[s]))]
    /\ slowSend' = [slowSend EXCEPT ![s] = Tail(@)]
    /\ Resume(s)
    /\ UNCHANGED <<actor, routed, queue, dropped, unsubQ, consumerVars, history>>

\* Faulty forms: the expired message is not counted; the timer is looked at
\* before the send; the subscription is given up; send() without a timeout.
SlowSendTimeout_Uncounted(s) ==
    /\ PollsSlowSends
    /\ slowSend[s] # <<>>
    /\ Alive(s)
    /\ ~HasRoom(s)
    /\ slowSend' = [slowSend EXCEPT ![s] = Tail(@)]
    /\ Resume(s)
    /\ UNCHANGED <<actor, routed, queue, channel, dropped, unsubQ, consumerVars, history>>

SlowSendTimeout_TimerFirst(s) ==
    /\ PollsSlowSends
    /\ slowSend[s] # <<>>
    /\ Alive(s)
    /\ dropped' = [dropped EXCEPT ![s] = IF s \in parked THEN @ + 1 ELSE @]
    /\ slowSend' = [slowSend EXCEPT ![s] = Tail(@)]
    /\ Resume(s)
    /\ UNCHANGED <<actor, routed, queue, channel, unsubQ, consumerVars, history>>

SlowSendTimeout_Unroutes(s) ==
    /\ PollsSlowSends
    /\ slowSend[s] # <<>>
    /\ Alive(s)
    /\ ~HasRoom(s)
    /\ dropped' = [dropped EXCEPT ![s] = IF s \in parked THEN @ + 1 ELSE @]
    /\ slowSend' = [slowSend EXCEPT ![s] = Tail(@)]
    /\ queue' = [queue EXCEPT ![s] = <<>>]
    /\ parked' = parked \ {s}
    /\ routed' = routed \ {s}
    /\ UNCHANGED <<actor, draining, channel, unsubQ, consumerVars, history>>

SlowSendTimeout_Never(s) == s \in {} /\ UNCHANGED vars

\* The grace period elapsed and the channel is (still) full: the send itself
\* is polled before its timer.
SlowSendTimeout(s) ==
    /\ PollsSlowSends
    /\ slowSend[s] # <<>>
    /\ Alive(s)
    /\ ~HasRoom(s)
    /\ dropped' = [dropped EXCEPT ![s] = IF s \in parked THEN @ + 1 ELSE @]
    /\ slowSend' = [slowSend EXCEPT ![s] = Tail(@)]
    /\ Resume(s)
    /\ UNCHANGED <<actor, routed, queue, channel, unsubQ, consumerVars, history>>

\* Faulty form: the failed send does not remove the subscription.
SlowSendClosed_KeepsRoute(s) ==
    /\ PollsSlowSends
    /\ slowSend[s] # <<>>
    /\ ~Alive(s)
    /\ slowSend' = [slowSend EXCEPT ![s] = Tail(@)]
    /\ queue' = [queue EXCEPT ![s] = <<>>]
    /\ parked' = parked \ {s}
    /\ UNCHANGED <<actor, draining, routed, channel, dropped, unsubQ, consumerVars, history>>

\* The receiver is gone: the head and everything behind it is lost, counted,
\* and the subscription removed.
SlowSendClosed(s) ==
    /\ PollsSlowSends
    /\ slowSend[s] # <<>>
    /\ ~Alive(s)
    /\ slowSend' = [slowSend EXCEPT ![s] = Tail(@)]
    /\ IF s \in parked
       THEN /\ dropped' = [dropped EXCEPT ![s] = @ + 1 + Len(queue[s])]
            /\ queue' = [queue EXCEPT ![s] = <<>>]
            /\ parked' = parked \ {s}
            /\ routed' = routed \ {s}
       ELSE UNCHANGED <<dropped, queue, parked, routed>>
    /\ UNCHANGED <<actor, draining, channel, unsubQ, consumerVars, history>>

SlowSendDone(s) == SlowSendOk(s) \/ SlowSendTimeout(s) \/ SlowSendClosed(s)

-----------------------------------------------------------------------------
(* drain_parked, one try_send per step *)

\* Faulty form: pop_back instead of pop_front.
DrainSend_PopBack(s) ==
    /\ s \in draining
    /\ queue[s] # <<>>
    /\ Alive(s)
    /\ HasRoom(s)
    /\ channel' = [channel EXCEPT ![s] = Append(@, queue[s][Len(queue[s])])]
    /\ queue' = [queue EXCEPT ![s] = SubSeq(@, 1, Len(@) - 1)]
    /\ UNCHANGED <<actor, draining, routed, parked, slowSend, dropped, unsubQ,
                   consumerVars, history>>

DrainSend(s) ==
    /\ s \in draining
    /\ queue[s] # <<>>
    /\ Alive(s)
    /\ HasRoom(s)
    /\ channel' = [channel EXCEPT ![s] = Append(@, Head(queue[s]))]
    /\ queue' = [queue EXCEPT ![s] = Tail(@)]
    /\ UNCHANGED <<actor, draining, routed, parked, slowSend, dropped, unsubQ,
                   consumerVars, history>>

\* Faulty form: the parked state is not put back into the map.
DrainPark_Forgets(s) ==
    /\ s \in draining
    /\ queue[s] # <<>>
    /\ Alive(s)
    /\ ~HasRoom(s)
    /\ slowSend' = [slowSend EXCEPT ![s] = Append(@, Head(queue[s]))]
    /\ queue' = [queue EXCEPT ![s] = Tail(@)]
    /\ draining' = draining \ {s}
    /\ UNCHANGED <<actor, routed, parked, channel, dropped, unsubQ, consumerVars, history>>

\* Still behind: park again with the popped message as the slow send.
DrainPark(s) ==
    /\ s \in draining
    /\ queue[s] # <<>>
    /\ Alive(s)
    /\ ~HasRoom(s)
    /\ slowSend' = [slowSend EXCEPT ![s] = Append(@, Head(queue[s]))]
    /\ queue' = [queue EXCEPT ![s] = Tail(@)]
    /\ parked' = parked \cup {s}
    /\ draining' = draining \ {s}
    /\ UNCHANGED <<actor, routed, channel, dropped, unsubQ, consumerVars, history>>

DrainClosed(s) ==
    /\ s \in draining
    /\ queue[s] # <<>>
    /\ ~Alive(s)
    /\ dropped' = [dropped EXCEPT ![s] = @ + Len(queue[s])]
    /\ queue' = [queue EXCEPT ![s] = <<>>]
    /\ routed' = routed \ {s}
    /\ draining' = draining \ {s}
    /\ UNCHANGED <<actor, parked, slowSend, channel, unsubQ, consumerVars, history>>

DrainDone(s) ==
    /\ s \in draining
    /\ queue[s] = <<>>
    /\ draining' = draining \ {s}
    /\ UNCHANGED <<actor, routed, parked, queue, slowSend, channel, dropped,
                   unsubQ, consumerVars, history>>

Drain(s) == DrainSend(s) \/ DrainPark(s) \/ DrainClosed(s) \/ DrainDone(s)

-----------------------------------------------------------------------------
(* Unsubscribing and shutting down *)

\* The parked queue is dropped without counting; a pending slow send stays.
HandleUnsubscribe ==
    /\ Idle
    /\ unsubQ # <<>>
    /\ LET s == Head(unsubQ)
       IN  /\ parked' = parked \ {s}
           /\ queue' = [queue EXCEPT ![s] = <<>>]
           /\ routed' = routed \ {s}
    /\ unsubQ' = Tail(unsubQ)
    /\ UNCHANGED <<actor, draining, slowSend, channel, dropped, consumerVars, history>>

\* shutdown_rx, Command::Shutdown or a closed command channel ends the loop.
BeginCleanup ==
    /\ Idle
    /\ actor' = "unsubscribing"
    /\ UNCHANGED <<draining, routed, parked, queue, slowSend, channel, dropped,
                   unsubQ, consumerVars, history>>

\* Cleanup step 2, once the broker unsubscribes of step 1 are queued.
DropParked ==
    /\ actor = "unsubscribing"
    /\ actor' = "grace"
    /\ parked' = {}
    /\ queue' = [s \in Subs |-> <<>>]
    /\ UNCHANGED <<draining, routed, slowSend, channel, dropped, unsubQ,
                   consumerVars, history>>

\* Faulty forms: step 4 is skipped and the router keeps its entries; step 3
\* waits for every slow send, without a limit.
EndCleanup_KeepsRouter ==
    /\ actor = "grace"
    /\ actor' = "stopped"
    /\ slowSend' = [s \in Subs |-> <<>>]
    /\ unsubQ' = <<>>
    /\ UNCHANGED <<draining, routed, parked, queue, channel, dropped, consumerVars, history>>

EndCleanup_NoLimit ==
    /\ actor = "grace"
    /\ \A s \in Subs : slowSend[s] = <<>>
    /\ actor' = "stopped"
    /\ routed' = {}
    /\ unsubQ' = <<>>
    /\ UNCHANGED <<draining, parked, queue, slowSend, channel, dropped, consumerVars, history>>

\* Step 3 ends when no slow send is left, or after 500 ms, when those left are
\* still waiting for room; step 4 clears the router and the actor returns,
\* which drops its futures and its receivers.
EndCleanup ==
    /\ actor = "grace"
    /\ \A s \in Subs : slowSend[s] # <<>> => Alive(s) /\ ~HasRoom(s)
    /\ actor' = "stopped"
    /\ routed' = {}
    /\ slowSend' = [s \in Subs |-> <<>>]
    /\ unsubQ' = <<>>
    /\ UNCHANGED <<draining, parked, queue, channel, dropped, consumerVars, history>>

-----------------------------------------------------------------------------
(* Consumers *)

\* recv() first reports drops not reported yet ...
RecvLagged(s) ==
    /\ phase[s] = "idle"
    /\ dropped[s] > lastSeen[s]
    /\ lastSeen' = [lastSeen EXCEPT ![s] = dropped[s]]
    /\ UNCHANGED <<actorVars, channel, dropped, unsubQ, phase, canCancel, ended, history>>

\* ... and only then waits on the channel, without looking at the counter again.
RecvWait(s) ==
    /\ phase[s] = "idle"
    /\ s \notin ended
    /\ dropped[s] = lastSeen[s]
    /\ phase' = [phase EXCEPT ![s] = "receiving"]
    /\ UNCHANGED <<actorVars, channel, dropped, unsubQ, canCancel, lastSeen, ended, history>>

RecvMessage(s) ==
    /\ phase[s] = "receiving"
    /\ channel[s] # <<>>
    /\ received' = [received EXCEPT ![s] = Append(@, Head(channel[s]))]
    /\ channel' = [channel EXCEPT ![s] = Tail(@)]
    /\ phase' = [phase EXCEPT ![s] = "idle"]
    /\ UNCHANGED <<actorVars, dropped, unsubQ, canCancel, lastSeen, ended,
                   published, routedTo>>

\* A closed channel yields what it still buffers, then None.
RecvNone(s) ==
    /\ phase[s] = "receiving"
    /\ channel[s] = <<>>
    /\ ~Open(s)
    /\ ended' = ended \cup {s}
    /\ phase' = [phase EXCEPT ![s] = "idle"]
    /\ UNCHANGED <<actorVars, channel, dropped, unsubQ, canCancel, lastSeen, history>>

\* The recv() future is dropped (select!, timeout).
RecvCancel(s) ==
    /\ phase[s] = "receiving"
    /\ phase' = [phase EXCEPT ![s] = "idle"]
    /\ UNCHANGED <<actorVars, channel, dropped, unsubQ, canCancel, lastSeen, ended, history>>

\* The Receiver goes away with the Subscriber, and what it buffers with it.
Discard(s) ==
    /\ phase' = [phase EXCEPT ![s] = "gone"]
    /\ channel' = [channel EXCEPT ![s] = <<>>]
    /\ canCancel' = canCancel \ {s}

\* unsubscribe(self): takes the sender, then waits for room in the channel.
UnsubscribeStart(s) ==
    /\ phase[s] = "idle"
    /\ s \in canCancel
    /\ canCancel' = canCancel \ {s}
    /\ phase' = [phase EXCEPT ![s] = "leaving"]
    /\ UNCHANGED <<actorVars, channel, dropped, unsubQ, lastSeen, ended, history>>

UnsubscribeDone(s) ==
    /\ phase[s] = "leaving"
    /\ actor = "stopped" \/ Len(unsubQ) < UnsubCapacity
    /\ QueueUnsubscribe(s)
    /\ Discard(s)
    /\ UNCHANGED <<actorVars, dropped, lastSeen, ended, history>>

\* The unsubscribe() future is dropped: the sender is taken, so Drop is silent.
UnsubscribeCancelled(s) ==
    /\ phase[s] = "leaving"
    /\ Discard(s)
    /\ UNCHANGED <<actorVars, dropped, unsubQ, lastSeen, ended, history>>

\* A failed attempt restores the sender and changes nothing.
UnsubscribeImmediate(s) ==
    /\ phase[s] = "idle"
    /\ s \in canCancel
    /\ actor # "stopped"
    /\ Len(unsubQ) < UnsubCapacity
    /\ unsubQ' = Append(unsubQ, s)
    /\ canCancel' = canCancel \ {s}
    /\ UNCHANGED <<actorVars, channel, dropped, phase, lastSeen, ended, history>>

DropSubscriber(s) ==
    /\ phase[s] = "idle"
    /\ IF s \in canCancel THEN QueueUnsubscribe(s) ELSE UNCHANGED unsubQ
    /\ Discard(s)
    /\ UNCHANGED <<actorVars, dropped, lastSeen, ended, history>>

Recv(s) == RecvLagged(s) \/ RecvWait(s) \/ RecvMessage(s) \/ RecvNone(s)

Leave(s) == \/ UnsubscribeStart(s)     \/ UnsubscribeDone(s)
            \/ UnsubscribeCancelled(s) \/ UnsubscribeImmediate(s)
            \/ DropSubscriber(s)

-----------------------------------------------------------------------------
\* Nothing is left to do: a real end, kept apart from a deadlock.
Finished ==
    /\ actor = "stopped"
    /\ \A s \in Subs : phase[s] \in {"none", "gone"}
    /\ UNCHANGED vars

Next ==
    \/ \E T \in SUBSET Subs : HandleSend(T)
    \/ \E s \in Subs :
        \/ HandleSubscribe(s) \/ HandleSubscribeOrphan(s)
        \/ SlowSendDone(s)    \/ Drain(s)
        \/ Recv(s)            \/ RecvCancel(s) \/ Leave(s)
    \/ HandleUnsubscribe \/ BeginCleanup \/ DropParked \/ EndCleanup
    \/ Finished

Spec == Init /\ [][Next]_vars

\* select! polls its branches in random order, FuturesUnordered serves every
\* ready future and every slow send has a timer, so the actor keeps working.  In
\* cleanup, whose 500 ms may be shorter, no timer of a slow send is relied on.
ActorFairness ==
    /\ \A s \in Subs : /\ WF_vars(Idle /\ SlowSendDone(s))
                       /\ WF_vars(SlowSendOk(s) \/ SlowSendClosed(s))
                       /\ WF_vars(Drain(s))
    /\ WF_vars(HandleUnsubscribe)
    /\ WF_vars(DropParked)
    /\ WF_vars(EndCleanup)

\* A consumer that keeps calling recv() and does not cancel it for ever.
ReaderFairness ==
    \A s \in Subs : /\ WF_vars(RecvLagged(s))
                    /\ WF_vars(RecvWait(s))
                    /\ SF_vars(RecvMessage(s) \/ RecvNone(s))

FairSpec   == Spec /\ ActorFairness
ReaderSpec == Spec /\ ActorFairness /\ ReaderFairness

-----------------------------------------------------------------------------
(* Properties *)

\* Neither buffer of a subscription exceeds its configured size.
Bounded ==
    \A s \in Subs : Len(channel[s]) <= Capacity[s] /\ Len(queue[s]) <= MaxParked[s]

\* Every variable has its type and the two buffers keep their bounds, however
\* drains, sends and re-parking interleave.
TypeOK ==
    /\ actor \in {"running", "unsubscribing", "grace", "stopped"}
    /\ draining \subseteq Subs
    /\ routed \subseteq Subs
    /\ parked \subseteq Subs
    /\ queue \in [Subs -> Seq(Nat)]
    /\ slowSend \in [Subs -> Seq(Nat)]
    /\ channel \in [Subs -> Seq(Nat)]
    /\ dropped \in [Subs -> Nat]
    /\ unsubQ \in Seq(Subs)
    /\ phase \in [Subs -> Phases]
    /\ canCancel \subseteq Subs
    /\ lastSeen \in [Subs -> Nat]
    /\ ended \subseteq Subs
    /\ published \in Nat
    /\ routedTo \in [Subs -> Nat]
    /\ received \in [Subs -> Seq(Nat)]
    /\ Bounded

Sorted(q)    == \A i, j \in 1..Len(q) : i < j => q[i] < q[j]
Before(p, q) == \A i \in 1..Len(p), j \in 1..Len(q) : p[i] < q[j]

\* "Messages are dropped, never reordered": what a consumer received, then its
\* channel, then the slow send, then the parked queue are one strictly
\* increasing sequence of broker positions (no reordering, no duplicate).
InOrder ==
    \A s \in Subs :
        /\ Sorted(received[s])
        /\ Sorted(channel[s])
        /\ Sorted(slowSend[s])
        /\ Sorted(queue[s])
        /\ Before(received[s], channel[s])
        /\ Before(received[s], slowSend[s])
        /\ Before(received[s], queue[s])
        /\ Before(channel[s], slowSend[s])
        /\ Before(channel[s], queue[s])
        /\ Before(slowSend[s], queue[s])

\* The actor's parked invariant as the code keeps it: at most one send in
\* flight per subscription; a parked entry has its send; until cleanup drops
\* the parked queues, a routed subscription with a send in flight is parked;
\* and nothing is queued without a send or a drain that will move it.
OneSlowSend ==
    \A s \in Subs :
        /\ Len(slowSend[s]) <= 1
        /\ s \in parked => slowSend[s] # <<>>
        /\ (s \in routed /\ slowSend[s] # <<>> /\ actor \in {"running", "unsubscribing"})
              => s \in parked
        /\ queue[s] # <<>> => s \in parked \cup draining

\* Messages the pipeline still accounts for.
Accounted(s) == Len(received[s]) + Len(channel[s]) + Len(slowSend[s])
                  + Len(queue[s]) + dropped[s]

\* While a subscription is routed, its consumer alive and the queues not yet
\* dropped by cleanup, every message that matched it is received, buffered or
\* counted: dropped_messages() is the exact number of losses.
ExactAccounting ==
    \A s \in Subs :
        (s \in routed /\ Alive(s) /\ actor \in {"running", "unsubscribing"})
            => routedTo[s] = Accounted(s)

\* A consumer that never cancelled keeps its subscription, however slow it is
\* and whatever happens to the others, until the actor stops.
LiveStaysRouted ==
    \A s \in canCancel : actor # "stopped" => Alive(s) /\ s \in routed

\* A live consumer loses messages only to back pressure, one at a time: its
\* channel is full, or as many messages as allowed wait behind a slow send.
DropsOnlyUnderPressure ==
    [][\A s \in Subs :
        Alive(s) /\ dropped'[s] # dropped[s]
            => /\ dropped'[s] = dropped[s] + 1
               /\ ~HasRoom(s) \/ (s \in parked /\ Len(queue[s]) = MaxParked[s])]_vars

\* A consumer that never reads cannot keep the actor waiting: without any
\* fairness of the consumers, a parked subscription is eventually resolved.
ParkedResolves == \A s \in Subs : s \in parked ~> s \notin parked

\* Cleanup ends although consumers may be stuck, whatever slow_send_timeout is.
CleanupEnds == actor = "unsubscribing" ~> actor = "stopped"

\* A subscription whose Drop could not queue its unsubscribe is still removed
\* if a slow send is in flight for it, and so is every one that was queued.
LeakReclaimed ==
    \A s \in Subs :
        (/\ phase[s] = "gone"
         /\ s \in routed
         /\ slowSend[s] # <<>> \/ \E i \in 1..Len(unsubQ) : unsubQ[i] = s)
            ~> s \notin routed

\* A consumer that keeps reading gets what its channel still holds and then
\* None: once the actor has stopped, and also once its unsubscribe was queued
\* (unsubscribe_immediate takes unsubscribe_tx and leaves the receiver open),
\* whatever slow send is in flight for it when the request is handled.
StreamsEnd ==
    \A s \in Subs :
        (Alive(s) /\ (actor = "stopped" \/ s \notin canCancel))
            ~> (s \in ended \/ phase[s] \in {"leaving", "gone"})

\* Every message that matched a subscription is received or counted as
\* dropped, unless the subscription ends first.
EveryMessageResolved ==
    \A s \in Subs : \A n \in 1..MaxPublished :
        routedTo[s] >= n ~>
            \/ Len(received[s]) + dropped[s] >= n
            \/ s \notin routed \/ actor # "running" \/ ~Alive(s) \/ phase[s] = "leaving"

-----------------------------------------------------------------------------
(* The abstract specification of one subscription *)

Fifo(s) == INSTANCE LossyFifo WITH
    Message   <- 1..MaxPublished,
    status    <- IF phase[s] = "none" THEN "new"
                 ELSE IF s \in routed /\ Alive(s) /\ actor = "running" THEN "open"
                 ELSE "closed",
    pending   <- IF Alive(s) THEN channel[s] \o slowSend[s] \o queue[s] ELSE <<>>,
    delivered <- received[s],
    missed    <- dropped[s]

\* Each subscription implements LossyFifo: its pending messages are its channel,
\* its slow send and its parked queue, in this order.  (Equivalent to
\* \A s \in Subs : Fifo(s)!Spec, in the form TLC accepts.)
ImplementsLossyFifo ==
    /\ \A s \in Subs : Fifo(s)!Init
    /\ [][\A s \in Subs : [Fifo(s)!Next]_(Fifo(s)!vars)]_vars
=============================================================================
