------------------------------ MODULE BrokerSync ------------------------------
(***************************************************************************)
(* The router and the broker: what the actor asks of the broker, and what  *)
(* the broker ends up holding.                                             *)
(*   core/src/routing/subscription_manager.rs   the handlers around the    *)
(*                                              router (TopicRouter)       *)
(*   core/src/routing/subscriber.rs             the owners of its ids      *)
(*                                                                         *)
(* External: a client call queues a request, or fails (a filter that the   *)
(* backend refuses, an event loop that is gone); Ok means queued, no more. *)
(* The queue survives a reconnect.  The broker grants or rejects a         *)
(* SUBSCRIBE, and keeps nothing when it loses the session.                 *)
(***************************************************************************)
EXTENDS TopicRouter, FiniteSets, SequencesExt

CONSTANTS
    MaxRequests,  \* bound: requests queued (ClientSystem has the full queue)
    LeaveRoom     \* places in the unsubscribe channel

ASSUME MaxRequestsAssumption == MaxRequests \in Nat
ASSUME LeaveRoomAssumption   == LeaveRoom \in Nat

VARIABLES
    inHand,    \* the id whose handle_subscribe is under way
    asks,      \* and whether it has still to send its SUBSCRIBE
    stopped,   \* the actor has cleaned up
    broker,    \* pattern -> the level granted
    requests,  \* the client's requests, in order
    lost,      \* a session was lost and is not yet asked for again
    owned,     \* ids whose Subscriber the application holds
    leaving,   \* ids in the unsubscribe channel
    \* history
    refused,   \* patterns whose last SUBSCRIBE the backend or broker refused
    leftover,  \* patterns whose removal did not lower what the broker holds
    deserted   \* ids of Subscribers dropped with the channel full

actorVars == <<inHand, asks, stopped>>
ownerVars == <<owned, leaving, deserted>>
syncVars  == <<vars, actorVars, broker, requests, lost, ownerVars, refused, leftover>>

-----------------------------------------------------------------------------
SubscribeAt(p, q)  == [op |-> "subscribe", pattern |-> p, qos |-> q]
UnsubscribeFrom(p) == [op |-> "unsubscribe", pattern |-> p]

Room(n) == Len(requests) + n <= MaxRequests

Queued(p) == {i \in 1..Len(requests) : requests[i].pattern = p}

\* No level: not subscribed.
None == {}

\* What the broker will hold for p once it has granted all that is queued.
Settled(p) ==
    IF Queued(p) = {} THEN IF p \in DOMAIN broker THEN {broker[p]} ELSE None
    ELSE LET r == requests[CHOOSE i \in Queued(p) : \A j \in Queued(p) : j <= i]
         IN  IF r.op = "subscribe" THEN {r.qos} ELSE None

\* What the router would ask for now.
Needed(p) == IF p \in DOMAIN TopicsForResubscribe THEN {TopicsForResubscribe[p]} ELSE None

SyncInit ==
    /\ Init
    /\ inHand = {} /\ asks = FALSE /\ stopped = FALSE
    /\ broker = <<>> /\ requests = <<>> /\ lost = FALSE
    /\ owned = {} /\ leaving = {} /\ deserted = {}
    /\ refused = {} /\ leftover = {}

-----------------------------------------------------------------------------
(* The actor: a handler that waits for room is under way until it has some *)

Idle == inHand = {} /\ ~stopped

\* handle_subscribe up to the request.
HandleSubscribe(p, q) ==
    /\ Idle
    /\ AddSubscription(p, q)
    /\ inHand' = {nextId}
    /\ asks' = NeedsSubscribe(p, q)
    /\ UNCHANGED <<stopped, broker, requests, lost, ownerVars, refused, leftover>>

RequestSubscribe(id) ==
    /\ asks
    /\ Room(1)
    /\ asks' = FALSE
    /\ LET s == subscriptions[id]
       IN  /\ requests' = Append(requests, SubscribeAt(s.pattern, s.qos))
           /\ refused' = refused \ {s.pattern}
           /\ leftover' = leftover \ {s.pattern}
    /\ UNCHANGED <<vars, inHand, stopped, broker, lost, ownerVars>>

\* Faulty form: a failed request leaves the subscription in the router.
RequestSubscribeFails_NoRollback(id) ==
    /\ asks
    /\ inHand' = {}
    /\ asks' = FALSE
    /\ UNCHANGED <<vars, stopped, broker, requests, lost, ownerVars, refused, leftover>>

\* The request fails: the subscription is taken out again, and what unsubscribe
\* says of its topic is not looked at.
RequestSubscribeFails(id) ==
    /\ asks
    /\ Unsubscribe(id)
    /\ inHand' = {}
    /\ asks' = FALSE
    /\ UNCHANGED <<stopped, broker, requests, lost, ownerVars, refused, leftover>>

ReplySubscribed(id) ==
    /\ ~asks
    /\ inHand' = {}
    /\ owned' = owned \cup {id}
    /\ UNCHANGED <<vars, asks, stopped, broker, requests, lost, leaving, deserted,
                   refused, leftover>>

\* Faulty form: the broker is told of every removal.
Release_Always(id) ==
    \E p \in {subscriptions[id].pattern} :
        /\ Room(1)
        /\ requests' = Append(requests, UnsubscribeFrom(p))
        /\ leftover' = leftover \ {p}

\* handle_unsubscribe after the router's answer: a request when the topic is
\* empty, which may fail; else the broker keeps what it has.
Release(id) ==
    \E p \in {subscriptions[id].pattern} :
        \/ /\ TopicNowEmpty(id)
           /\ Room(1)
           /\ requests' = Append(requests, UnsubscribeFrom(p))
           /\ leftover' = leftover \ {p}
        \/ /\ UNCHANGED requests
           /\ leftover' = IF Needed(p)' # Needed(p) THEN leftover \cup {p} ELSE leftover

\* Faulty form: the request is queued however many there are.
Drop_Unbounded(id) == leaving' = leaving \cup {id} /\ UNCHANGED deserted

\* Dropping a Subscriber: one try_send.
Drop(id) ==
    IF Cardinality(leaving) < LeaveRoom
    THEN leaving' = leaving \cup {id} /\ UNCHANGED deserted
    ELSE deserted' = deserted \cup {id} /\ UNCHANGED leaving

\* The caller of subscribe is gone: the Subscriber comes back and is dropped,
\* and the actor removes the subscription itself.
ReplyGone(id) ==
    /\ ~asks
    /\ Drop(id)
    /\ Unsubscribe(id)
    /\ Release(id)
    /\ inHand' = {}
    /\ UNCHANGED <<asks, stopped, broker, lost, owned, refused>>

\* An id from the channel; one that the router does not know is only logged.
HandleUnsubscribe(id) ==
    /\ Idle
    /\ leaving' = leaving \ {id}
    /\ IF id \in Ids
       THEN Unsubscribe(id) /\ Release(id)
       ELSE UNCHANGED <<vars, requests, leftover>>
    /\ UNCHANGED <<actorVars, broker, lost, owned, deserted, refused>>

\* handle_send finds the channel of a dropped Subscriber closed.
HandleSendClosed(id) ==
    /\ Idle
    /\ Unsubscribe(id)
    /\ Release(id)
    /\ UNCHANGED <<actorVars, broker, lost, ownerVars, refused>>

\* handle_resubscribe_all: each pattern once, at its highest level; a request
\* that fails does not stop the others.
HandleResubscribeAll(failed) ==
    /\ Idle
    /\ lost
    /\ lost' = FALSE
    /\ LET asked == SetToSeq(DOMAIN TopicsForResubscribe \ failed)
       IN  /\ Room(Len(asked))
           /\ requests' = requests \o
                [i \in 1..Len(asked) |-> SubscribeAt(asked[i], TopicsForResubscribe[asked[i]])]
           /\ refused' = (refused \ Range(asked)) \cup failed
           /\ leftover' = {p \in leftover \ Range(asked) : Settled(p) # None}
    /\ UNCHANGED <<vars, actorVars, broker, ownerVars>>

\* cleanup_active_subscriptions; the requests may fail, with the event loop gone.
CleanUp(failed) ==
    /\ Idle
    /\ LET asked == SetToSeq(DOMAIN TopicsForResubscribe \ failed)
       IN  /\ Room(Len(asked))
           /\ requests' = requests \o [i \in 1..Len(asked) |-> UnsubscribeFrom(asked[i])]
           /\ leftover' = (leftover \ Range(asked)) \cup failed
    /\ Cleanup
    /\ stopped' = TRUE
    /\ UNCHANGED <<inHand, asks, broker, lost, ownerVars, refused>>

-----------------------------------------------------------------------------
(* The owners: Drop, and unsubscribe, of Subscriber *)

Leave(id) ==
    /\ owned' = owned \ {id}
    /\ Drop(id)
    /\ UNCHANGED <<vars, actorVars, broker, requests, lost, refused, leftover>>

-----------------------------------------------------------------------------
(* The backend and the broker *)

\* The oldest request reaches the broker.  A SUBACK that rejects it is not
\* looked at.
Answer(granted) ==
    /\ requests # <<>>
    /\ requests' = Tail(requests)
    /\ LET r == Head(requests)
           others == DOMAIN broker \ {r.pattern}
       IN  /\ broker' = CASE r.op = "unsubscribe" -> Restrict(broker, others)
                           [] r.op = "subscribe" /\ granted ->
                                [p \in others \cup {r.pattern} |->
                                    IF p = r.pattern THEN r.qos ELSE broker[p]]
                           [] OTHER -> broker
           /\ refused' = IF r.op = "subscribe" /\ ~granted /\ Queued(r.pattern) = {1}
                         THEN refused \cup {r.pattern} ELSE refused
    /\ UNCHANGED <<vars, actorVars, lost, ownerVars, leftover>>

\* The connection is re-established without a session.  What is queued is kept.
LoseSession ==
    /\ lost' = TRUE
    /\ broker' = <<>>
    /\ leftover' = {p \in leftover : Queued(p) # {}}
    /\ UNCHANGED <<vars, actorVars, requests, ownerVars, refused>>

SyncNext ==
    \/ \E p \in Patterns, q \in QoS : HandleSubscribe(p, q)
    \/ \E id \in inHand : \/ RequestSubscribe(id) \/ RequestSubscribeFails(id)
                          \/ ReplySubscribed(id) \/ ReplyGone(id)
    \/ \E id \in leaving : HandleUnsubscribe(id)
    \/ \E id \in Ids \ (inHand \cup owned) : HandleSendClosed(id)
    \/ \E failed \in SUBSET DOMAIN TopicsForResubscribe :
        HandleResubscribeAll(failed) \/ CleanUp(failed)
    \/ \E id \in owned : Leave(id)
    \/ \E granted \in BOOLEAN : Answer(granted)
    \/ LoseSession

SyncSpec == SyncInit /\ [][SyncNext]_syncVars

-----------------------------------------------------------------------------
(* Properties *)

\* The variables of the composition have their types.
SyncTypeOK ==
    /\ TypeOK
    /\ inHand \subseteq Ids /\ Cardinality(inHand) <= 1
    /\ asks \in BOOLEAN /\ (asks => inHand # {})
    /\ stopped \in BOOLEAN /\ lost \in BOOLEAN
    /\ DOMAIN broker \subseteq Patterns
    /\ \A p \in DOMAIN broker : broker[p] \in QoS
    /\ Len(requests) <= MaxRequests
    /\ Cardinality(leaving) <= LeaveRoom
    /\ refused \cup leftover \subseteq Patterns

Unasked == IF asks THEN inHand ELSE {}

\* Every subscription in the router is held, or asked for, at its level or a
\* higher one, whatever the order of removals, reconnects and old requests:
\* unless the session is lost and not yet asked for again, or the backend or the
\* broker refused.
Covered ==
    ~lost => \A id \in Ids \ Unasked :
        LET s == subscriptions[id]
        IN  s.pattern \in refused \/ \E q \in Settled(s.pattern) : q >= s.qos

\* The broker ends up with what the router would itself ask for, to the level,
\* for every pattern but those refused and those that a removal left behind; a
\* reconnect without a session heals the latter.
ExactUnlessLeftover ==
    ~lost => \A p \in Patterns \ (refused \cup leftover) :
        asks \/ Settled(p) = Needed(p)

\* No subscription is in the router without somebody who will remove it: its
\* handler, its owner, the unsubscribe channel, or, when it found the channel
\* full, the next message for it.
NoOrphan == Ids \subseteq inHand \cup owned \cup leaving \cup deserted
=============================================================================
