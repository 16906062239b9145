---------------------------- MODULE ClientSystem ----------------------------
(***************************************************************************)
(* A connected client as its tasks see each other: the event-loop task,    *)
(* the routing actor, the owner of the connection handle, and the two      *)
(* bounded channels between them.                                          *)
(*   core/src/client/async_client.rs            run: the event loop        *)
(*   core/src/routing/subscription_manager.rs   the actor's broker requests*)
(*   core/src/connection.rs                     shutdown and Drop          *)
(*                                                                         *)
(* Here a routed pattern has one subscription, and delivery to consumers   *)
(* is left to Backpressure.  The MQTT backend and the broker are external: *)
(* a client call queues a request and waits while the queue is full; only  *)
(* event_loop.poll() takes requests out, and it keeps those the broker has *)
(* not seen across a reconnect; a call fails once the event loop is        *)
(* dropped.  The broker grants what is requested.                          *)
(***************************************************************************)
EXTENDS Naturals, Sequences

CONSTANTS
    Patterns,         \* the topic patterns the application uses
    RequestCapacity,  \* ClientSettings.event_loop_capacity
    CommandCapacity,  \* ClientSettings.command_channel_capacity
    MaxErrors,        \* MAX_CONSECUTIVE_ERRORS
    MaxCalls          \* bound: subscriptions made by the application

ASSUME RequestCapacityAssumption == RequestCapacity \in Nat \ {0}
ASSUME CommandCapacityAssumption == CommandCapacity \in Nat \ {0}
ASSUME MaxErrorsAssumption       == MaxErrors \in Nat \ {0}
ASSUME MaxCallsAssumption        == MaxCalls \in Nat

VARIABLES
    \* the event-loop task
    loop,      \* "polling"; "dispatching" or "resubscribing": waiting for room
               \* in the command channel; "awaiting": for the actor's answer;
               \* "sleeping" (backoff); "closing" (after the loop); "ended"
    connState, \* the published ConnectionState
    errorCount, reconnectAttempt,
    \* the actor
    actor,     \* "idle", the handler that waits for a broker request, "stopped"
    routed,    \* patterns in topic_router
    todo,      \* patterns the handler still has to send a request for
    answered,  \* the reply to ResubscribeAll is in its oneshot channel
    \* the owner of MqttConnection
    handle,    \* "held", "cleaning", "disconnecting", "joining" (steps 1-3 of
               \* shutdown), "done"; "dropped" without shutdown
    \* channels and environment
    commands, requests,
    link,      \* the backend's connection: "up", "down"
    broker,    \* the patterns the broker holds for this client
    calls      \* subscriptions made so far

loopVars  == <<loop, connState, errorCount, reconnectAttempt>>
actorVars == <<actor, routed, todo, answered>>
vars == <<loopVars, actorVars, handle, commands, requests, link, broker, calls>>

-----------------------------------------------------------------------------
Subscribe(p)   == [op |-> "subscribe", pattern |-> p]
Unsubscribe(p) == [op |-> "unsubscribe", pattern |-> p]
Disconnect     == [op |-> "disconnect"]
Send           == [op |-> "send"]
ResubscribeAll == [op |-> "resubscribe"]
Shutdown       == [op |-> "shutdown"]

Connected(sessionPresent) == [is |-> "connected", sessionPresent |-> sessionPresent]
Reconnecting(attempt)     == [is |-> "reconnecting", attempt |-> attempt]
Disconnected(reason)      == [is |-> "disconnected", reason |-> reason]

RequestRoom == Len(requests) < RequestCapacity
CommandRoom == Len(commands) < CommandCapacity

\* run() returns after the loop and drops the backend's event loop with it.
LoopGone == loop = "ended"

\* shutdown_tx was used or dropped.
Signalled == handle # "held"

Init ==
    /\ loop = "polling"
    /\ \E b \in BOOLEAN : connState = Connected(b)
    /\ errorCount = 0
    /\ reconnectAttempt = 0
    /\ actor = "idle"
    /\ routed = {}
    /\ todo = {}
    /\ answered = FALSE
    /\ handle = "held"
    /\ commands = <<>>
    /\ requests = <<>>
    /\ link = "up"
    /\ broker = {}
    /\ calls = 0

-----------------------------------------------------------------------------
(* The event loop: one action per outcome of event_loop.poll() *)

\* Any packet other than CONNACK and DISCONNECT, in either direction.
Progress == errorCount' = 0 /\ reconnectAttempt' = 0

\* Faulty form: nothing is published.
Break_Silent(reason) == loop' = "closing" /\ UNCHANGED connState

\* The loop breaks and publishes its reason; the streams are closed after.
Break(reason) ==
    /\ loop' = "closing"
    /\ connState' = Disconnected(reason)

\* Outgoing: the backend writes the oldest request.
PollRequest ==
    /\ loop = "polling"
    /\ link = "up"
    /\ requests # <<>>
    /\ requests' = Tail(requests)
    /\ LET r == Head(requests)
       IN  \/ /\ r = Disconnect
              /\ Break("CleanShutdown")
              /\ link' = "down"
              /\ UNCHANGED <<errorCount, reconnectAttempt, broker>>
           \/ /\ r.op \in {"subscribe", "unsubscribe"}
              /\ broker' = IF r.op = "subscribe" THEN broker \cup {r.pattern}
                           ELSE broker \ {r.pattern}
              /\ Progress
              /\ UNCHANGED <<loop, connState, link>>
    /\ UNCHANGED <<actorVars, handle, commands, calls>>

PollPublish ==
    /\ loop = "polling"
    /\ link = "up"
    /\ broker # {}
    /\ Progress
    /\ loop' = "dispatching"
    /\ UNCHANGED <<connState, actorVars, handle, commands, requests, link, broker, calls>>

\* SUBACK, UNSUBACK, PINGRESP, ...
PollOther ==
    /\ loop = "polling"
    /\ link = "up"
    /\ Progress
    /\ UNCHANGED <<loop, connState, actorVars, handle, commands, requests, link, broker, calls>>

PollDisconnect ==
    /\ loop = "polling"
    /\ link = "up"
    /\ link' = "down"
    /\ Break("BrokerDisconnected")
    /\ UNCHANGED <<errorCount, reconnectAttempt, actorVars, handle, commands, requests,
                   broker, calls>>

\* Faulty form: a CONNACK counts as progress of the connection.
PollConnAck_ResetsErrors(sessionPresent) ==
    /\ loop = "polling"
    /\ link = "down"
    /\ link' = "up"
    /\ Progress
    /\ broker' = IF sessionPresent THEN broker ELSE {}
    /\ loop' = IF sessionPresent THEN "polling" ELSE "resubscribing"
    /\ connState' = IF sessionPresent THEN Connected(TRUE) ELSE connState
    /\ UNCHANGED <<actorVars, handle, commands, requests, calls>>

\* Faulty form: a lost session is not noticed.
PollConnAck_NoResubscribe(sessionPresent) ==
    /\ loop = "polling"
    /\ link = "down"
    /\ link' = "up"
    /\ reconnectAttempt' = 0
    /\ broker' = IF sessionPresent THEN broker ELSE {}
    /\ connState' = Connected(sessionPresent)
    /\ UNCHANGED <<loop, errorCount, actorVars, handle, commands, requests, calls>>

\* A successful CONNACK; without a session the broker starts from nothing.
\* (One that is rejected changes nothing: a stuttering step.)
PollConnAck(sessionPresent) ==
    /\ loop = "polling"
    /\ link = "down"
    /\ link' = "up"
    /\ reconnectAttempt' = 0
    /\ broker' = IF sessionPresent THEN broker ELSE {}
    /\ loop' = IF sessionPresent THEN "polling" ELSE "resubscribing"
    /\ connState' = IF sessionPresent THEN Connected(TRUE) ELSE connState
    /\ UNCHANGED <<errorCount, actorVars, handle, commands, requests, calls>>

\* Faulty forms: the bound is checked before the failure is counted; the count
\* is capped like the backoff.
PollErr_OneMore ==
    /\ loop = "polling"
    /\ link' = "down"
    /\ errorCount' = errorCount + 1
    /\ reconnectAttempt' = reconnectAttempt + 1
    /\ IF errorCount >= MaxErrors
       THEN Break("MaxErrorsExceeded")
       ELSE /\ connState' = Reconnecting(reconnectAttempt')
            /\ loop' = "sleeping"
    /\ UNCHANGED <<actorVars, handle, commands, requests, broker, calls>>

PollErr_Capped ==
    /\ loop = "polling"
    /\ link' = "down"
    /\ errorCount' = IF errorCount + 1 < MaxErrors THEN errorCount + 1 ELSE errorCount
    /\ reconnectAttempt' = errorCount'
    /\ connState' = Reconnecting(reconnectAttempt')
    /\ loop' = "sleeping"
    /\ UNCHANGED <<actorVars, handle, commands, requests, broker, calls>>

PollErr ==
    /\ loop = "polling"
    /\ link' = "down"
    /\ errorCount' = errorCount + 1
    /\ reconnectAttempt' = reconnectAttempt + 1
    /\ IF errorCount' >= MaxErrors
       THEN Break("MaxErrorsExceeded")
       ELSE /\ connState' = Reconnecting(reconnectAttempt')
            /\ loop' = "sleeping"
    /\ UNCHANGED <<actorVars, handle, commands, requests, broker, calls>>

Wake ==
    /\ loop = "sleeping"
    /\ loop' = "polling"
    /\ UNCHANGED <<connState, errorCount, reconnectAttempt, actorVars, handle,
                   commands, requests, link, broker, calls>>

\* dispatch_incoming_message and resubscribe_all wait for room; a command
\* channel closed by a stopped actor fails them at once.
Dispatch ==
    /\ loop = "dispatching"
    /\ actor = "stopped" \/ CommandRoom
    /\ commands' = IF actor = "stopped" THEN commands ELSE Append(commands, Send)
    /\ loop' = "polling"
    /\ UNCHANGED <<connState, errorCount, reconnectAttempt, actorVars, handle,
                   requests, link, broker, calls>>

RequestResubscribe ==
    /\ loop = "resubscribing"
    /\ actor # "stopped"
    /\ CommandRoom
    /\ commands' = Append(commands, ResubscribeAll)
    /\ loop' = "awaiting"
    /\ UNCHANGED <<connState, errorCount, reconnectAttempt, actorVars, handle,
                   requests, link, broker, calls>>

\* The answer, or its loss with the actor: both are followed by Connected.
Resubscribed ==
    /\ \/ loop = "awaiting" /\ (answered \/ actor = "stopped")
       \/ loop = "resubscribing" /\ actor = "stopped"
    /\ answered' = FALSE
    /\ loop' = "polling"
    /\ connState' = Connected(FALSE)
    /\ UNCHANGED <<errorCount, reconnectAttempt, actor, routed, todo, handle,
                   commands, requests, link, broker, calls>>

\* Faulty form: the actor is not told.
CloseStreams_Silent ==
    /\ loop = "closing"
    /\ loop' = "ended"
    /\ UNCHANGED <<connState, errorCount, reconnectAttempt, actorVars, handle,
                   commands, requests, link, broker, calls>>

\* After the loop: Command::Shutdown, then run() returns and drops the backend's
\* event loop with the requests it was never given.
CloseStreams ==
    /\ loop = "closing"
    /\ actor = "stopped" \/ CommandRoom
    /\ commands' = IF actor = "stopped" THEN commands ELSE Append(commands, Shutdown)
    /\ loop' = "ended"
    /\ requests' = <<>>
    /\ UNCHANGED <<connState, errorCount, reconnectAttempt, actorVars, handle,
                   link, broker, calls>>

-----------------------------------------------------------------------------
(* The actor *)

HandleResubscribeAll ==
    /\ actor = "idle"
    /\ commands # <<>>
    /\ Head(commands) = ResubscribeAll
    /\ commands' = Tail(commands)
    /\ actor' = "resubscribing"
    /\ todo' = routed
    /\ UNCHANGED <<loopVars, routed, answered, handle, requests, link, broker, calls>>

\* The first subscription of a pattern needs a broker request.
HandleSubscribe ==
    /\ actor = "idle"
    /\ commands # <<>>
    /\ Head(commands).op = "subscribe"
    /\ LET p == Head(commands).pattern
       IN  /\ routed' = routed \cup {p}
           /\ todo' = {p} \ routed
           /\ actor' = IF p \in routed THEN "idle" ELSE "subscribing"
    /\ commands' = Tail(commands)
    /\ UNCHANGED <<loopVars, answered, handle, requests, link, broker, calls>>

HandleSend ==
    /\ actor = "idle"
    /\ commands # <<>>
    /\ Head(commands) = Send
    /\ commands' = Tail(commands)
    /\ UNCHANGED <<loopVars, actorVars, handle, requests, link, broker, calls>>

\* A subscription ends (Subscriber dropped, or its channel found closed).
\* topic_now_empty reports the whole router, see TopicRouter.
HandleUnsubscribe(p) ==
    /\ actor = "idle"
    /\ p \in routed
    /\ routed' = routed \ {p}
    /\ todo' = IF routed' = {} THEN {p} ELSE {}
    /\ actor' = IF routed' = {} THEN "unsubscribing" ELSE "idle"
    /\ UNCHANGED <<loopVars, answered, handle, commands, requests, link, broker, calls>>

\* select!'s shutdown_rx, Command::Shutdown, or every command sender gone.
HandleShutdown ==
    /\ actor = "idle"
    /\ \/ Signalled /\ UNCHANGED commands
       \/ commands # <<>> /\ Head(commands) = Shutdown /\ commands' = Tail(commands)
    /\ actor' = "cleaning"
    /\ todo' = routed
    /\ UNCHANGED <<loopVars, routed, answered, handle, requests, link, broker, calls>>

\* One client.subscribe().await or client.unsubscribe().await, in any order of
\* the HashMap; it waits for room or fails with the event loop gone.
Request(p) ==
    /\ p \in todo
    /\ LoopGone \/ RequestRoom
    /\ requests' = IF LoopGone THEN requests
                   ELSE Append(requests, IF actor \in {"subscribing", "resubscribing"}
                                         THEN Subscribe(p) ELSE Unsubscribe(p))
    /\ routed' = IF LoopGone /\ actor = "subscribing" THEN routed \ {p} ELSE routed
    /\ todo' = todo \ {p}
    /\ UNCHANGED <<loopVars, actor, answered, handle, commands, link, broker, calls>>

\* Faulty form: the event loop gets no answer.
HandlerDone_Mute ==
    /\ actor \notin {"idle", "stopped"}
    /\ todo = {}
    /\ IF actor = "cleaning"
       THEN actor' = "stopped" /\ routed' = {} /\ commands' = <<>>
       ELSE actor' = "idle" /\ UNCHANGED <<routed, commands>>
    /\ UNCHANGED <<loopVars, todo, answered, handle, requests, link, broker, calls>>

\* The handler has made its requests.  At the end of cleanup the router is
\* cleared and the actor returns, which closes the command channel.
HandlerDone ==
    /\ actor \notin {"idle", "stopped"}
    /\ todo = {}
    /\ answered' = (answered \/ actor = "resubscribing")
    /\ IF actor = "cleaning"
       THEN actor' = "stopped" /\ routed' = {} /\ commands' = <<>>
       ELSE actor' = "idle" /\ UNCHANGED <<routed, commands>>
    /\ UNCHANGED <<loopVars, todo, handle, requests, link, broker, calls>>

-----------------------------------------------------------------------------
(* The application: MqttClient::subscribe, MqttConnection::shutdown and Drop *)

AppSubscribe(p) ==
    /\ calls < MaxCalls
    /\ actor # "stopped"
    /\ CommandRoom
    /\ commands' = Append(commands, Subscribe(p))
    /\ calls' = calls + 1
    /\ UNCHANGED <<loopVars, actorVars, handle, requests, link, broker>>

ShutdownStart ==
    /\ handle = "held"
    /\ handle' \in {"cleaning", "dropped"}
    /\ UNCHANGED <<loopVars, actorVars, commands, requests, link, broker, calls>>

ShutdownCleaned ==
    /\ handle = "cleaning"
    /\ actor = "stopped"
    /\ handle' = "disconnecting"
    /\ UNCHANGED <<loopVars, actorVars, commands, requests, link, broker, calls>>

\* Faulty form: step 2 is left out.
ShutdownDisconnect_Skipped ==
    /\ handle = "disconnecting"
    /\ handle' = "joining"
    /\ UNCHANGED <<loopVars, actorVars, commands, requests, link, broker, calls>>

ShutdownDisconnect ==
    /\ handle = "disconnecting"
    /\ LoopGone \/ RequestRoom
    /\ requests' = IF LoopGone THEN requests ELSE Append(requests, Disconnect)
    /\ handle' = "joining"
    /\ UNCHANGED <<loopVars, actorVars, commands, link, broker, calls>>

ShutdownJoin ==
    /\ handle = "joining"
    /\ LoopGone
    /\ handle' = "done"
    /\ UNCHANGED <<loopVars, actorVars, commands, requests, link, broker, calls>>

\* Nothing is left to do: a real end, kept apart from a deadlock.
Finished ==
    /\ LoopGone
    /\ actor = "stopped"
    /\ handle \in {"held", "done", "dropped"}
    /\ UNCHANGED vars

-----------------------------------------------------------------------------
EventLoop ==
    \/ PollRequest \/ PollPublish \/ PollOther \/ PollDisconnect \/ PollErr
    \/ \E b \in BOOLEAN : PollConnAck(b)
    \/ Wake \/ Dispatch \/ RequestResubscribe \/ Resubscribed \/ CloseStreams

Actor ==
    \/ HandleResubscribeAll \/ HandleSubscribe \/ HandleSend \/ HandleShutdown
    \/ \E p \in Patterns : HandleUnsubscribe(p) \/ Request(p)
    \/ HandlerDone

Owner ==
    \/ \E p \in Patterns : AppSubscribe(p)
    \/ ShutdownStart \/ ShutdownCleaned \/ ShutdownDisconnect \/ ShutdownJoin

Next == EventLoop \/ Actor \/ Owner \/ Finished

Spec == Init /\ [][Next]_vars

HandleCommand == HandleResubscribeAll \/ HandleSubscribe \/ HandleSend \/ HandleShutdown

Reconnect == link = "down" /\ (PollErr \/ \E b \in BOOLEAN : PollConnAck(b))

\* poll() ends each reconnect attempt and writes requests while connected;
\* select! takes its ready branches in random order; waiting senders of a
\* bounded channel are served in their order.
Fairness ==
    /\ WF_vars(Reconnect) /\ SF_vars(PollRequest)
    /\ WF_vars(Wake) /\ WF_vars(Resubscribed)
    /\ SF_vars(Dispatch) /\ SF_vars(RequestResubscribe) /\ SF_vars(CloseStreams)
    /\ SF_vars(HandleCommand) /\ SF_vars(HandleShutdown)
    /\ \A p \in Patterns : SF_vars(Request(p))
    /\ WF_vars(HandlerDone)
    /\ WF_vars(ShutdownCleaned) /\ SF_vars(ShutdownDisconnect) /\ WF_vars(ShutdownJoin)

FairSpec == Spec /\ Fairness

-----------------------------------------------------------------------------
(* Properties *)

\* Every variable has its type, the two channels keep their capacity and the
\* error counters their bound.
TypeOK ==
    /\ loop \in {"polling", "dispatching", "resubscribing", "awaiting",
                "sleeping", "closing", "ended"}
    /\ connState \in {Connected(b) : b \in BOOLEAN}
                    \cup {Reconnecting(n) : n \in 1..MaxErrors}
                    \cup {Disconnected(r) : r \in {"CleanShutdown", "BrokerDisconnected",
                                                 "MaxErrorsExceeded"}}
    /\ errorCount \in 0..MaxErrors
    /\ reconnectAttempt \in 0..MaxErrors
    /\ actor \in {"idle", "subscribing", "resubscribing", "unsubscribing",
                 "cleaning", "stopped"}
    /\ routed \subseteq Patterns
    /\ todo \subseteq Patterns
    /\ answered \in BOOLEAN
    /\ handle \in {"held", "cleaning", "disconnecting", "joining", "done", "dropped"}
    /\ commands \in Seq({Subscribe(p) : p \in Patterns} \cup {Send, ResubscribeAll, Shutdown})
    /\ requests \in Seq({Subscribe(p) : p \in Patterns}
                        \cup {Unsubscribe(p) : p \in Patterns} \cup {Disconnect})
    /\ Len(commands) <= CommandCapacity
    /\ Len(requests) <= RequestCapacity
    /\ link \in {"up", "down"}
    /\ broker \subseteq Patterns
    /\ calls \in 0..MaxCalls

\* Once the requests on their way are written the broker holds p: the last of
\* them about p subscribes, or none is about p and the broker holds it already.
Covered(p) ==
    LET about == {i \in 1..Len(requests) : requests[i] \in {Subscribe(p), Unsubscribe(p)}}
    IN  IF about = {} THEN p \in broker
        ELSE \E i \in about : /\ requests[i] = Subscribe(p)
                              /\ \A j \in about : j <= i

\* Connected is published only when the connection is up and every routed
\* pattern is with the broker or on its way, in an order that leaves it
\* subscribed, however reconnects, lost sessions, subscriptions and
\* unsubscriptions interleave (until cleanup withdraws them all).
ConnectedMeansCovered ==
    connState.is = "connected" =>
        /\ link = "up"
        /\ actor # "cleaning" =>
                \A p \in routed : Covered(p) \/ (actor = "subscribing" /\ p \in todo)

\* The observable attempt never runs ahead of the count that ends the loop, a
\* Reconnecting state counts at least one failure and never the last allowed
\* one, and the loop gives up at exactly MAX_CONSECUTIVE_ERRORS.
CountersAgree ==
    /\ reconnectAttempt <= errorCount
    /\ connState.is = "reconnecting" => connState.attempt \in 1..MaxErrors - 1
    /\ errorCount = MaxErrors <=> connState = Disconnected("MaxErrorsExceeded")

\* Streams close on the event loop's death only after its reason is published
\* (unless the handle's owner stopped the actor), and CleanShutdown is
\* published only for a shutdown that already closed them.
TerminalBeforeStreams ==
    /\ actor \in {"cleaning", "stopped"} /\ ~Signalled => connState.is = "disconnected"
    /\ connState = Disconnected("CleanShutdown") => /\ actor = "stopped"
                                                  /\ handle \in {"joining", "done"}

\* A reconnecting event loop gets its answer and goes back to polling.
ResubscribeCompletes ==
    loop \in {"resubscribing", "awaiting"} ~> loop = "polling"

\* shutdown() returns: also when the broker is unreachable, the connection
\* flaps, or the event loop ends on its own meanwhile.
ShutdownCompletes == handle = "cleaning" ~> handle = "done"

\* Every end of the event loop stops the actor, which closes all streams.
DeathClosesStreams == loop = "closing" ~> actor = "stopped"

\* Each of the three holds in the behaviours in which the request channel never
\* fills up: nothing but a full request channel can block the tasks for ever.
ResubscribeCompletesWithRoom == []RequestRoom => ResubscribeCompletes
ShutdownCompletesWithRoom    == []RequestRoom => ShutdownCompletes
DeathClosesStreamsWithRoom   == []RequestRoom => DeathClosesStreams

\* A broker that stays out of reach is given up and Disconnected published.
UnreachableTerminates == <>[](link = "down") => <>(connState.is = "disconnected")

\* The broker sends nothing any more besides its CONNACKs.
BrokerSilent == <>[][~(PollPublish \/ PollOther)]_vars

\* async_client.rs:171-176: "a broker that keeps accepting then dropping the
\* connection still accumulates toward termination": it is given up in the end if
\* nothing is written meanwhile, since a bare CONNACK does not reset the count.
\* connection_state.rs:31-33 says the contrary, "a broker that keeps reconnecting
\* is not permanently killed", and is not what the code does: such a broker is the
\* one given up here, with no attempt above 1 published.
SilentFlapTerminates ==
    []<>(link = "down") /\ <>[](requests = <<>>) /\ BrokerSilent
        => <>(connState.is = "disconnected")

-----------------------------------------------------------------------------
(* What the comments of the code say, and the code does not do *)

\* connection_state.rs:23: "`false` means a clean session, so subscriptions were
\* re-established by the client": a reconnect without a session ends with this,
\* here while nobody shuts the connection down.
LostSessionRestored ==
    [](handle = "held") =>
        (loop = "resubscribing" ~> loop = "polling")
=============================================================================
