------------------------ MODULE ClientSystem_proofs ------------------------
(* Theorems about ClientSystem, for every set of patterns, capacity of the   *)
(* two channels, error limit and number of calls.                            *)
EXTENDS ClientSystem, TLAPS

-----------------------------------------------------------------------------
(* Types *)

Commands == {Subscribe(p) : p \in Patterns} \cup {Send, ResubscribeAll, Shutdown}
Requests == {Subscribe(p) : p \in Patterns}
            \cup {Unsubscribe(p) : p \in Patterns} \cup {Disconnect}

USE RequestCapacityAssumption, CommandCapacityAssumption, MaxErrorsAssumption,
    MaxCallsAssumption

\* Sending to a channel that has room keeps its capacity.
LEMMA SendFacts ==
    ASSUME NEW S, NEW q \in Seq(S), NEW e \in S, NEW c \in Nat, Len(q) < c
    PROVE  Append(q, e) \in Seq(S) /\ Len(Append(q, e)) <= c
  OBVIOUS

\* So does taking the oldest element.
LEMMA TakeFacts ==
    ASSUME NEW S, NEW q \in Seq(S), q # <<>>, NEW c \in Nat, Len(q) <= c
    PROVE  Tail(q) \in Seq(S) /\ Len(Tail(q)) <= c /\ Head(q) \in S
  OBVIOUS

\* The type invariant with what makes it inductive: a loop that polls has not
\* reached the limit, and the observable attempt stays behind.
TypeInv ==
    /\ TypeOK
    /\ reconnectAttempt <= errorCount
    /\ loop \notin {"closing", "ended"} => errorCount < MaxErrors

\* A channel starts empty.
LEMMA EmptyFacts ==
    ASSUME NEW S, NEW c \in Nat
    PROVE  <<>> \in Seq(S) /\ Len(<<>>) <= c
  OBVIOUS

\* The initial state is well typed.
LEMMA TypeInit == Init => TypeInv
<1> SUFFICES ASSUME Init PROVE TypeInv
  OBVIOUS
<1>1. /\ commands \in Seq(Commands) /\ Len(commands) <= CommandCapacity
      /\ requests \in Seq(Requests) /\ Len(requests) <= RequestCapacity
  BY EmptyFacts DEF Init
<1>2. connState \in {Connected(b) : b \in BOOLEAN}
  BY DEF Init
<1>3. answered \in BOOLEAN
  BY DEF Init
<1> QED
  BY <1>1, <1>2, <1>3 DEF Init, TypeInv, TypeOK, Commands, Requests

\* A step of the event loop keeps every value in its type.
LEMMA TypeLoop == ASSUME TypeInv, EventLoop PROVE TypeInv'
<1> USE DEF TypeInv, TypeOK
<1>1. CASE PollRequest
  <2>1. Tail(requests) \in Seq(Requests) /\ Len(Tail(requests)) <= RequestCapacity
        /\ Head(requests) \in Requests
    BY <1>1, TakeFacts DEF PollRequest, Requests
  <2> QED BY <1>1, <2>1, SMTT(30) DEF PollRequest, Requests, Break, Progress, loopVars, actorVars,
                Disconnected, Subscribe, Unsubscribe, Disconnect
<1>2. CASE PollPublish
  BY <1>2 DEF PollPublish, Progress, actorVars
<1>3. CASE PollOther
  BY <1>3 DEF PollOther, Progress, actorVars
<1>4. CASE PollDisconnect
  BY <1>4 DEF PollDisconnect, Break, Disconnected, actorVars
<1>5. CASE PollErr
  BY <1>5 DEF PollErr, Break, Disconnected, Reconnecting, actorVars
<1>6. ASSUME NEW b \in BOOLEAN, PollConnAck(b) PROVE TypeInv'
  <2>1. /\ loop' \in {"polling", "resubscribing"} /\ broker' \in {broker, {}}
        /\ loop = "polling" /\ link' = "up" /\ reconnectAttempt' = 0
        /\ UNCHANGED <<errorCount, actorVars, handle, commands, requests, calls>>
    BY <1>6 DEF PollConnAck
  <2>2. connState' \in {Connected(c) : c \in BOOLEAN} \cup {connState}
    BY <1>6 DEF PollConnAck
  <2> QED BY <2>1, <2>2 DEF actorVars
<1>7. CASE Wake
  BY <1>7 DEF Wake, actorVars
<1>8. CASE Dispatch
  BY <1>8, SendFacts DEF Dispatch, CommandRoom, actorVars
<1>9. CASE RequestResubscribe
  BY <1>9, SendFacts DEF RequestResubscribe, CommandRoom, actorVars
<1>10. CASE Resubscribed
  BY <1>10 DEF Resubscribed, Connected
<1>11. CASE CloseStreams
  BY <1>11, SendFacts DEF CloseStreams, CommandRoom, actorVars
<1> QED
  BY <1>1, <1>2, <1>3, <1>4, <1>5, <1>6, <1>7, <1>8, <1>9, <1>10, <1>11 DEF EventLoop

\* So does a step of the routing actor.
LEMMA TypeActor == ASSUME TypeInv, Actor PROVE TypeInv'
<1> USE DEF TypeInv, TypeOK
<1>1. CASE HandleResubscribeAll
  BY <1>1, TakeFacts DEF HandleResubscribeAll, loopVars
<1>2. CASE HandleSubscribe
  <2>1. Head(commands) \in Commands /\ Tail(commands) \in Seq(Commands)
        /\ Len(Tail(commands)) <= CommandCapacity
    BY <1>2, TakeFacts DEF HandleSubscribe, Commands
  <2>2. Head(commands).pattern \in Patterns
    BY <1>2, <2>1 DEF HandleSubscribe, Commands, Subscribe, Send, ResubscribeAll, Shutdown
  <2> QED BY <1>2, <2>1, <2>2 DEF HandleSubscribe, Commands, loopVars
<1>3. CASE HandleSend
  BY <1>3, TakeFacts DEF HandleSend, loopVars, actorVars
<1>4. CASE HandleShutdown
  <2>1. commands' \in Seq(Commands) /\ Len(commands') <= CommandCapacity
    <3>1. commands \in Seq(Commands) /\ Len(commands) <= CommandCapacity
      BY DEF Commands
    <3> HIDE DEF TypeInv, TypeOK
    <3>2. commands' = commands \/ (commands # <<>> /\ commands' = Tail(commands))
      BY <1>4 DEF HandleShutdown
    <3> QED BY <3>1, <3>2, TakeFacts
  <2> QED BY <1>4, <2>1 DEF HandleShutdown, loopVars, Commands
<1>5. ASSUME NEW p \in Patterns, HandleUnsubscribe(p) PROVE TypeInv'
  BY <1>5 DEF HandleUnsubscribe, loopVars
<1>6. ASSUME NEW p \in Patterns, Request(p) PROVE TypeInv'
  <2>1. requests' \in Seq(Requests) /\ Len(requests') <= RequestCapacity
    BY <1>6, SendFacts DEF Request, RequestRoom, Requests
  <2> QED BY <1>6, <2>1 DEF Request, loopVars, Requests
<1>7. CASE HandlerDone
  <2>1. answered' \in BOOLEAN
    BY <1>7, Zenon DEF HandlerDone
  <2>2. commands' \in Seq(Commands) /\ Len(commands') <= CommandCapacity
    <3>1. commands \in Seq(Commands) /\ Len(commands) <= CommandCapacity
      BY DEF Commands
    <3> HIDE DEF TypeInv, TypeOK
    <3>2. commands' = <<>> \/ commands' = commands
      BY <1>7 DEF HandlerDone
    <3>3. <<>> \in Seq(Commands) /\ Len(<<>>) <= CommandCapacity
      BY EmptyFacts
    <3> QED BY <3>1, <3>2, <3>3
  <2>3. actor' \in {"idle", "stopped"} /\ routed' \subseteq Patterns
    BY <1>7 DEF HandlerDone
  <2> QED BY <1>7, <2>1, <2>2, <2>3 DEF HandlerDone, loopVars, Commands
<1> QED
  BY <1>1, <1>2, <1>3, <1>4, <1>5, <1>6, <1>7 DEF Actor

\* And a step of the owner of the handle, or of the application.
LEMMA TypeOwner == ASSUME TypeInv, Owner PROVE TypeInv'
<1> USE DEF TypeInv, TypeOK
<1>1. ASSUME NEW p \in Patterns, AppSubscribe(p) PROVE TypeInv'
  BY <1>1, SendFacts DEF AppSubscribe, CommandRoom, loopVars, actorVars
<1>2. CASE ShutdownStart
  BY <1>2 DEF ShutdownStart, loopVars, actorVars
<1>3. CASE ShutdownCleaned
  BY <1>3 DEF ShutdownCleaned, loopVars, actorVars
<1>4. CASE ShutdownDisconnect
  BY <1>4, SendFacts DEF ShutdownDisconnect, RequestRoom, loopVars, actorVars
<1>5. CASE ShutdownJoin
  BY <1>5 DEF ShutdownJoin, loopVars, actorVars
<1> QED
  BY <1>1, <1>2, <1>3, <1>4, <1>5 DEF Owner

\* Every step, then, and a step that changes nothing.
LEMMA TypeStep == ASSUME TypeInv, [Next]_vars PROVE TypeInv'
<1>1. CASE Finished \/ UNCHANGED vars
  BY <1>1 DEF Finished, TypeInv, TypeOK, vars, loopVars, actorVars
<1> QED
  BY <1>1, TypeLoop, TypeActor, TypeOwner DEF Next

\* Both channels hold what is sent to them and never more than their capacity,
\* and the loop polls only below its error limit: for every instance.
THEOREM TypeCorrect == Spec => []TypeOK
<1>1. TypeInv => TypeOK
  BY DEF TypeInv
<1> QED
  BY <1>1, TypeInit, TypeStep, PTL DEF Spec

-----------------------------------------------------------------------------
(* The error counters *)

\* CountersAgree with what keeps it: the loop ends when, and only when, it
\* publishes its reason.
CounterInv ==
    /\ TypeInv
    /\ CountersAgree
    /\ connState.is = "disconnected" <=> loop \in {"closing", "ended"}

\* The counters agree at the start.
LEMMA CounterInit == Init => CounterInv
<1> SUFFICES ASSUME Init PROVE CounterInv
  OBVIOUS
<1>1. TypeInv
  BY TypeInit
<1>2. connState.is = "connected"
  BY DEF Init, Connected
<1>3. connState # Disconnected("MaxErrorsExceeded")
  BY <1>2 DEF Disconnected
<1> QED
  BY <1>1, <1>2, <1>3 DEF Init, CounterInv, CountersAgree

\* Every step keeps them in agreement.
LEMMA CounterStep == ASSUME CounterInv, [Next]_vars PROVE CounterInv'
<1>0. TypeInv'
  BY TypeStep DEF CounterInv
<1> USE DEF CounterInv, CountersAgree, TypeInv
<1>t. /\ errorCount \in Nat /\ reconnectAttempt \in Nat
      /\ loop \in {"polling", "dispatching", "resubscribing", "awaiting",
                   "sleeping", "closing", "ended"}
  BY DEF TypeOK
<1>1. CASE PollRequest
  <2>1. \/ /\ errorCount' = 0 /\ reconnectAttempt' = 0 /\ UNCHANGED <<loop, connState>>
        \/ /\ loop' = "closing" /\ connState' = Disconnected("CleanShutdown")
           /\ UNCHANGED <<errorCount, reconnectAttempt>>
    BY <1>1 DEF PollRequest, Progress, Break
  <2> QED BY <1>0, <1>1, <1>t, <2>1 DEF PollRequest, Disconnected
<1>2. CASE PollPublish \/ PollOther
  BY <1>0, <1>2, <1>t DEF PollPublish, PollOther, Progress, Disconnected
<1>4. CASE PollDisconnect
  BY <1>0, <1>4, <1>t DEF PollDisconnect, Break, Disconnected
<1>5. CASE PollErr
  BY <1>0, <1>5, <1>t DEF PollErr, Break, Disconnected, Reconnecting
<1>6. ASSUME NEW b \in BOOLEAN, PollConnAck(b) PROVE CounterInv'
  <2>1. connState' = Connected(TRUE) \/ connState' = connState
    BY <1>6 DEF PollConnAck
  <2>2. connState'.is = "connected" \/ connState' = connState
    BY <2>1 DEF Connected
  <2>3. /\ loop = "polling" /\ loop' \in {"polling", "resubscribing"}
        /\ errorCount' = errorCount /\ reconnectAttempt' = 0
    BY <1>6 DEF PollConnAck
  <2> QED BY <1>0, <1>t, <2>2, <2>3 DEF Disconnected
<1>7. CASE Resubscribed
  BY <1>0, <1>7, <1>t DEF Resubscribed, Connected, Disconnected
<1>8. CASE Wake \/ Dispatch \/ RequestResubscribe \/ CloseStreams
  BY <1>0, <1>8, <1>t DEF Wake, Dispatch, RequestResubscribe, CloseStreams
<1>9. CASE UNCHANGED loopVars
  BY <1>0, <1>9 DEF loopVars
<1>10. Actor \/ Owner \/ Finished \/ UNCHANGED vars => UNCHANGED loopVars
  BY DEF Actor, Owner, Finished, vars, loopVars, HandleResubscribeAll, HandleSubscribe,
         HandleSend, HandleShutdown, HandleUnsubscribe, Request, HandlerDone, AppSubscribe,
         ShutdownStart, ShutdownCleaned, ShutdownDisconnect, ShutdownJoin
<1> QED
  BY <1>1, <1>2, <1>4, <1>5, <1>6, <1>7, <1>8, <1>9, <1>10 DEF Next, EventLoop

\* The observable attempt and the count that ends the loop, for every limit.
THEOREM CountersAgreeHolds == Spec => []CountersAgree
<1>1. CounterInv => CountersAgree
  BY DEF CounterInv
<1> QED
  BY <1>1, CounterInit, CounterStep, PTL DEF Spec
-----------------------------------------------------------------------------
(* Shutdown and the end of the loop *)

Holds(q, e) == \E i \in 1..Len(q) : q[i] = e

\* What a channel holds after a send and after a receive.
LEMMA HoldsAppend ==
    ASSUME NEW S, NEW q \in Seq(S), NEW d \in S, NEW e, Holds(Append(q, d), e)
    PROVE  Holds(q, e) \/ d = e
  BY DEF Holds

\* What remains after the oldest was taken was there before.
LEMMA HoldsTail ==
    ASSUME NEW S, NEW q \in Seq(S), q # <<>>, NEW e, Holds(Tail(q), e)
    PROVE  Holds(q, e)
<1>1. PICK i \in 1..Len(Tail(q)) : Tail(q)[i] = e
  BY DEF Holds
<1>2. i + 1 \in 1..Len(q) /\ q[i + 1] = e
  BY <1>1
<1> QED
  BY <1>2 DEF Holds

\* The oldest element is one the channel holds.
LEMMA HoldsHead ==
    ASSUME NEW S, NEW q \in Seq(S), q # <<>>
    PROVE  Holds(q, Head(q))
  BY DEF Holds

\* An empty channel holds nothing.
LEMMA HoldsEmpty == ASSUME NEW e PROVE ~Holds(<<>>, e)
  BY DEF Holds

\* Command::Shutdown is sent by a loop that has ended, DISCONNECT by an owner
\* that saw the actor stop.
ShutdownInv ==
    /\ CounterInv
    /\ TerminalBeforeStreams
    /\ Holds(commands, Shutdown) => loop = "ended"
    /\ Holds(requests, Disconnect) => handle \in {"joining", "done"}
    /\ handle \in {"disconnecting", "joining", "done"} => actor = "stopped"

\* Nobody has asked to stop at the start.
LEMMA ShutdownInit == Init => ShutdownInv
<1> SUFFICES ASSUME Init PROVE ShutdownInv
  OBVIOUS
<1>1. CounterInv
  BY CounterInit
<1>2. connState # Disconnected("CleanShutdown")
  BY DEF Init, Connected, Disconnected
<1>3. ~Holds(commands, Shutdown) /\ ~Holds(requests, Disconnect)
  BY HoldsEmpty DEF Init
<1> QED
  BY <1>1, <1>2, <1>3 DEF Init, ShutdownInv, TerminalBeforeStreams

\* A step that neither stops the actor nor moves the owner.
LEMMA ShutdownLoop == ASSUME ShutdownInv, EventLoop PROVE ShutdownInv'
<1>0. CounterInv'
  BY CounterStep DEF ShutdownInv, Next
<1>1. UNCHANGED <<actor, handle>>
  BY DEF EventLoop, PollRequest, PollPublish, PollOther, PollDisconnect, PollErr, PollConnAck,
         Wake, Dispatch, RequestResubscribe, Resubscribed, CloseStreams, actorVars
<1>2. commands \in Seq(Commands) /\ requests \in Seq(Requests)
  BY DEF ShutdownInv, CounterInv, TypeInv, TypeOK, Commands, Requests
<1>3. Holds(commands, Shutdown)' => loop' = "ended"
  <2>1. CASE Dispatch
    <3>1. commands' = commands \/ commands' = Append(commands, Send)
      BY <2>1 DEF Dispatch
    <3>2. Send \in Commands /\ Send # Shutdown
      BY DEF Commands, Send, Shutdown
    <3>3. Holds(commands, Shutdown)' => Holds(commands, Shutdown)
      BY <1>2, <3>1, <3>2, HoldsAppend DEF Holds
    <3> QED BY <2>1, <3>3 DEF Dispatch, ShutdownInv
  <2>2. CASE RequestResubscribe
    <3>1. commands' = Append(commands, ResubscribeAll)
      BY <2>2 DEF RequestResubscribe
    <3>2. ResubscribeAll \in Commands /\ ResubscribeAll # Shutdown
      BY DEF Commands, ResubscribeAll, Shutdown
    <3>3. Holds(commands, Shutdown)' => Holds(commands, Shutdown)
      BY <1>2, <3>1, <3>2, HoldsAppend DEF Holds
    <3> QED BY <2>2, <3>3 DEF RequestResubscribe, ShutdownInv
  <2>3. CASE CloseStreams
    BY <2>3 DEF CloseStreams
  <2>4. CASE UNCHANGED commands /\ loop # "ended"
    BY <2>4 DEF ShutdownInv, Holds
  <2> QED
    BY <2>1, <2>2, <2>3, <2>4 DEF EventLoop, PollRequest, PollPublish, PollOther,
       PollDisconnect, PollErr, PollConnAck, Wake, Resubscribed
<1>4. Holds(requests, Disconnect)' => Holds(requests, Disconnect)
  <2>1. CASE PollRequest
    BY <1>2, <2>1, HoldsTail DEF PollRequest, Holds
  <2>2. CASE CloseStreams
    BY <2>2, HoldsEmpty DEF CloseStreams, Holds
  <2>3. CASE UNCHANGED requests
    BY <2>3 DEF Holds
  <2> QED
    BY <2>1, <2>2, <2>3 DEF EventLoop, PollPublish, PollOther, PollDisconnect, PollErr,
       PollConnAck, Wake, Dispatch, RequestResubscribe, Resubscribed
<1>5. connState.is = "disconnected" => connState'.is = "disconnected"
  <2>1. loop \in {"closing", "ended"} => loop' \in {"closing", "ended"}
    BY DEF EventLoop, PollRequest, PollPublish, PollOther, PollDisconnect, PollErr, PollConnAck,
           Wake, Dispatch, RequestResubscribe, Resubscribed, CloseStreams
  <2> QED BY <1>0, <2>1 DEF ShutdownInv, CounterInv
<1>6. connState' = Disconnected("CleanShutdown") =>
        connState = Disconnected("CleanShutdown") \/ Holds(requests, Disconnect)
  <2>1. CASE PollRequest
    BY <1>2, <2>1, HoldsHead DEF PollRequest, Break, Holds
  <2>2. CASE PollDisconnect \/ PollErr
    BY <2>2 DEF PollDisconnect, PollErr, Break, Disconnected, Reconnecting
  <2>3. CASE Resubscribed
    BY <2>3 DEF Resubscribed, Connected, Disconnected
  <2>4. ASSUME NEW b \in BOOLEAN, PollConnAck(b)
        PROVE  connState' = connState \/ connState' # Disconnected("CleanShutdown")
    <3>1. connState' = Connected(TRUE) \/ connState' = connState
      BY <2>4 DEF PollConnAck
    <3> QED BY <3>1 DEF Connected, Disconnected
  <2>5. CASE UNCHANGED connState
    BY <2>5
  <2> QED
    BY <2>1, <2>2, <2>3, <2>4, <2>5 DEF EventLoop, PollPublish, PollOther, Wake, Dispatch,
       RequestResubscribe, CloseStreams
<1> QED
  BY <1>0, <1>1, <1>3, <1>4, <1>5, <1>6 DEF ShutdownInv, TerminalBeforeStreams, Signalled

\* A step of the actor: it stops by itself, or because it was told to.
LEMMA ShutdownActor == ASSUME ShutdownInv, Actor PROVE ShutdownInv'
<1>0. CounterInv'
  BY CounterStep DEF ShutdownInv, Next
<1>1. UNCHANGED <<loop, connState, handle>>
  BY DEF Actor, HandleResubscribeAll, HandleSubscribe, HandleSend, HandleShutdown,
         HandleUnsubscribe, Request, HandlerDone, loopVars
<1>2. commands \in Seq(Commands) /\ requests \in Seq(Requests)
  BY DEF ShutdownInv, CounterInv, TypeInv, TypeOK, Commands, Requests
<1>3. \/ commands' = commands
      \/ commands' = <<>>
      \/ commands # <<>> /\ commands' = Tail(commands)
  BY DEF Actor, HandleResubscribeAll, HandleSubscribe, HandleSend, HandleShutdown,
         HandleUnsubscribe, Request, HandlerDone
<1>4. Holds(commands, Shutdown)' => Holds(commands, Shutdown)
  <2>1. CASE commands' = commands
    BY <2>1 DEF Holds
  <2>2. CASE commands' = <<>>
    BY <2>2, HoldsEmpty DEF Holds
  <2>3. CASE commands # <<>> /\ commands' = Tail(commands)
    BY <1>2, <2>3, HoldsTail DEF Holds
  <2> QED BY <1>3, <2>1, <2>2, <2>3
<1>5. Holds(requests, Disconnect)' => Holds(requests, Disconnect)
  <2>1. ASSUME NEW p \in Patterns, Request(p)
        PROVE  Holds(requests, Disconnect)' => Holds(requests, Disconnect)
    <3>1. \/ requests' = requests
          \/ \E r \in {Subscribe(p), Unsubscribe(p)} : requests' = Append(requests, r)
      BY <2>1 DEF Request
    <3>2. \A r \in {Subscribe(p), Unsubscribe(p)} : r \in Requests /\ r # Disconnect
      BY DEF Requests, Subscribe, Unsubscribe, Disconnect
    <3> QED BY <1>2, <3>1, <3>2, HoldsAppend, SMTT(30) DEF Holds
  <2>2. CASE UNCHANGED requests
    BY <2>2 DEF Holds
  <2> QED
    BY <2>1, <2>2 DEF Actor, HandleResubscribeAll, HandleSubscribe, HandleSend,
       HandleShutdown, HandleUnsubscribe, HandlerDone
<1>6. actor = "stopped" => actor' = "stopped"
  BY DEF Actor, HandleResubscribeAll, HandleSubscribe, HandleSend, HandleShutdown,
         HandleUnsubscribe, Request, HandlerDone
<1>7. actor' \in {"cleaning", "stopped"} =>
        \/ actor \in {"cleaning", "stopped"} \/ Signalled \/ Holds(commands, Shutdown)
  <2>1. CASE HandleShutdown
    BY <1>2, <2>1, HoldsHead DEF HandleShutdown
  <2>2. CASE HandlerDone
    BY <2>2 DEF HandlerDone
  <2>3. ASSUME NEW p \in Patterns, HandleUnsubscribe(p) \/ Request(p)
        PROVE  actor' = actor \/ actor' \in {"unsubscribing", "idle"}
    BY <2>3 DEF HandleUnsubscribe, Request
  <2>4. CASE HandleResubscribeAll \/ HandleSubscribe \/ HandleSend
    BY <2>4 DEF HandleResubscribeAll, HandleSubscribe, HandleSend, actorVars
  <2> QED BY <2>1, <2>2, <2>3, <2>4 DEF Actor
<1> QED
  BY <1>0, <1>1, <1>4, <1>5, <1>6, <1>7
     DEF ShutdownInv, CounterInv, TerminalBeforeStreams, Signalled

\* A step of the owner: it disconnects only once the actor stopped.
LEMMA ShutdownOwner == ASSUME ShutdownInv, Owner PROVE ShutdownInv'
<1>0. CounterInv'
  BY CounterStep DEF ShutdownInv, Next
<1>1. UNCHANGED <<loop, connState, actor>>
  BY DEF Owner, AppSubscribe, ShutdownStart, ShutdownCleaned, ShutdownDisconnect,
         ShutdownJoin, loopVars, actorVars
<1>2. commands \in Seq(Commands) /\ requests \in Seq(Requests)
  BY DEF ShutdownInv, CounterInv, TypeInv, TypeOK, Commands, Requests
<1>3. Holds(commands, Shutdown)' => Holds(commands, Shutdown)
  <2>1. ASSUME NEW p \in Patterns, AppSubscribe(p)
        PROVE  Holds(commands, Shutdown)' => Holds(commands, Shutdown)
    <3>1. commands' = Append(commands, Subscribe(p))
      BY <2>1 DEF AppSubscribe
    <3>2. Subscribe(p) \in Commands /\ Subscribe(p) # Shutdown
      BY DEF Commands, Subscribe, Shutdown
    <3> QED BY <1>2, <3>1, <3>2, HoldsAppend, SMTT(30) DEF Holds
  <2>2. CASE UNCHANGED commands
    BY <2>2 DEF Holds
  <2> QED
    BY <2>1, <2>2 DEF Owner, ShutdownStart, ShutdownCleaned, ShutdownDisconnect, ShutdownJoin
<1>4. Holds(requests, Disconnect)' => Holds(requests, Disconnect) \/ handle' = "joining"
  BY DEF Owner, AppSubscribe, ShutdownStart, ShutdownCleaned, ShutdownDisconnect,
         ShutdownJoin, Holds
<1>5. /\ handle' \in {"disconnecting", "joining", "done"} =>
            handle \in {"disconnecting", "joining", "done"} \/ actor = "stopped"
      /\ handle \in {"joining", "done"} => handle' \in {"joining", "done"}
      /\ Signalled => Signalled'
  BY DEF Owner, AppSubscribe, ShutdownStart, ShutdownCleaned, ShutdownDisconnect,
         ShutdownJoin, Signalled
<1> QED
  BY <1>0, <1>1, <1>3, <1>4, <1>5 DEF ShutdownInv, TerminalBeforeStreams

\* Every step keeps the order of the shutdown.
LEMMA ShutdownStep == ASSUME ShutdownInv, [Next]_vars PROVE ShutdownInv'
<1>1. CASE Finished \/ UNCHANGED vars
  <2>1. CounterInv'
    BY CounterStep DEF ShutdownInv
  <2>2. UNCHANGED <<loop, connState, actor, handle, commands, requests>>
    BY <1>1 DEF Finished, vars, loopVars, actorVars
  <2> QED BY <2>1, <2>2 DEF ShutdownInv, TerminalBeforeStreams, Signalled, Holds
<1> QED
  BY <1>1, ShutdownLoop, ShutdownActor, ShutdownOwner DEF Next

\* The terminal state is published before the streams close, and a clean
\* shutdown only by its owner, for channels of every size.
THEOREM TerminalBeforeStreamsHolds == Spec => []TerminalBeforeStreams
<1>1. ShutdownInv => TerminalBeforeStreams
  BY DEF ShutdownInv
<1> QED
  BY <1>1, ShutdownInit, ShutdownStep, PTL DEF Spec
-----------------------------------------------------------------------------
(* What the broker will hold *)

\* Covered, of any queue of requests and any broker.
About(q, p) == {i \in 1..Len(q) : q[i] \in {Subscribe(p), Unsubscribe(p)}}

Cov(q, b, p) ==
    IF About(q, p) = {} THEN p \in b
    ELSE \E i \in About(q, p) : q[i] = Subscribe(p) /\ \A j \in About(q, p) : j <= i

\* What Covered says of the current requests and broker.
LEMMA CoveredIsCov == ASSUME NEW p PROVE Covered(p) <=> Cov(requests, broker, p)
  BY DEF Covered, Cov, About

\* Requests are told apart by what they ask for and of which pattern.
LEMMA RequestsDiffer ==
    ASSUME NEW p, NEW r
    PROVE  /\ Subscribe(p) # Unsubscribe(r)
           /\ Subscribe(p) = Subscribe(r) => p = r
           /\ Unsubscribe(p) = Unsubscribe(r) => p = r
           /\ Disconnect \notin {Subscribe(p), Unsubscribe(p)}
           /\ Subscribe(p).op = "subscribe" /\ Subscribe(p).pattern = p
           /\ Unsubscribe(p).op = "unsubscribe" /\ Unsubscribe(p).pattern = p
           /\ Disconnect.op = "disconnect"
  BY DEF Subscribe, Unsubscribe, Disconnect

\* A SUBSCRIBE that is queued covers its pattern.
LEMMA CovSubscribe ==
    ASSUME NEW q \in Seq(Requests), NEW b, NEW p \in Patterns
    PROVE  Cov(Append(q, Subscribe(p)), b, p)
<1> DEFINE s == Append(q, Subscribe(p))
<1>1. Len(s) = Len(q) + 1 /\ s[Len(s)] = Subscribe(p) /\ Len(q) \in Nat
  OBVIOUS
<1>2. Len(s) \in About(s, p) /\ \A j \in About(s, p) : j <= Len(s)
  BY <1>1 DEF About
<1> QED
  BY <1>1, <1>2 DEF Cov

\* A request about something else changes nothing for p.
LEMMA CovOther ==
    ASSUME NEW q \in Seq(Requests), NEW b, NEW p, NEW r \in Requests,
           r \notin {Subscribe(p), Unsubscribe(p)}, Cov(q, b, p)
    PROVE  Cov(Append(q, r), b, p)
<1>1. Len(Append(q, r)) = Len(q) + 1 /\ Len(q) \in Nat /\ Append(q, r)[Len(q) + 1] = r
      /\ \A i \in 1..Len(q) : Append(q, r)[i] = q[i]
  OBVIOUS
<1>2. About(Append(q, r), p) = About(q, p)
  BY <1>1 DEF About
<1>3. \A i \in About(q, p) : Append(q, r)[i] = q[i]
  BY <1>1 DEF About
<1> QED
  BY <1>2, <1>3 DEF Cov

\* What the broker holds after the oldest request was written.
Written(b, r) == IF r.op = "subscribe" THEN b \cup {r.pattern} ELSE b \ {r.pattern}

\* Writing the oldest request moves what it does from the queue to the broker.
LEMMA CovTail ==
    ASSUME NEW q \in Seq(Requests), q # <<>>, NEW b, NEW p \in Patterns, Cov(q, b, p),
           Head(q).op \in {"subscribe", "unsubscribe"}
    PROVE  Cov(Tail(q), Written(b, Head(q)), p)
<1> DEFINE t == Tail(q)
<1>1. /\ Len(q) \in Nat \ {0} /\ Len(t) = Len(q) - 1 /\ Head(q) = q[1]
      /\ \A i \in 1..Len(t) : t[i] = q[i + 1]
  OBVIOUS
<1>2. \A i \in 1..Len(t) : i \in About(t, p) <=> i + 1 \in About(q, p)
  BY <1>1 DEF About
<1>3. \A i \in About(q, p) : i # 1 => i - 1 \in About(t, p)
  <2> SUFFICES ASSUME NEW i \in About(q, p), i # 1 PROVE i - 1 \in About(t, p)
    OBVIOUS
  <2>1. i \in 1..Len(q) /\ i - 1 \in 1..Len(t) /\ t[i - 1] = q[i]
    BY <1>1 DEF About
  <2> QED BY <2>1 DEF About
<1>4. CASE About(t, p) # {}
  <2>1. PICK k \in About(t, p) : TRUE
    BY <1>4
  <2>2. k + 1 \in About(q, p) /\ k \in 1..Len(t)
    BY <1>2, <2>1 DEF About
  <2>3. PICK i \in About(q, p) : q[i] = Subscribe(p) /\ \A j \in About(q, p) : j <= i
    BY <2>2 DEF Cov
  <2>4. i \in 1..Len(q) /\ i # 1
    BY <2>2, <2>3, <1>1 DEF About
  <2>5. i - 1 \in About(t, p) /\ t[i - 1] = Subscribe(p)
    BY <1>1, <1>3, <2>3, <2>4
  <2>6. \A j \in About(t, p) : j <= i - 1
    BY <1>2, <2>3, <2>4 DEF About
  <2> QED BY <1>4, <2>5, <2>6 DEF Cov
<1>5. CASE About(t, p) = {}
  <2>1. About(q, p) \subseteq {1}
    BY <1>3, <1>5
  <2>2. CASE About(q, p) = {}
    <3>1. p \in b
      BY <2>2 DEF Cov
    <3>2. Head(q) \notin {Subscribe(p), Unsubscribe(p)}
      BY <1>1, <2>2 DEF About
    <3>3. PICK r \in Patterns : Head(q) \in {Subscribe(r), Unsubscribe(r)}
      <4>1. q[1] \in Requests
        BY <1>1
      <4> QED BY <1>1, <4>1, RequestsDiffer DEF Requests
    <3>4. Head(q).pattern # p
      BY <3>2, <3>3, RequestsDiffer
    <3> QED BY <1>5, <3>1, <3>4 DEF Cov, Written
  <2>3. CASE About(q, p) # {}
    <3>1. q[1] = Subscribe(p)
      BY <2>1, <2>3 DEF Cov
    <3> QED BY <1>1, <1>5, <3>1, RequestsDiffer DEF Cov, Written
  <2> QED BY <2>2, <2>3
<1> QED
  BY <1>4, <1>5
-----------------------------------------------------------------------------
(* Coverage through reconnects and lost sessions *)

\* p has its SUBSCRIBE, or the actor is about to send it.
Secured(p) == Cov(requests, broker, p) \/ (actor = "subscribing" /\ p \in todo)

\* The event loop has lost the session, and p's request is yet to come out of the
\* resubscription it asks for.
ToBeRestored(p) ==
    \/ loop = "resubscribing"
    \/ /\ loop = "awaiting"
       /\ Holds(commands, ResubscribeAll) \/ (actor = "resubscribing" /\ p \in todo)

\* At most one ResubscribeAll is under way: in the channel, in the actor's hands
\* or answered.
OneResubscription ==
    /\ Holds(commands, ResubscribeAll) => loop = "awaiting" /\ actor # "resubscribing" /\ ~answered
    /\ actor = "resubscribing" => loop = "awaiting" /\ ~answered
    /\ answered => loop = "awaiting"
    /\ \A i, j \in 1..Len(commands) :
            commands[i] = ResubscribeAll /\ commands[j] = ResubscribeAll => i = j

Handlers ==
    /\ actor \in {"idle", "stopped"} => todo = {}
    /\ actor \in {"unsubscribing", "stopped"} => routed = {}
    /\ actor = "stopped" => commands = <<>>

\* Connected is not what is published while the link is down or a session is
\* being restored.
Published ==
    /\ link = "down" => connState.is # "connected"
    /\ loop \in {"resubscribing", "awaiting"} => connState.is # "connected" /\ link = "up"

Restored ==
    loop \notin {"closing", "ended"} /\ actor # "cleaning" =>
        \A p \in routed : Secured(p) \/ ToBeRestored(p)

CoverInv ==
    /\ CounterInv
    /\ OneResubscription
    /\ Handlers
    /\ Published
    /\ Restored

\* The invariant is stronger than what Connected promises.
LEMMA CoverImplies == CoverInv => ConnectedMeansCovered
<1> SUFFICES ASSUME CoverInv, connState.is = "connected"
             PROVE  /\ link = "up"
                    /\ actor # "cleaning" =>
                        \A p \in routed : Covered(p) \/ (actor = "subscribing" /\ p \in todo)
  BY DEF ConnectedMeansCovered
<1>1. link = "up"
  BY DEF CoverInv, Published, CounterInv, TypeInv, TypeOK
<1>2. loop \notin {"closing", "ended", "resubscribing", "awaiting"}
  BY DEF CoverInv, Published, CounterInv
<1> QED
  BY <1>1, <1>2, CoveredIsCov DEF CoverInv, Restored, Secured, ToBeRestored

\* The first connection was accepted and nothing is routed yet.
LEMMA CoverInit == Init => CoverInv
<1> SUFFICES ASSUME Init PROVE CoverInv
  OBVIOUS
<1>1. CounterInv
  BY CounterInit
<1>2. ~Holds(commands, ResubscribeAll)
  BY HoldsEmpty DEF Init
<1>3. OneResubscription
  BY <1>2 DEF Init, OneResubscription
<1> QED
  BY <1>1, <1>3 DEF Init, CoverInv, Handlers, Published, Restored

\* The types the steps rely on.
LEMMA CoverTypes ==
    ASSUME CoverInv
    PROVE  /\ commands \in Seq(Commands) /\ requests \in Seq(Requests)
           /\ routed \subseteq Patterns /\ todo \subseteq Patterns
           /\ link \in {"up", "down"} /\ answered \in BOOLEAN
  BY DEF CoverInv, CounterInv, TypeInv, TypeOK, Commands, Requests

\* A command that is not ResubscribeAll joins the channel.
LEMMA OneSend ==
    ASSUME NEW q \in Seq(Commands), NEW c \in Commands, c # ResubscribeAll
    PROVE  /\ Holds(Append(q, c), ResubscribeAll) <=> Holds(q, ResubscribeAll)
           /\ (\A i, j \in 1..Len(q) : q[i] = ResubscribeAll /\ q[j] = ResubscribeAll => i = j)
              => \A i, j \in 1..Len(Append(q, c)) :
                    Append(q, c)[i] = ResubscribeAll /\ Append(q, c)[j] = ResubscribeAll => i = j
<1>1. Len(Append(q, c)) = Len(q) + 1 /\ Len(q) \in Nat /\ Append(q, c)[Len(q) + 1] = c
      /\ \A i \in 1..Len(q) : Append(q, c)[i] = q[i]
  OBVIOUS
<1> QED
  BY <1>1 DEF Holds

\* The oldest command leaves it.
LEMMA OneTake ==
    ASSUME NEW q \in Seq(Commands), q # <<>>,
           \A i, j \in 1..Len(q) : q[i] = ResubscribeAll /\ q[j] = ResubscribeAll => i = j
    PROVE  /\ \A i, j \in 1..Len(Tail(q)) :
                Tail(q)[i] = ResubscribeAll /\ Tail(q)[j] = ResubscribeAll => i = j
           /\ Holds(Tail(q), ResubscribeAll) => Holds(q, ResubscribeAll)
           /\ Head(q) = ResubscribeAll => ~Holds(Tail(q), ResubscribeAll)
           /\ Head(q) # ResubscribeAll /\ Holds(q, ResubscribeAll) => Holds(Tail(q), ResubscribeAll)
<1>1. /\ Len(q) \in Nat \ {0} /\ Len(Tail(q)) = Len(q) - 1 /\ Head(q) = q[1]
      /\ \A i \in 1..Len(Tail(q)) : Tail(q)[i] = q[i + 1] /\ i + 1 \in 1..Len(q)
  OBVIOUS
<1>2. \A i \in 1..Len(q) : i # 1 => i - 1 \in 1..Len(Tail(q)) /\ Tail(q)[i - 1] = q[i]
  BY <1>1
<1>3. Holds(Tail(q), ResubscribeAll) => Holds(q, ResubscribeAll)
  BY <1>1 DEF Holds
<1>4. Head(q) = ResubscribeAll => ~Holds(Tail(q), ResubscribeAll)
  <2> SUFFICES ASSUME Head(q) = ResubscribeAll, NEW i \in 1..Len(Tail(q)),
                      Tail(q)[i] = ResubscribeAll
               PROVE  FALSE
    BY DEF Holds
  <2>1. i + 1 \in 1..Len(q) /\ q[i + 1] = ResubscribeAll /\ 1 \in 1..Len(q)
        /\ q[1] = ResubscribeAll
    BY <1>1
  <2>2. i + 1 = 1
    BY <2>1
  <2> QED BY <2>2
<1>5. Head(q) # ResubscribeAll /\ Holds(q, ResubscribeAll) => Holds(Tail(q), ResubscribeAll)
  BY <1>1, <1>2 DEF Holds
<1>6. \A i, j \in 1..Len(Tail(q)) :
        Tail(q)[i] = ResubscribeAll /\ Tail(q)[j] = ResubscribeAll => i = j
  <2> SUFFICES ASSUME NEW i \in 1..Len(Tail(q)), NEW j \in 1..Len(Tail(q)),
                      Tail(q)[i] = ResubscribeAll, Tail(q)[j] = ResubscribeAll
               PROVE  i = j
    OBVIOUS
  <2>1. i + 1 = j + 1
    BY <1>1
  <2> QED BY <2>1
<1> QED
  BY <1>3, <1>4, <1>5, <1>6

\* The event loop.
LEMMA CoverLoop == ASSUME CoverInv, EventLoop PROVE CoverInv'
<1>0. CounterInv'
  BY CounterStep DEF CoverInv, Next
<1>t. /\ commands \in Seq(Commands) /\ requests \in Seq(Requests)
      /\ routed \subseteq Patterns /\ link \in {"up", "down"} /\ answered \in BOOLEAN
  BY CoverTypes
<1>s. Send \in Commands /\ Shutdown \in Commands
      /\ Send # ResubscribeAll /\ Shutdown # ResubscribeAll
  BY DEF Commands, Send, Shutdown, ResubscribeAll
<1> USE DEF CoverInv
<1>1. CASE PollRequest
  <2>1. UNCHANGED <<actorVars, commands>> /\ loop = "polling"
        /\ (loop' = "polling" \/ loop' = "closing")
    BY <1>1 DEF PollRequest, Break
  <2>2. OneResubscription' /\ Handlers'
    BY <2>1 DEF OneResubscription, Handlers, actorVars, Holds
  <2>3. Published'
    <3>1. \/ connState' = connState /\ link' = link
          \/ connState' = Disconnected("CleanShutdown")
      BY <1>1 DEF PollRequest, Break
    <3> QED BY <2>1, <3>1 DEF Published, Disconnected
  <2>4. Restored'
    <3> SUFFICES ASSUME loop' = "polling", actor # "cleaning", NEW p \in routed
                 PROVE  Secured(p)'
      BY <2>1 DEF Restored, actorVars
    <3>1. requests # <<>> /\ requests' = Tail(requests)
          /\ Head(requests).op \in {"subscribe", "unsubscribe"}
          /\ broker' = Written(broker, Head(requests))
      BY <1>1 DEF PollRequest, Break, Written
    <3>2. Secured(p)
      BY <2>1 DEF Restored, ToBeRestored
    <3>3. Cov(requests, broker, p) => Cov(requests, broker, p)'
      BY <1>t, <3>1, CovTail
    <3> QED BY <2>1, <3>2, <3>3 DEF Secured, actorVars
  <2> QED BY <1>0, <2>2, <2>3, <2>4
<1>2. CASE PollPublish \/ PollOther \/ Wake
  <2>1. UNCHANGED <<connState, actorVars, commands, requests, link, broker>>
        /\ loop \in {"polling", "sleeping"} /\ loop' \in {"polling", "dispatching"}
    BY <1>2 DEF PollPublish, PollOther, Wake
  <2> QED BY <1>0, <2>1 DEF OneResubscription, Handlers, Published, Restored, Secured,
                ToBeRestored, actorVars, Holds
<1>3. CASE PollDisconnect \/ PollErr
  <2>1. UNCHANGED <<actorVars, commands, requests, broker>> /\ loop = "polling"
        /\ loop' \in {"closing", "sleeping"} /\ link' = "down"
    BY <1>3 DEF PollDisconnect, PollErr, Break
  <2>2. connState'.is # "connected"
    BY <1>3 DEF PollDisconnect, PollErr, Break, Disconnected, Reconnecting
  <2> QED BY <1>0, <2>1, <2>2 DEF OneResubscription, Handlers, Published, Restored, Secured,
                ToBeRestored, actorVars, Holds
<1>4. ASSUME NEW b \in BOOLEAN, PollConnAck(b) PROVE CoverInv'
  <2>1. /\ UNCHANGED <<actorVars, commands, requests>> /\ loop = "polling"
        /\ link = "down" /\ link' = "up"
        /\ \/ loop' = "polling" /\ broker' = broker
           \/ loop' = "resubscribing" /\ connState' = connState
    BY <1>4 DEF PollConnAck
  <2> QED BY <1>0, <2>1 DEF OneResubscription, Handlers, Published, Restored, Secured,
                ToBeRestored, actorVars, Holds
<1>5. CASE Dispatch
  <2>1. UNCHANGED <<connState, actorVars, requests, link, broker>>
        /\ loop = "dispatching" /\ loop' = "polling"
    BY <1>5 DEF Dispatch
  <2>2. commands' = commands \/ (actor # "stopped" /\ commands' = Append(commands, Send))
    BY <1>5 DEF Dispatch
  <2>3. OneResubscription'
    BY <1>t, <1>s, <2>1, <2>2, OneSend, ZenonT(40) DEF OneResubscription, actorVars, Holds
  <2>4. Restored' /\ Published' /\ Handlers'
    BY <2>1, <2>2 DEF Handlers, Published, Restored, Secured, ToBeRestored, actorVars
  <2> QED BY <1>0, <2>3, <2>4
<1>6. CASE RequestResubscribe
  <2>1. UNCHANGED <<connState, actorVars, requests, link, broker>>
        /\ loop = "resubscribing" /\ loop' = "awaiting" /\ actor # "stopped"
        /\ commands' = Append(commands, ResubscribeAll)
    BY <1>6 DEF RequestResubscribe
  <2>2. ~Holds(commands, ResubscribeAll) /\ actor # "resubscribing" /\ ~answered
    BY <2>1 DEF OneResubscription
  <2>3. /\ Len(commands) \in Nat /\ Len(commands') = Len(commands) + 1
        /\ commands'[Len(commands) + 1] = ResubscribeAll
        /\ \A i \in 1..Len(commands) : commands'[i] = commands[i]
    BY <1>t, <2>1
  <2>4. \A i, j \in 1..Len(commands') :
            commands'[i] = ResubscribeAll /\ commands'[j] = ResubscribeAll => i = j
    BY <2>2, <2>3 DEF Holds
  <2>5. Holds(commands, ResubscribeAll)'
    BY <2>3 DEF Holds
  <2>6. OneResubscription'
    BY <2>1, <2>2, <2>4 DEF OneResubscription, actorVars
  <2>7. Restored' /\ Published' /\ Handlers'
    BY <2>1, <2>5 DEF Handlers, Published, Restored, Secured, ToBeRestored, actorVars
  <2> QED BY <1>0, <2>6, <2>7
<1>7. CASE Resubscribed
  <2>1. UNCHANGED <<actor, routed, todo, commands, requests, link, broker>>
        /\ loop \in {"resubscribing", "awaiting"} /\ loop' = "polling" /\ answered' = FALSE
        /\ (actor = "stopped" \/ (loop = "awaiting" /\ answered))
    BY <1>7 DEF Resubscribed
  <2>2. ~Holds(commands, ResubscribeAll) /\ actor # "resubscribing"
    <3>1. CASE actor = "stopped"
      BY <3>1, HoldsEmpty DEF Handlers
    <3>2. CASE answered
      BY <3>2 DEF OneResubscription
    <3> QED BY <2>1, <3>1, <3>2
  <2>3. OneResubscription'
    BY <2>1, <2>2 DEF OneResubscription, Holds
  <2>4. Handlers'
    BY <2>1 DEF Handlers
  <2>5. Published'
    BY <2>1 DEF Published
  <2>6. Restored'
    BY <2>1, <2>2 DEF Handlers, Restored, Secured, ToBeRestored
  <2> QED BY <1>0, <2>3, <2>4, <2>5, <2>6
<1>8. CASE CloseStreams
  <2>1. UNCHANGED <<connState, actorVars, link>> /\ loop = "closing" /\ loop' = "ended"
    BY <1>8 DEF CloseStreams
  <2>2. commands' = commands \/ (actor # "stopped" /\ commands' = Append(commands, Shutdown))
    BY <1>8 DEF CloseStreams
  <2>3. OneResubscription'
    BY <1>t, <1>s, <2>1, <2>2, OneSend, ZenonT(40) DEF OneResubscription, actorVars, Holds
  <2>4. Restored' /\ Published' /\ Handlers'
    BY <2>1, <2>2 DEF Handlers, Published, Restored, actorVars
  <2> QED BY <1>0, <2>3, <2>4
<1> QED
  BY <1>1, <1>2, <1>3, <1>4, <1>5, <1>6, <1>7, <1>8 DEF EventLoop

\* The actor.
LEMMA CoverActor == ASSUME CoverInv, Actor PROVE CoverInv'
<1>0. CounterInv'
  BY CounterStep DEF CoverInv, Next
<1>t. /\ commands \in Seq(Commands) /\ requests \in Seq(Requests)
      /\ routed \subseteq Patterns /\ todo \subseteq Patterns
  BY CoverTypes
<1>l. UNCHANGED <<loop, connState, link, broker>>
  BY DEF Actor, HandleResubscribeAll, HandleSubscribe, HandleSend, HandleShutdown,
         HandleUnsubscribe, Request, HandlerDone, loopVars
<1>p. Published'
  BY <1>l DEF CoverInv, Published
<1> USE DEF CoverInv
<1>1. CASE HandleResubscribeAll
  <2>1. /\ actor = "idle" /\ commands # <<>> /\ Head(commands) = ResubscribeAll
        /\ commands' = Tail(commands) /\ actor' = "resubscribing" /\ todo' = routed
        /\ UNCHANGED <<routed, answered, requests>>
    BY <1>1 DEF HandleResubscribeAll
  <2>2. Holds(commands, ResubscribeAll) /\ ~Holds(commands, ResubscribeAll)'
    BY <1>t, <2>1, HoldsHead, OneTake DEF OneResubscription
  <2>3. OneResubscription'
    BY <1>l, <1>t, <2>1, <2>2, OneTake DEF OneResubscription
  <2>4. Restored' /\ Handlers'
    BY <1>l, <2>1 DEF Handlers, Restored, Secured, ToBeRestored
  <2> QED BY <1>0, <1>p, <2>3, <2>4
<1>2. CASE HandleSubscribe
  <2>1. /\ actor = "idle" /\ commands # <<>> /\ Head(commands) # ResubscribeAll
        /\ commands' = Tail(commands) /\ UNCHANGED <<answered, requests>>
    BY <1>2 DEF HandleSubscribe, ResubscribeAll
  <2>2. Holds(commands, ResubscribeAll) <=> Holds(commands, ResubscribeAll)'
    BY <1>t, <2>1, OneTake DEF OneResubscription
  <2>3. PICK p \in {Head(commands).pattern} :
            /\ routed' = routed \cup {p} /\ todo' = {p} \ routed
            /\ actor' = IF p \in routed THEN "idle" ELSE "subscribing"
    BY <1>2 DEF HandleSubscribe
  <2>4. OneResubscription'
    BY <1>l, <1>t, <2>1, <2>2, <2>3, OneTake DEF OneResubscription
  <2>5. Handlers'
    BY <2>1, <2>3 DEF Handlers
  <2>6. Restored'
    BY <1>l, <2>1, <2>2, <2>3 DEF Restored, Secured, ToBeRestored
  <2> QED BY <1>0, <1>p, <2>4, <2>5, <2>6
<1>3. CASE HandleSend
  <2>1. /\ actor = "idle" /\ commands # <<>> /\ Head(commands) # ResubscribeAll
        /\ commands' = Tail(commands) /\ UNCHANGED <<actorVars, requests>>
    BY <1>3 DEF HandleSend, Send, ResubscribeAll
  <2>2. Holds(commands, ResubscribeAll) <=> Holds(commands, ResubscribeAll)'
    BY <1>t, <2>1, OneTake DEF OneResubscription
  <2>4. OneResubscription'
    BY <1>l, <1>t, <2>1, <2>2, OneTake DEF OneResubscription, actorVars
  <2>5. Handlers' /\ Restored'
    BY <1>l, <2>1, <2>2 DEF Handlers, Restored, Secured, ToBeRestored, actorVars
  <2> QED BY <1>0, <1>p, <2>4, <2>5
<1>4. CASE HandleShutdown
  <2>1. /\ actor = "idle" /\ actor' = "cleaning" /\ UNCHANGED <<routed, answered, requests>>
        /\ (commands' = commands \/
            (commands # <<>> /\ Head(commands) = Shutdown /\ commands' = Tail(commands)))
    BY <1>4 DEF HandleShutdown
  <2>2. Shutdown # ResubscribeAll
    BY DEF Shutdown, ResubscribeAll
  <2>3. Holds(commands, ResubscribeAll)' => Holds(commands, ResubscribeAll)
    BY <1>t, <2>1, <2>2, OneTake DEF OneResubscription, Holds
  <2>4. OneResubscription'
    <3>1. \A i, j \in 1..Len(commands') :
            commands'[i] = ResubscribeAll /\ commands'[j] = ResubscribeAll => i = j
      BY <1>t, <2>1, OneTake DEF OneResubscription
    <3> QED BY <1>l, <2>1, <2>3, <3>1 DEF OneResubscription
  <2>5. Handlers' /\ Restored'
    BY <2>1 DEF Handlers, Restored
  <2> QED BY <1>0, <1>p, <2>4, <2>5
<1>5. ASSUME NEW p \in Patterns, HandleUnsubscribe(p) PROVE CoverInv'
  <2>1. /\ actor = "idle" /\ routed' = routed \ {p} /\ UNCHANGED <<answered, commands, requests>>
        /\ actor' = IF routed' = {} THEN "unsubscribing" ELSE "idle"
        /\ todo' = IF routed' = {} THEN {p} ELSE {}
    BY <1>5 DEF HandleUnsubscribe
  <2>2. OneResubscription'
    BY <1>l, <2>1 DEF OneResubscription, Holds
  <2>3. Handlers' /\ Restored'
    BY <1>l, <2>1 DEF Handlers, Restored, Secured, ToBeRestored, Holds
  <2> QED BY <1>0, <1>p, <2>2, <2>3
<1>6. ASSUME NEW p \in Patterns, Request(p) PROVE CoverInv'
  <2>1. /\ p \in todo /\ todo' = todo \ {p} /\ UNCHANGED <<actor, answered, commands>>
        /\ routed' \subseteq routed
        /\ loop = "ended" \/ routed' = routed
    BY <1>6 DEF Request, LoopGone
  <2>2. OneResubscription'
    BY <1>l, <2>1 DEF OneResubscription, Holds
  <2>3. Handlers'
    BY <2>1 DEF Handlers
  <2>4. Restored'
    <3> SUFFICES ASSUME loop \notin {"closing", "ended"}, actor # "cleaning", NEW q \in routed
                 PROVE  Secured(q)' \/ ToBeRestored(q)'
      BY <1>l, <2>1 DEF Restored
    <3>1. actor \in {"subscribing", "resubscribing"}
      BY <2>1 DEF Handlers, CounterInv, TypeInv, TypeOK
    <3>2. requests' = Append(requests, Subscribe(p))
      BY <1>6, <3>1 DEF Request, LoopGone
    <3>3. q \in Patterns /\ Subscribe(p) \in Requests
      BY <1>t DEF Requests
    <3>4. q = p => Cov(requests, broker, q)'
      BY <1>l, <1>t, <3>2, CovSubscribe
    <3>5. q # p /\ Cov(requests, broker, q) => Cov(requests, broker, q)'
      BY <1>l, <1>t, <3>2, <3>3, CovOther, RequestsDiffer
    <3>6. Secured(q) \/ ToBeRestored(q)
      BY <2>1 DEF Restored
    <3> QED BY <1>l, <2>1, <3>4, <3>5, <3>6 DEF Secured, ToBeRestored, Holds
  <2> QED BY <1>0, <1>p, <2>2, <2>3, <2>4
<1>7. CASE HandlerDone
  <2>1. /\ actor \notin {"idle", "stopped"} /\ todo = {} /\ UNCHANGED <<todo, requests>>
        /\ \/ actor = "cleaning" /\ actor' = "stopped" /\ routed' = {} /\ commands' = <<>>
           \/ actor # "cleaning" /\ actor' = "idle" /\ UNCHANGED <<routed, commands>>
    BY <1>7 DEF HandlerDone
  <2>2. answered' <=> (answered \/ actor = "resubscribing")
    BY <1>7, Zenon DEF HandlerDone
  <2>3. Holds(commands, ResubscribeAll)' => Holds(commands, ResubscribeAll)
    BY <2>1, HoldsEmpty DEF Holds
  <2>4. OneResubscription'
    <3>1. \A i, j \in 1..Len(commands') :
            commands'[i] = ResubscribeAll /\ commands'[j] = ResubscribeAll => i = j
      BY <2>1 DEF OneResubscription
    <3> QED BY <1>l, <2>1, <2>2, <2>3, <3>1 DEF OneResubscription
  <2>5. Handlers'
    BY <2>1 DEF Handlers
  <2>6. Restored'
    <3> SUFFICES ASSUME loop \notin {"closing", "ended"}, actor # "cleaning", NEW q \in routed
                 PROVE  Secured(q)' \/ ToBeRestored(q)'
      BY <1>l, <2>1 DEF Restored
    <3>1. Secured(q) \/ ToBeRestored(q)
      BY DEF Restored
    <3>2. commands' = commands
      BY <2>1
    <3> QED BY <1>l, <2>1, <3>1, <3>2 DEF Secured, ToBeRestored, OneResubscription, Holds
  <2> QED BY <1>0, <1>p, <2>4, <2>5, <2>6
<1> QED
  BY <1>1, <1>2, <1>3, <1>4, <1>5, <1>6, <1>7 DEF Actor

\* The owner of the handle, and the application.
LEMMA CoverOwner == ASSUME CoverInv, Owner PROVE CoverInv'
<1>0. CounterInv'
  BY CounterStep DEF CoverInv, Next
<1>t. commands \in Seq(Commands) /\ requests \in Seq(Requests) /\ routed \subseteq Patterns
  BY CoverTypes
<1>l. UNCHANGED <<loop, connState, link, broker, actorVars>>
  BY DEF Owner, AppSubscribe, ShutdownStart, ShutdownCleaned, ShutdownDisconnect,
         ShutdownJoin, loopVars
<1>1. Published'
  BY <1>l DEF CoverInv, Published
<1>2. \/ commands' = commands
      \/ actor # "stopped" /\ \E c \in Commands \ {ResubscribeAll} : commands' = Append(commands, c)
  <2>1. \A p \in Patterns : Subscribe(p) \in Commands \ {ResubscribeAll}
    BY DEF Commands, Subscribe, ResubscribeAll
  <2> QED BY <2>1 DEF Owner, AppSubscribe, ShutdownStart, ShutdownCleaned,
                ShutdownDisconnect, ShutdownJoin
<1>3. requests' = requests \/ requests' = Append(requests, Disconnect)
  BY DEF Owner, AppSubscribe, ShutdownStart, ShutdownCleaned, ShutdownDisconnect, ShutdownJoin
<1>4. Holds(commands, ResubscribeAll)' <=> Holds(commands, ResubscribeAll)
  BY <1>t, <1>2, OneSend DEF Holds
<1>5. OneResubscription'
  BY <1>l, <1>t, <1>2, <1>4, OneSend DEF CoverInv, OneResubscription, actorVars
<1>6. Handlers'
  BY <1>l, <1>2 DEF CoverInv, Handlers, actorVars
<1>7. \A p \in routed : Cov(requests, broker, p) => Cov(requests, broker, p)'
  <2>1. Disconnect \in Requests
    BY DEF Requests
  <2> SUFFICES ASSUME NEW p \in routed, Cov(requests, broker, p)
               PROVE  Cov(requests, broker, p)'
    OBVIOUS
  <2>2. p \in Patterns
    BY <1>t
  <2>3. Disconnect \notin {Subscribe(p), Unsubscribe(p)}
    BY <2>2, RequestsDiffer
  <2>4. Cov(Append(requests, Disconnect), broker, p)
    BY <1>t, <2>1, <2>2, <2>3, CovOther
  <2>5. broker' = broker
    BY <1>l
  <2>6. CASE requests' = requests
    BY <2>5, <2>6 DEF Cov, About
  <2>7. CASE requests' = Append(requests, Disconnect)
    BY <2>4, <2>5, <2>7 DEF Cov, About
  <2> QED BY <1>3, <2>6, <2>7
<1>8. Restored'
  BY <1>l, <1>4, <1>7 DEF CoverInv, Restored, Secured, ToBeRestored, actorVars
<1> QED
  BY <1>0, <1>1, <1>5, <1>6, <1>8 DEF CoverInv

\* Every step keeps the promise.
LEMMA CoverStep == ASSUME CoverInv, [Next]_vars PROVE CoverInv'
<1>1. CASE Finished \/ UNCHANGED vars
  <2>1. CounterInv'
    BY CounterStep DEF CoverInv
  <2>2. UNCHANGED <<loop, connState, actor, routed, todo, answered, commands, requests,
                    link, broker>>
    BY <1>1 DEF Finished, vars, loopVars, actorVars
  <2>3. Holds(commands, ResubscribeAll)' <=> Holds(commands, ResubscribeAll)
    BY <2>2 DEF Holds
  <2>5. OneResubscription'
    BY <2>2, <2>3 DEF CoverInv, OneResubscription
  <2>6. Handlers'
    BY <2>2 DEF CoverInv, Handlers
  <2>4. Published' /\ Restored'
    BY <2>2, <2>3 DEF CoverInv, Published, Restored, Secured, ToBeRestored
  <2> QED BY <2>1, <2>4, <2>5, <2>6 DEF CoverInv
<1> QED
  BY <1>1, CoverLoop, CoverActor, CoverOwner DEF Next

\* What Connected promises, for every number of patterns and every capacity of
\* the two channels: the blocked states are among them.
THEOREM ConnectedMeansCoveredHolds == Spec => []ConnectedMeansCovered
  BY CoverInit, CoverStep, CoverImplies, PTL DEF Spec
=============================================================================
