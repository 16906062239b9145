------------------------------- MODULE Connect -------------------------------
(***************************************************************************)
(* From a configuration to a connected client: the application fills in    *)
(* the options, connect_with_config validates them, waits for the CONNACK  *)
(* against its timeout, and spawns the two tasks of ClientSystem.          *)
(*   core/src/client/config.rs              configuration, last will       *)
(*   core/src/client/async_client.rs        connect_with_config            *)
(*   core/src/routing/subscription_manager.rs   spawn                      *)
(*   core/src/client/error.rs               what the caller is told        *)
(*                                                                         *)
(* External: the backend's event loop connects, and yields a CONNACK or an *)
(* error, or nothing in time.                                              *)
(***************************************************************************)
EXTENDS ConnectionOptions

CONSTANTS
    Builds,     \* sets of cargo features: one of v4, v5; websocket, tls
    Urls,       \* URLs: [parses, scheme, host, port, user, password, query]
    Edits,      \* assignments to public fields: [<field> |-> <value>]
    Wills,      \* messages for with_last_will, a payload none if it cannot be serialised
    Capacities, \* [cache, commands, unsubscribes]: the application's ClientSettings
    Codes,      \* the backend's CONNACK return codes but Success
    MaxEdits    \* bound

\* What url and parse() return: a port, or none, and a sequence of parameters,
\* each of which sets fields of its own.
ASSUME UrlsAssumption ==
    \A u \in Urls :
        /\ u.port = <<>> \/ \E p \in Ports : u.port = <<p>>
        /\ DOMAIN u.query \subseteq Nat
        /\ \A i \in DOMAIN u.query : DOMAIN u.query[i].value \subseteq QueryFields

\* The URL is not public, the last will is set by with_last_will.
ASSUME EditsAssumption ==
    \A e \in Edits : "websocket_url" \notin DOMAIN e

VARIABLES
    features,
    certificates,  \* the platform's certificates can be read
    options,
    settings,
    edited,        \* history: the fields assigned since the options were made
    stage,         \* "start", "configured", "handshake", "failed", "panicked", "connected"
    sent,          \* the options the backend was given, none or one
    eventLoop,     \* the backend's: "none", "running", "dropped"
    tasks,         \* spawned: "actor", "loop"
    answer,        \* history: how the handshake ended
    result         \* what the caller of connect is told

vars == <<features, certificates, options, settings, edited, stage, sent, eventLoop,
          tasks, answer, result>>
connection == <<sent, eventLoop, tasks, answer>>

Pending            == [is |-> "pending"]
Error(kind)        == [is |-> "error", kind |-> kind]
Rejected(code)     == [is |-> "error", kind |-> "BrokerRejected", code |-> code]
Connected(session) == [is |-> "connected", session |-> session]

DefaultSettings == [cache |-> 100, commands |-> 100, unsubscribes |-> 10]

Init ==
    /\ features \in Builds
    /\ certificates \in BOOLEAN
    /\ options = New("", "localhost", 1883, features)
    /\ settings = DefaultSettings
    /\ edited = {}
    /\ stage = "start"
    /\ sent = <<>>
    /\ eventLoop = "none"
    /\ tasks = {}
    /\ answer = Pending
    /\ result = Pending

-----------------------------------------------------------------------------
(* The configuration *)

\* MqttClientConfig::new and localhost.
NewConfig(host, port) ==
    /\ stage = "start"
    /\ stage' = "configured"
    /\ options' = New("c", host, port, features)
    /\ UNCHANGED <<features, certificates, settings, edited, connection, result>>

ConfigFromUrl(u) ==
    /\ stage = "start"
    /\ LET made == FromUrl(u, features)
       IN  IF made.ok
           THEN stage' = "configured" /\ options' = made.value /\ UNCHANGED result
           ELSE stage' = "failed" /\ result' = Error(made.error) /\ UNCHANGED options
    /\ UNCHANGED <<features, certificates, settings, edited, connection>>

Assign(e) ==
    /\ stage = "configured"
    /\ Cardinality(edited) < MaxEdits
    /\ options' = Updated(options, e)
    /\ edited' = edited \cup DOMAIN e
    /\ UNCHANGED <<features, certificates, settings, stage, connection, result>>

SetSettings(s) ==
    /\ stage = "configured"
    /\ settings' = s
    /\ UNCHANGED <<features, certificates, options, edited, stage, connection, result>>

\* The payload is serialised here; when that fails the configuration is as before.
WithLastWill(w) ==
    /\ stage = "configured"
    /\ w.payload # <<>>
    /\ options' = [options EXCEPT !.last_will = <<w>>]
    /\ UNCHANGED <<features, certificates, settings, edited, stage, connection, result>>

-----------------------------------------------------------------------------
(* connect_with_config *)

Fail(error) ==
    /\ stage' = "failed"
    /\ result' = error
    /\ eventLoop' = IF eventLoop = "running" THEN "dropped" ELSE eventLoop
    /\ UNCHANGED <<sent, tasks>>

\* Unwinding drops what the function owns.
Panic ==
    /\ stage' = "panicked"
    /\ eventLoop' = IF eventLoop = "running" THEN "dropped" ELSE eventLoop
    /\ UNCHANGED <<sent, tasks, result>>

\* Up to the handshake.  The builder may refuse, too.
ConnectWithConfig ==
    /\ stage = "configured"
    /\ \/ /\ settings.cache = 0 \/ ~Valid(options, features)
          /\ Fail(Error("ConfigurationValue"))
       \/ /\ settings.cache # 0 /\ Valid(options, features)
          /\ IF ~BackendAsserts(options) \/ (DefaultTls(options) /\ ~certificates)
             THEN Panic
             ELSE \/ Fail(Error("ConfigurationValue"))
                  \/ /\ stage' = "handshake"
                     /\ sent' = <<ToBackend(options)>>
                     /\ eventLoop' = "running"
                     /\ UNCHANGED <<tasks, result>>
    /\ UNCHANGED <<features, certificates, options, settings, edited, answer>>

\* tokio's bounded channels panic without room.
SpawnPanics == settings.commands = 0 \/ settings.unsubscribes = 0

\* Faulty form: the actor is spawned before its second channel is made.
Spawn_Early(session) ==
    IF SpawnPanics
    THEN /\ stage' = "panicked"
         /\ eventLoop' = "dropped"
         /\ tasks' = {"actor"}
         /\ UNCHANGED <<sent, result>>
    ELSE /\ stage' = "connected"
         /\ tasks' = {"actor", "loop"}
         /\ result' = Connected(session)
         /\ UNCHANGED <<sent, eventLoop>>

\* The actor with its channels, then the state, then the event-loop task.
Spawn(session) ==
    IF SpawnPanics THEN Panic
    ELSE /\ stage' = "connected"
         /\ tasks' = {"actor", "loop"}
         /\ result' = Connected(session)
         /\ UNCHANGED <<sent, eventLoop>>

\* establish_connection: the CONNACK.
PollConnAck(code, session) ==
    /\ stage = "handshake"
    /\ answer' = [is |-> "code", code |-> code]
    /\ IF code = "Success" THEN Spawn(session) ELSE Fail(Rejected(ReasonCode(code)))
    /\ UNCHANGED <<features, certificates, options, settings, edited>>

\* The backend reports the refusal as its error.
PollRefused(code) ==
    /\ stage = "handshake"
    /\ answer' = [is |-> "code", code |-> code]
    /\ Fail(Rejected(ReasonCode(code)))
    /\ UNCHANGED <<features, certificates, options, settings, edited>>

PollErr ==
    /\ stage = "handshake"
    /\ answer' = [is |-> "error"]
    /\ Fail(Error("Network"))
    /\ UNCHANGED <<features, certificates, options, settings, edited>>

\* The timeout drops the handshake and the event loop with it.
Timeout ==
    /\ stage = "handshake"
    /\ answer' = [is |-> "silence"]
    /\ Fail(Error("Timeout"))
    /\ UNCHANGED <<features, certificates, options, settings, edited>>

\* The application, before it connects.
Configure ==
    \/ NewConfig("localhost", 1883) \/ NewConfig("h", 1)
    \/ \E u \in Urls : ConfigFromUrl(u)
    \/ \E e \in Edits : Assign(e)
    \/ \E s \in Capacities : SetSettings(s)
    \/ \E w \in Wills : WithLastWill(w)

\* The broker: a session comes with an acceptance only.
Accepts == \E s \in BOOLEAN : PollConnAck("Success", s)
Refuses == \E c \in Codes : PollConnAck(c, FALSE) \/ PollRefused(c)

Next == Configure \/ ConnectWithConfig \/ Accepts \/ Refuses \/ PollErr \/ Timeout

Spec == Init /\ [][Next]_vars

-----------------------------------------------------------------------------
(* Properties *)

\* A connect that does not return Ok leaves nothing running, whichever step it
\* fails or panics at; one that does has both tasks and a live event loop.
NothingLeftBehind ==
    /\ stage \in {"failed", "panicked"} => tasks = {} /\ eventLoop # "running"
    /\ stage = "connected" <=> tasks = {"actor", "loop"}
    /\ stage = "connected" => eventLoop = "running"

\* No setting reaches an assertion of the backend.  What can still panic is a
\* channel capacity of zero, after the handshake, and an unreadable store of
\* certificates, before it.
PanicsExplained ==
    stage = "panicked" => \/ eventLoop = "dropped" /\ SpawnPanics
                          \/ eventLoop = "none" /\ DefaultTls(options) /\ ~certificates

\* The broker is addressed at the host and port in the options, or by the
\* websocket URL they were parsed from.  In the URL the host, the port and the
\* transport are those of the options, but for fields edited afterwards, which
\* change nothing, and for the port of a URL that names none: the options then
\* have the default, and the backend is not told, although
\* connection_options.rs:274-275 documents 8000 as the port of such a URL.
AddressedAsConfigured ==
    sent # <<>> =>
        LET b == sent[1].broker
        IN  IF b.is = "address" THEN b.host = options.host /\ b.port = options.port
            ELSE /\ Websocket(options.transport)
                 /\ b.url.host # options.host => "host" \in edited
                 /\ b.url.port \notin {<<>>, <<options.port>>} => "port" \in edited
                 /\ b.url.port = <<>> /\ options.port # DefaultPort(b.url.scheme)
                        => "port" \in edited
                 /\ TransportOf(b.url.scheme).is # options.transport.is => "transport" \in edited

Aliases == {{"RefusedProtocolVersion", "UnsupportedProtocolVersion"},
            {"BadClientId", "ClientIdentifierNotValid"},
            {"ServiceUnavailable", "ServerUnavailable"}}

\* A refusal has one representation: the caller learns the broker's reason
\* whichever way the backend reports it, no two reasons look alike, and no
\* other failure looks like one.
RefusalsAreTold ==
    /\ answer.is = "code" /\ answer.code # "Success" =>
            /\ result.kind = "BrokerRejected"
            /\ \A c \in Codes : ReasonCode(c) = result.code =>
                    c = answer.code \/ {c, answer.code} \in Aliases
    /\ result.is = "error" /\ result.kind = "BrokerRejected" => answer.is = "code"
    /\ result.is = "connected" => answer.is = "code" /\ answer.code = "Success"
=============================================================================
