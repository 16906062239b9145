-------------------------- MODULE ConnectionOptions --------------------------
(***************************************************************************)
(* What an application asks of a connection, and what the backend is given *)
(* for it: pure conversions.                                               *)
(*   core/src/client/connection_options.rs   from_url, to_backend          *)
(*   core/src/client/error.rs                the broker's reason codes     *)
(*   mqtt-topic-engine/src/qos.rs            levels of service             *)
(*                                                                         *)
(* An optional value is a sequence of none or one.  A URL is what the url  *)
(* crate makes of it; a parameter's value is what parse() makes of it.     *)
(***************************************************************************)
EXTENDS Naturals, Sequences, SequencesExt

CONSTANTS
    KeepAliveLimit,  \* u16::MAX, in seconds
    ExpiryLimit      \* u32::MAX, in seconds

ASSUME LimitsAssumption == KeepAliveLimit \in Nat /\ ExpiryLimit \in Nat

Ports == 0..65535

\* frac: there is a fraction of a second.
Duration(secs, frac) == [secs |-> secs, frac |-> frac]

Clean           == [is |-> "clean"]
Resume          == [is |-> "resume"]
ResumeFor(time) == [is |-> "resumeFor", time |-> time]

Failed(kind) == [ok |-> FALSE, error |-> kind]
Made(value)  == [ok |-> TRUE, value |-> value]

\* The protocol of the backend that is compiled in; v4 wins over v5.
Protocol(features) == IF "v4" \in features THEN "V4" ELSE "V5"

New(id, host, port, features) ==
    [client_id     |-> id,
     host          |-> host,
     port          |-> port,
     keep_alive    |-> Duration(60, FALSE),
     credentials   |-> <<>>,
     session       |-> Clean,
     protocol      |-> Protocol(features),
     transport     |-> [is |-> "tcp"],
     websocket_url |-> <<>>,
     last_will     |-> <<>>]

-----------------------------------------------------------------------------
(* from_url *)

Websocket(transport) == transport.is \in {"ws", "wss"}
Encrypted(transport) == transport.is \in {"tls", "wss"}

TransportOf(scheme) ==
    CASE scheme \in {"mqtt", "tcp"}  -> [is |-> "tcp"]
      [] scheme \in {"mqtts", "ssl"} -> [is |-> "tls", tls |-> "default"]
      [] scheme = "ws"               -> [is |-> "ws"]
      [] scheme = "wss"              -> [is |-> "wss", tls |-> "default"]

Schemes == {"mqtt", "tcp", "mqtts", "ssl", "ws", "wss"}

DefaultPort(scheme) == CASE TransportOf(scheme).is = "tcp" -> 1883
                         [] TransportOf(scheme).is = "tls" -> 8883
                         [] Websocket(TransportOf(scheme)) -> 8000

Moved == {"inflight_num", "request_channel_capacity_num", "max_request_batch_num",
          "pending_throttle_usecs", "max_incoming_packet_size_bytes",
          "max_outgoing_packet_size_bytes"}

\* Some of the fields are assigned.
Updated(o, e) == [f \in DOMAIN o |-> IF f \in DOMAIN e THEN e[f] ELSE o[f]]

\* The fields a query parameter can set.
QueryFields == {"client_id", "keep_alive", "session", "protocol"}

\* A query parameter is [key, parsed, value]: whether parse() succeeds, and the
\* options it then sets.
ParamErrors(q) ==
    CASE q.key = "client_id"                                        -> {}
      [] q.key \in {"keep_alive_secs", "clean_session"} /\ ~q.parsed -> {"InvalidParam"}
      [] q.key = "protocol" /\ ~q.parsed                            -> {"UnsupportedProtocol"}
      [] q.key \in {"keep_alive_secs", "clean_session", "protocol"} /\ q.parsed -> {}
      [] q.key = "conn_timeout_secs"                                -> {"InvalidParam"}
      [] q.key \in Moved                                            -> {"UnsupportedParam"}
      [] OTHER                                                      -> {"UnknownParam"}

\* Of two parameters that set a field the later counts.
Queried(o, query) ==
    [f \in DOMAIN o |->
        LET setting == {i \in DOMAIN query : f \in DOMAIN query[i].value}
        IN  IF setting = {} THEN o[f] ELSE query[Max(setting)].value[f]]

\* The first thing wrong is what is reported, a missing client_id last.  A
\* password without a user name is dropped.  A websocket URL is kept as it is.
FromUrl(u, features) ==
    LET bad   == {i \in DOMAIN u.query : ParamErrors(u.query[i]) # {}}
        plain == [New("", u.host,
                      IF u.port = <<>> THEN DefaultPort(u.scheme) ELSE u.port[1], features)
            EXCEPT !.credentials   = IF u.user = "" THEN <<>>
                                     ELSE <<[username |-> u.user, password |-> u.password]>>,
                   !.transport     = TransportOf(u.scheme),
                   !.websocket_url = IF Websocket(TransportOf(u.scheme)) THEN <<u>> ELSE <<>>]
    IN  IF ~u.parses THEN Failed("Invalid")
        ELSE IF u.scheme \notin Schemes THEN Failed("Scheme")
        ELSE IF u.host = "" THEN Failed("MissingHost")
        ELSE IF bad # {} THEN Failed(CHOOSE e \in ParamErrors(u.query[Min(bad)]) : TRUE)
        ELSE IF \A i \in DOMAIN u.query : u.query[i].key # "client_id"
             THEN Failed("MissingClientId")
        ELSE Made(Queried(plain, u.query))

-----------------------------------------------------------------------------
(* to_backend *)

\* Zero disables keep-alive; a fraction is refused, below a second or above.
KeepAliveOk(o) == ~o.keep_alive.frac /\ o.keep_alive.secs <= KeepAliveLimit

\* Faulty form: an empty client id is left to the backend.
SessionOk_AnyClient(o) ==
    o.session.is = "resumeFor" =>
        /\ o.protocol = "V5"
        /\ ~o.session.time.frac
        /\ o.session.time.secs <= ExpiryLimit

\* Only MQTT 5 has an expiry; a session to come back to needs a client id.
SessionOk(o) ==
    /\ o.session # Clean => o.client_id # ""
    /\ o.session.is = "resumeFor" =>
            /\ o.protocol = "V5"
            /\ ~o.session.time.frac
            /\ o.session.time.secs <= ExpiryLimit

TransportOk(o, features) ==
    /\ Websocket(o.transport) => "websocket" \in features
    /\ Encrypted(o.transport) => "tls" \in features

\* Everything else is the error ConfigurationValue.
Valid(o, features) ==
    /\ o.protocol = Protocol(features)
    /\ KeepAliveOk(o)
    /\ SessionOk(o)
    /\ TransportOk(o, features)

\* Building the default TLS configuration reads the platform's certificates and
\* expects to succeed.
DefaultTls(o) == Encrypted(o.transport) /\ o.transport.tls = "default"

\* External: set_clean_session asserts that there is a client id.
BackendAsserts(o) == o.session # Clean => o.client_id # ""

\* Faulty form: the URL is kept for every transport.
BrokerOf_AnyTransport(o) ==
    IF o.websocket_url # <<>>
    THEN [is |-> "url", url |-> o.websocket_url[1]]
    ELSE [is |-> "address", host |-> o.host, port |-> o.port]

\* The URL the options were parsed from, for a websocket; otherwise, and for a
\* websocket without one, the address in the fields.
BrokerOf(o) ==
    IF Websocket(o.transport) /\ o.websocket_url # <<>>
    THEN [is |-> "url", url |-> o.websocket_url[1]]
    ELSE [is |-> "address", host |-> o.host, port |-> o.port]

\* Seconds the broker keeps the session: v4 has no number for it, <<>> is for ever.
ExpiryOf(o) == CASE o.session = Clean            -> <<0>>
                 [] o.session = Resume           -> <<>>
                 [] o.session.is = "resumeFor"   -> <<o.session.time.secs>>

ToBackend(o) ==
    [broker      |-> BrokerOf(o),
     client_id   |-> o.client_id,
     keep_alive  |-> o.keep_alive.secs,
     clean       |-> o.session = Clean,
     expiry      |-> ExpiryOf(o),
     transport   |-> o.transport,
     credentials |-> o.credentials,
     last_will   |-> o.last_will]

-----------------------------------------------------------------------------
(* Reason codes *)

\* Faulty form: two refusals become one.
ReasonCode_Merged(code) ==
    CASE code \in {"Success", "BadUserNamePassword"} -> code
      [] OTHER -> "NotAuthorized"

\* The backend names some codes twice: as in MQTT 3.1.1 and as in MQTT 5.
ReasonCode(code) ==
    CASE code = "RefusedProtocolVersion" -> "UnsupportedProtocolVersion"
      [] code = "BadClientId"            -> "ClientIdentifierNotValid"
      [] code = "ServiceUnavailable"     -> "ServerUnavailable"
      [] OTHER                           -> code
=============================================================================
