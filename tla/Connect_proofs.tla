--------------------------- MODULE Connect_proofs ---------------------------
(* Theorems about Connect, for every set of URLs, edits, settings, wills and *)
(* return codes.                                                             *)
EXTENDS Connect, WellFoundedInduction, TLAPS

-----------------------------------------------------------------------------
(* What runs *)

\* At each stage, the resources connect_with_config holds.
Resources ==
    /\ stage \in {"start", "configured", "handshake", "failed", "panicked", "connected"}
    /\ stage \in {"start", "configured"} => eventLoop = "none" /\ tasks = {}
    /\ stage = "handshake" => eventLoop = "running" /\ tasks = {}
    /\ stage \in {"failed", "panicked"} => eventLoop \in {"none", "dropped"} /\ tasks = {}
    /\ stage = "connected" => eventLoop = "running" /\ tasks = {"actor", "loop"}

\* What validation lets through, the backend does not assert against.
LEMMA ValidSuffices ==
    ASSUME NEW o, NEW f, Valid(o, f)
    PROVE  BackendAsserts(o)
  BY DEF Valid, SessionOk, BackendAsserts

ConnectInv == Resources /\ PanicsExplained

\* Nothing runs at the start.
LEMMA ConnectInit == Init => ConnectInv
<1> SUFFICES ASSUME Init PROVE ConnectInv
  OBVIOUS
<1>1. stage = "start" /\ eventLoop = "none" /\ tasks = {}
  BY DEF Init
<1> QED
  BY <1>1 DEF ConnectInv, Resources, PanicsExplained

\* An action that fills in the configuration neither starts nor ends anything.
LEMMA ConfigStep ==
    ASSUME ConnectInv, stage \in {"start", "configured"}, UNCHANGED connection,
           stage' \in {"configured", "failed"}
    PROVE  ConnectInv'
  BY DEF ConnectInv, Resources, PanicsExplained, connection

\* Every step keeps what runs in accordance with the stage.
LEMMA ConnectStep == ASSUME ConnectInv, [Next]_vars PROVE ConnectInv'
<1>1. ASSUME NEW h, NEW p, NewConfig(h, p) PROVE ConnectInv'
  BY <1>1, ConfigStep DEF NewConfig
<1>2. ASSUME NEW u, ConfigFromUrl(u) PROVE ConnectInv'
  <2>1. stage' \in {"configured", "failed"}
    BY <1>2 DEF ConfigFromUrl
  <2> QED BY <1>2, <2>1, ConfigStep DEF ConfigFromUrl
<1>3. ASSUME NEW e, Assign(e) PROVE ConnectInv'
  BY <1>3, ConfigStep DEF Assign
<1>4. ASSUME NEW s, SetSettings(s) PROVE ConnectInv'
  BY <1>4, ConfigStep DEF SetSettings
<1>5. ASSUME NEW w, WithLastWill(w) PROVE ConnectInv'
  BY <1>5, ConfigStep DEF WithLastWill
<1>6. CASE ConnectWithConfig
  <2>1. UNCHANGED <<certificates, options, settings>> /\ stage = "configured"
    BY <1>6 DEF ConnectWithConfig
  <2>2. stage = "configured" => eventLoop = "none" /\ tasks = {}
    BY DEF ConnectInv, Resources
  <2>3. \/ \E e : Fail(e)
        \/ DefaultTls(options) /\ ~certificates /\ Panic
        \/ stage' = "handshake" /\ eventLoop' = "running" /\ UNCHANGED tasks
    <3>1. Valid(options, features) => BackendAsserts(options)
      BY ValidSuffices
    <3> QED BY <1>6, <3>1 DEF ConnectWithConfig
  <2>4. DefaultTls(options)' <=> DefaultTls(options)
    BY <2>1 DEF DefaultTls, Encrypted
  <2> QED BY <2>1, <2>2, <2>3, <2>4 DEF Fail, Panic, ConnectInv, Resources, PanicsExplained
<1>7. ASSUME NEW c, NEW s, PollConnAck(c, s) PROVE ConnectInv'
  <2>1. UNCHANGED settings /\ stage = "handshake"
    BY <1>7 DEF PollConnAck
  <2>2. SpawnPanics' <=> SpawnPanics
    BY <2>1 DEF SpawnPanics
  <2>3. eventLoop = "running" /\ tasks = {}
    BY <2>1 DEF ConnectInv, Resources
  <2>4. \/ \E e : Fail(e)
        \/ SpawnPanics /\ Panic
        \/ stage' = "connected" /\ tasks' = {"actor", "loop"} /\ UNCHANGED eventLoop
    BY <1>7 DEF PollConnAck, Spawn
  <2> QED BY <2>1, <2>2, <2>3, <2>4 DEF Fail, Panic, ConnectInv, Resources, PanicsExplained
<1>8. CASE PollErr \/ Timeout \/ \E c \in Codes : PollRefused(c)
  <2>1. stage = "handshake" /\ \E e : Fail(e)
    BY <1>8 DEF PollErr, Timeout, PollRefused
  <2> QED BY <2>1 DEF Fail, ConnectInv, Resources, PanicsExplained
<1>9. CASE UNCHANGED vars
  <2>1. UNCHANGED <<stage, eventLoop, tasks, certificates, options, settings>>
    BY <1>9 DEF vars
  <2>2. (DefaultTls(options)' <=> DefaultTls(options)) /\ (SpawnPanics' <=> SpawnPanics)
    BY <2>1 DEF DefaultTls, Encrypted, SpawnPanics
  <2> QED BY <2>1, <2>2 DEF ConnectInv, Resources, PanicsExplained
<1>10. CASE Configure
  BY <1>1, <1>2, <1>3, <1>4, <1>5, <1>10 DEF Configure
<1>11. CASE Accepts
  BY <1>7, <1>11 DEF Accepts
<1>12. CASE Refuses
  <2> SUFFICES ASSUME NEW c \in Codes, PollConnAck(c, FALSE) \/ PollRefused(c)
               PROVE  ConnectInv'
    BY <1>12 DEF Refuses
  <2> QED BY <1>7, <1>8
<1> QED
  BY <1>6, <1>8, <1>9, <1>10, <1>11, <1>12 DEF Next

\* A connect that does not return Ok leaves nothing running, for every
\* configuration.
THEOREM NothingLeftBehindHolds == Spec => []NothingLeftBehind
<1>1. ConnectInv => NothingLeftBehind
  BY DEF ConnectInv, Resources, NothingLeftBehind
<1> QED
  BY <1>1, ConnectInit, ConnectStep, PTL DEF Spec

\* No setting that passes validation reaches an assertion of the backend.
THEOREM PanicsExplainedHolds == Spec => []PanicsExplained
<1>1. ConnectInv => PanicsExplained
  BY DEF ConnectInv
<1> QED
  BY <1>1, ConnectInit, ConnectStep, PTL DEF Spec

-----------------------------------------------------------------------------
(* What from_url makes of a URL *)

\* The least element of a set of numbers, as Min chooses it.
LEMMA MinFacts ==
    ASSUME NEW T, T \subseteq Nat, T # {}
    PROVE  Min(T) \in T
<1>1. PICK k \in T : \A j \in T : <<j, k>> \notin OpToRel(<, Nat)
  BY WFMin, NatLessThanWellFounded, Zenon
<1>2. ASSUME NEW j \in T PROVE k <= j
  <2>1. j \in Nat /\ k \in Nat
    OBVIOUS
  <2>2. ~(j < k)
    BY <1>1, <2>1, Zenon DEF OpToRel
  <2> QED BY <2>1, <2>2
<1>3. \E x \in T : \A y \in T : x <= y
  BY <1>2
<1> QED
  BY <1>3 DEF Min

FieldNames == {"client_id", "host", "port", "keep_alive", "credentials", "session",
               "protocol", "transport", "websocket_url", "last_will"}

\* What is assumed of one URL.
LEMMA UrlFacts ==
    ASSUME NEW u \in Urls
    PROVE  /\ u.port = <<>> \/ \E p \in Ports : u.port = <<p>>
           /\ DOMAIN u.query \subseteq Nat
           /\ \A i \in DOMAIN u.query : DOMAIN u.query[i].value \subseteq QueryFields
<1> QED BY UrlsAssumption

\* Parameters leave the fields alone that they do not set.
LEMMA QueriedFacts ==
    ASSUME NEW o, NEW query, \A i \in DOMAIN query : DOMAIN query[i].value \subseteq QueryFields
    PROVE  /\ DOMAIN Queried(o, query) = DOMAIN o
           /\ \A f \in DOMAIN o : f \notin QueryFields => Queried(o, query)[f] = o[f]
<1>1. DOMAIN Queried(o, query) = DOMAIN o
  BY DEF Queried
<1>2. ASSUME NEW f \in DOMAIN o, f \notin QueryFields PROVE Queried(o, query)[f] = o[f]
  <2>1. {i \in DOMAIN query : f \in DOMAIN query[i].value} = {}
    BY <1>2
  <2> QED BY <2>1 DEF Queried
<1> QED BY <1>1, <1>2

\* The three ends of from_url: an error of its own, that of the first parameter
\* that has one, and the options.
LEMMA FromUrlCases ==
    ASSUME NEW u, NEW f
    PROVE  LET bad == {i \in DOMAIN u.query : ParamErrors(u.query[i]) # {}}
           IN  \/ \E e \in {"Invalid", "Scheme", "MissingHost", "MissingClientId"} :
                      FromUrl(u, f) = Failed(e)
               \/ /\ bad # {}
                  /\ FromUrl(u, f) = Failed(CHOOSE e \in ParamErrors(u.query[Min(bad)]) : TRUE)
               \/ \E v : FromUrl(u, f) = Made(v)
<1> QED BY Zenon DEF FromUrl

\* What the options made from a URL have in common with it.
LEMMA FromUrlMakes ==
    ASSUME NEW u \in Urls, NEW f, FromUrl(u, f).ok
    PROVE  LET o == FromUrl(u, f).value
           IN  /\ DOMAIN o = FieldNames
               /\ o.websocket_url \in {<<>>, <<u>>}
               /\ o.host = u.host
               /\ o.transport = TransportOf(u.scheme)
               /\ u.port \in {<<>>, <<o.port>>}
               /\ u.port = <<>> => o.port = DefaultPort(u.scheme)
<1> DEFINE port  == IF u.port = <<>> THEN DefaultPort(u.scheme) ELSE u.port[1]
           plain == [New("", u.host, port, f)
            EXCEPT !.credentials   = IF u.user = "" THEN <<>>
                                     ELSE <<[username |-> u.user, password |-> u.password]>>,
                   !.transport     = TransportOf(u.scheme),
                   !.websocket_url = IF Websocket(TransportOf(u.scheme)) THEN <<u>> ELSE <<>>]
           made  == Queried(plain, u.query)
<1>1. FromUrl(u, f).value = made
  <2>1. FromUrl(u, f) = Made(made)
    BY DEF FromUrl, Failed
  <2> QED BY <2>1 DEF Made
<1>2. /\ DOMAIN plain = FieldNames
      /\ plain.host = u.host /\ plain.port = port /\ plain.transport = TransportOf(u.scheme)
      /\ plain.websocket_url \in {<<>>, <<u>>}
  BY DEF New, FieldNames
<1> HIDE DEF plain
<1>3. /\ DOMAIN made = FieldNames
      /\ made.host = plain.host /\ made.port = plain.port
      /\ made.transport = plain.transport /\ made.websocket_url = plain.websocket_url
  <2>1. /\ DOMAIN made = DOMAIN plain
        /\ \A x \in DOMAIN plain : x \notin QueryFields => made[x] = plain[x]
    <3>1. \A i \in DOMAIN u.query : DOMAIN u.query[i].value \subseteq QueryFields
      BY UrlFacts
    <3> QED BY <3>1, QueriedFacts
  <2> HIDE DEF made
  <2> QED BY <1>2, <2>1 DEF FieldNames, QueryFields
<1> HIDE DEF made
<1>4. u.port \in {<<>>, <<port>>} /\ (u.port = <<>> => port = DefaultPort(u.scheme))
  <2>1. CASE u.port = <<>>
    BY <2>1
  <2>2. CASE u.port # <<>>
    <3>1. PICK p \in Ports : u.port = <<p>>
      BY <2>2, UrlFacts
    <3> QED BY <2>2, <3>1
  <2> QED BY <2>1, <2>2
<1> HIDE DEF port
<1> QED BY <1>1, <1>2, <1>3, <1>4

\* What is wrong with a URL never looks like a refusal of the broker's.
LEMMA FromUrlErrors ==
    ASSUME NEW u \in Urls, NEW f, ~FromUrl(u, f).ok
    PROVE  FromUrl(u, f).error # "BrokerRejected"
<1> DEFINE bad == {i \in DOMAIN u.query : ParamErrors(u.query[i]) # {}}
           first == CHOOSE e \in ParamErrors(u.query[Min(bad)]) : TRUE
<1>1. \A q : "BrokerRejected" \notin ParamErrors(q)
  BY DEF ParamErrors
<1>2. bad # {} => first # "BrokerRejected"
  <2> SUFFICES ASSUME bad # {} PROVE first # "BrokerRejected"
    OBVIOUS
  <2>1. bad \subseteq Nat
    <3>1. DOMAIN u.query \subseteq Nat
      BY UrlFacts
    <3> QED BY <3>1
  <2>2. Min(bad) \in bad
    <3> HIDE DEF bad
    <3> QED BY <2>1, MinFacts
  <2>3. first \in ParamErrors(u.query[Min(bad)])
    BY <2>2
  <2> QED BY <1>1, <2>3
<1>3. \/ \E e \in {"Invalid", "Scheme", "MissingHost", "MissingClientId"} :
             FromUrl(u, f) = Failed(e)
      \/ bad # {} /\ FromUrl(u, f) = Failed(first)
      \/ \E v : FromUrl(u, f) = Made(v)
  BY FromUrlCases
<1> HIDE DEF bad, first
<1>4. ~\E v : FromUrl(u, f) = Made(v)
  BY DEF Made
<1> QED BY <1>2, <1>3, <1>4 DEF Failed

-----------------------------------------------------------------------------
(* Where the broker is addressed *)

\* What of the options is as in the URL they keep: all that was not edited.
AsInUrl ==
    options.websocket_url # <<>> =>
        LET u == options.websocket_url[1]
        IN  /\ "host" \notin edited => u.host = options.host
            /\ "port" \notin edited => /\ u.port \in {<<>>, <<options.port>>}
                                       /\ u.port = <<>> => options.port = DefaultPort(u.scheme)
            /\ "transport" \notin edited => TransportOf(u.scheme).is = options.transport.is

AddressInv ==
    /\ stage \in {"start", "configured"} => sent = <<>>
    /\ sent \in {<<>>, <<ToBackend(options)>>}
    /\ DOMAIN options = FieldNames
    /\ AsInUrl

\* The invariant is that of the property: the options are not changed any more
\* once the backend has them.
LEMMA AddressInvSuffices == AddressInv => AddressedAsConfigured
<1> SUFFICES ASSUME AddressInv, sent # <<>> PROVE AddressedAsConfigured
  BY DEF AddressedAsConfigured
<1>1. sent[1].broker = BrokerOf(options)
  BY DEF AddressInv, ToBackend
<1>2. CASE Websocket(options.transport) /\ options.websocket_url # <<>>
  <2>1. BrokerOf(options) = [is |-> "url", url |-> options.websocket_url[1]]
    BY <1>2 DEF BrokerOf
  <2> QED BY <1>1, <1>2, <2>1 DEF AddressedAsConfigured, AddressInv, AsInUrl
<1>3. CASE ~(Websocket(options.transport) /\ options.websocket_url # <<>>)
  <2>1. BrokerOf(options) = [is |-> "address", host |-> options.host, port |-> options.port]
    BY <1>3 DEF BrokerOf
  <2> QED BY <1>1, <2>1 DEF AddressedAsConfigured
<1> QED BY <1>2, <1>3

\* Options made from scratch keep no URL.
LEMMA NewMakes ==
    ASSUME NEW id, NEW h, NEW p, NEW f
    PROVE  DOMAIN New(id, h, p, f) = FieldNames /\ New(id, h, p, f).websocket_url = <<>>
  BY DEF New, FieldNames

\* At the start the backend has nothing, and no URL is kept.
LEMMA AddressInit == Init => AddressInv
<1> SUFFICES ASSUME Init PROVE AddressInv
  OBVIOUS
<1>1. /\ DOMAIN options = FieldNames /\ options.websocket_url = <<>>
      /\ sent = <<>>
  <2>1. options = New("", "localhost", 1883, features) /\ sent = <<>>
    BY DEF Init
  <2> QED BY <2>1 DEF New, FieldNames
<1> QED BY <1>1 DEF AddressInv, AsInUrl

\* A step that leaves the options alone, whatever it hands to the backend.
LEMMA AddressKept ==
    ASSUME AddressInv, UNCHANGED <<options, edited>>,
           \/ UNCHANGED sent
           \/ sent' = <<ToBackend(options)>>,
           stage' \in {"start", "configured"} => sent' = <<>>
    PROVE  AddressInv'
<1>1. sent' \in {<<>>, <<ToBackend(options)>>}
  BY DEF AddressInv
<1>2. ToBackend(options)' = ToBackend(options)
  BY DEF ToBackend, BrokerOf, ExpiryOf, Websocket
<1> QED BY <1>1, <1>2 DEF AddressInv, AsInUrl

\* Every step keeps the address in accordance with the options.
LEMMA AddressStep == ASSUME AddressInv, [Next]_vars PROVE AddressInv'
<1>1. ASSUME NEW h, NEW p, NewConfig(h, p) PROVE AddressInv'
  <2>1. sent' = <<>> /\ options' = New("c", h, p, features)
    BY <1>1 DEF NewConfig, connection, AddressInv
  <2>2. DOMAIN options' = FieldNames /\ options'.websocket_url = <<>>
    BY <2>1, NewMakes
  <2> QED BY <2>1, <2>2 DEF AddressInv, AsInUrl
<1>2. ASSUME NEW u \in Urls, ConfigFromUrl(u) PROVE AddressInv'
  <2>1. sent = <<>> /\ sent' = <<>> /\ edited' = edited
    BY <1>2 DEF ConfigFromUrl, connection, AddressInv
  <2>2. CASE FromUrl(u, features).ok
    <3> DEFINE o == FromUrl(u, features).value
    <3>1. options' = o
      BY <1>2, <2>2 DEF ConfigFromUrl
    <3>2. /\ DOMAIN o = FieldNames
          /\ o.websocket_url \in {<<>>, <<u>>}
          /\ o.host = u.host
          /\ o.transport = TransportOf(u.scheme)
          /\ u.port \in {<<>>, <<o.port>>}
          /\ u.port = <<>> => o.port = DefaultPort(u.scheme)
      BY <2>2, FromUrlMakes
    <3> HIDE DEF o
    <3> QED BY <2>1, <3>1, <3>2 DEF AddressInv, AsInUrl
  <2>3. CASE ~FromUrl(u, features).ok
    <3>1. options' = options
      BY <1>2, <2>3 DEF ConfigFromUrl
    <3> QED BY <2>1, <3>1, AddressKept
  <2> QED BY <2>2, <2>3
<1>3. ASSUME NEW e \in Edits, Assign(e) PROVE AddressInv'
  <2>1. /\ sent' = <<>>
        /\ options' = Updated(options, e)
        /\ edited' = edited \cup DOMAIN e
    BY <1>3 DEF Assign, connection, AddressInv
  <2>2. DOMAIN options' = FieldNames
    BY <2>1 DEF Updated, AddressInv
  <2>3. \A f \in FieldNames : f \notin DOMAIN e => options'[f] = options[f]
    BY <2>1 DEF Updated, AddressInv
  <2>4. options'.websocket_url = options.websocket_url
    BY <2>3, EditsAssumption DEF FieldNames
  <2>5. /\ "host" \notin edited' => options'.host = options.host
        /\ "port" \notin edited' => options'.port = options.port
        /\ "transport" \notin edited' => options'.transport = options.transport
    BY <2>1, <2>3 DEF FieldNames
  <2>6. edited \subseteq edited'
    BY <2>1
  <2> QED BY <2>1, <2>2, <2>4, <2>5, <2>6 DEF AddressInv, AsInUrl
<1>4. ASSUME NEW s, SetSettings(s) PROVE AddressInv'
  <2>1. UNCHANGED <<options, edited, sent>> /\ sent = <<>>
    BY <1>4 DEF SetSettings, connection, AddressInv
  <2> QED BY <2>1, AddressKept
<1>5. ASSUME NEW w, WithLastWill(w) PROVE AddressInv'
  <2>1. sent' = <<>> /\ edited' = edited /\ options' = [options EXCEPT !.last_will = <<w>>]
    BY <1>5 DEF WithLastWill, connection, AddressInv
  <2>2. /\ DOMAIN options' = FieldNames
        /\ options'.websocket_url = options.websocket_url
        /\ options'.host = options.host /\ options'.port = options.port
        /\ options'.transport = options.transport
    BY <2>1 DEF AddressInv, FieldNames
  <2> QED BY <2>1, <2>2 DEF AddressInv, AsInUrl
<1>6. CASE ConnectWithConfig
  <2>1. /\ UNCHANGED <<options, edited>>
        /\ stage' \in {"failed", "panicked", "handshake"}
        /\ sent' = sent \/ sent' = <<ToBackend(options)>>
    BY <1>6 DEF ConnectWithConfig, Fail, Panic
  <2> QED BY <2>1, AddressKept
<1>7. CASE Accepts \/ Refuses \/ PollErr \/ Timeout
  <2>1. UNCHANGED <<options, edited, sent>> /\ stage' \in {"failed", "panicked", "connected"}
    BY <1>7 DEF Accepts, Refuses, PollConnAck, PollRefused, PollErr, Timeout, Fail, Spawn, Panic
  <2> QED BY <2>1, AddressKept
<1>8. CASE UNCHANGED vars
  <2>1. UNCHANGED <<options, edited, sent, stage>>
    BY <1>8 DEF vars
  <2>2. stage' \in {"start", "configured"} => sent' = <<>>
    BY <2>1 DEF AddressInv
  <2> QED BY <2>1, <2>2, AddressKept
<1>9. CASE Configure
  BY <1>1, <1>2, <1>3, <1>4, <1>5, <1>9 DEF Configure
<1> QED
  BY <1>6, <1>7, <1>8, <1>9 DEF Next

\* The backend is given the address in the options, or the websocket URL they
\* were parsed from: every difference between the two was edited, or is the
\* default port of a URL without one.
THEOREM AddressedAsConfiguredHolds == Spec => []AddressedAsConfigured
<1> QED
  BY AddressInit, AddressStep, AddressInvSuffices, PTL DEF Spec

-----------------------------------------------------------------------------
(* What the caller is told *)

\* Up to the handshake there is neither an answer nor a result.
ToldInv ==
    /\ stage \in {"start", "configured", "handshake"} => answer = Pending /\ result = Pending
    /\ RefusalsAreTold

\* Only the codes that the backend names twice have one reason.
LEMMA ReasonsDiffer ==
    ASSUME NEW c, NEW d, ReasonCode(c) = ReasonCode(d)
    PROVE  c = d \/ {c, d} \in Aliases
<1> DEFINE twice == {"RefusedProtocolVersion", "BadClientId", "ServiceUnavailable"}
<1>1. ASSUME NEW x, NEW y, x \in twice, ReasonCode(x) = ReasonCode(y)
      PROVE  x = y \/ {x, y} \in Aliases
  <2>1. ReasonCode(y) = y \/ y \in twice
    BY DEF ReasonCode
  <2>2. CASE y \in twice
    BY <1>1, <2>2 DEF ReasonCode
  <2>3. CASE ReasonCode(y) = y
    BY <1>1, <2>3 DEF ReasonCode, Aliases
  <2> QED BY <2>1, <2>2, <2>3
<1>2. CASE c \in twice
  BY <1>1, <1>2
<1>3. CASE d \in twice
  <2>1. d = c \/ {d, c} \in Aliases
    BY <1>1, <1>3
  <2>2. {d, c} = {c, d}
    OBVIOUS
  <2> QED BY <2>1, <2>2
<1>4. CASE c \notin twice /\ d \notin twice
  BY <1>4 DEF ReasonCode
<1> QED BY <1>2, <1>3, <1>4

\* At the start nothing is known.
LEMMA ToldInit == Init => ToldInv
<1> SUFFICES ASSUME Init PROVE ToldInv
  OBVIOUS
<1>1. answer = Pending /\ result = Pending
  BY DEF Init
<1> QED BY <1>1 DEF ToldInv, RefusalsAreTold, Pending

\* The four ways a handshake ends, each with what the caller is told.
LEMMA HandshakeEnds ==
    ASSUME stage' \in {"failed", "panicked", "connected"}, result = Pending,
           \/ \E c : /\ answer' = [is |-> "code", code |-> c]
                     /\ result' = Rejected(ReasonCode(c))
           \/ \E session : /\ answer' = [is |-> "code", code |-> "Success"]
                           /\ result' \in {Pending, Connected(session)}
           \/ \E k : answer' \in {Pending, [is |-> "error"], [is |-> "silence"]}
                  /\ k # "BrokerRejected" /\ result' \in {Pending, Error(k)}
    PROVE  ToldInv'
<1>1. ASSUME NEW c, answer' = [is |-> "code", code |-> c], result' = Rejected(ReasonCode(c))
      PROVE  ToldInv'
  <2>1. \A d \in Codes : ReasonCode(d) = result'.code => d = c \/ {d, c} \in Aliases
    BY <1>1, ReasonsDiffer DEF Rejected
  <2> QED BY <1>1, <2>1 DEF ToldInv, RefusalsAreTold, Rejected
<1>2. ASSUME NEW session, answer' = [is |-> "code", code |-> "Success"],
             result' \in {Pending, Connected(session)}
      PROVE  ToldInv'
  BY <1>2 DEF ToldInv, RefusalsAreTold, Pending, Connected
<1>3. ASSUME NEW k, answer' \in {Pending, [is |-> "error"], [is |-> "silence"]},
             k # "BrokerRejected", result' \in {Pending, Error(k)}
      PROVE  ToldInv'
  BY <1>3 DEF ToldInv, RefusalsAreTold, Pending, Error
<1> QED BY <1>1, <1>2, <1>3

\* Every step tells the caller what the broker said, or what else went wrong.
LEMMA ToldStep == ASSUME ToldInv, [Next]_vars PROVE ToldInv'
<1>1. ASSUME UNCHANGED <<answer, result>>, stage' = stage \/ stage = "configured"
                                           \/ stage = "start"
      PROVE  ToldInv'
  BY <1>1 DEF ToldInv, RefusalsAreTold
<1>2. ASSUME NEW u \in Urls, ConfigFromUrl(u) PROVE ToldInv'
  <2>1. stage = "start" /\ answer' = answer
    BY <1>2 DEF ConfigFromUrl, connection
  <2>2. CASE FromUrl(u, features).ok
    BY <1>1, <1>2, <2>1, <2>2 DEF ConfigFromUrl
  <2>3. CASE ~FromUrl(u, features).ok
    <3>1. stage' = "failed" /\ result' = Error(FromUrl(u, features).error)
      BY <1>2, <2>3 DEF ConfigFromUrl
    <3>2. FromUrl(u, features).error # "BrokerRejected"
      BY <2>3, FromUrlErrors
    <3>3. answer' = Pending /\ result = Pending
      BY <2>1 DEF ToldInv
    <3> QED BY <3>1, <3>2, <3>3, HandshakeEnds
  <2> QED BY <2>2, <2>3
<1>3. CASE Configure
  <2>1. ASSUME NEW h, NEW p, NewConfig(h, p) PROVE ToldInv'
    BY <1>1, <2>1 DEF NewConfig, connection
  <2>2. ASSUME NEW e, Assign(e) PROVE ToldInv'
    BY <1>1, <2>2 DEF Assign, connection
  <2>3. ASSUME NEW s, SetSettings(s) PROVE ToldInv'
    BY <1>1, <2>3 DEF SetSettings, connection
  <2>4. ASSUME NEW w, WithLastWill(w) PROVE ToldInv'
    BY <1>1, <2>4 DEF WithLastWill, connection
  <2> QED BY <1>2, <1>3, <2>1, <2>2, <2>3, <2>4 DEF Configure
<1>4. CASE ConnectWithConfig
  <2>1. /\ stage = "configured" /\ answer' = answer
        /\ \/ stage' = "failed" /\ result' = Error("ConfigurationValue")
           \/ UNCHANGED result
    BY <1>4 DEF ConnectWithConfig, Fail, Panic
  <2>2. answer = Pending /\ result = Pending
    BY <2>1 DEF ToldInv
  <2>3. CASE UNCHANGED result
    BY <1>1, <2>1, <2>3
  <2>4. CASE stage' = "failed" /\ result' = Error("ConfigurationValue")
    BY <2>1, <2>2, <2>4, HandshakeEnds
  <2> QED BY <2>1, <2>3, <2>4
<1>5. ASSUME NEW c, NEW s, PollConnAck(c, s) PROVE ToldInv'
  <2>1. stage = "handshake" /\ answer' = [is |-> "code", code |-> c]
    BY <1>5 DEF PollConnAck
  <2>2. result = Pending
    BY <2>1 DEF ToldInv
  <2>3. CASE c = "Success"
    <3>1. stage' \in {"panicked", "connected"} /\ result' \in {Pending, Connected(s)}
      BY <1>5, <2>2, <2>3 DEF PollConnAck, Spawn, Panic
    <3> QED BY <2>1, <2>2, <2>3, <3>1, HandshakeEnds
  <2>4. CASE c # "Success"
    <3>1. stage' = "failed" /\ result' = Rejected(ReasonCode(c))
      BY <1>5, <2>4 DEF PollConnAck, Fail
    <3> QED BY <2>1, <2>2, <3>1, HandshakeEnds
  <2> QED BY <2>3, <2>4
<1>6. ASSUME NEW c, PollRefused(c) PROVE ToldInv'
  <2>1. /\ stage = "handshake" /\ answer' = [is |-> "code", code |-> c]
        /\ stage' = "failed" /\ result' = Rejected(ReasonCode(c))
    BY <1>6 DEF PollRefused, Fail
  <2>2. result = Pending
    BY <2>1 DEF ToldInv
  <2> QED BY <2>1, <2>2, HandshakeEnds
<1>7. CASE PollErr \/ Timeout
  <2>1. /\ stage = "handshake" /\ answer' \in {[is |-> "error"], [is |-> "silence"]}
        /\ stage' = "failed" /\ \E k : k # "BrokerRejected" /\ result' = Error(k)
    BY <1>7 DEF PollErr, Timeout, Fail
  <2>2. result = Pending
    BY <2>1 DEF ToldInv
  <2> QED BY <2>1, <2>2, HandshakeEnds
<1>8. CASE UNCHANGED vars
  BY <1>1, <1>8 DEF vars
<1>9. CASE Accepts \/ Refuses
  BY <1>5, <1>6, <1>9 DEF Accepts, Refuses
<1> QED
  BY <1>3, <1>4, <1>7, <1>8, <1>9 DEF Next

\* The caller learns the broker's reason, and takes nothing else for one: for
\* every set of return codes.
THEOREM RefusalsAreToldHolds == Spec => []RefusalsAreTold
<1>1. ToldInv => RefusalsAreTold
  BY DEF ToldInv
<1> QED
  BY <1>1, ToldInit, ToldStep, PTL DEF Spec
=============================================================================
