------------------------------ MODULE MCConnect ------------------------------
(* Builds, URLs and settings for model-checking Connect. *)
EXTENDS Connect

MCBuilds == {{"v4"}, {"v5"}, {"v4", "v5", "websocket"}, {"v5", "websocket", "tls"}}

Param(key, parsed, value) == [key |-> key, parsed |-> parsed, value |-> value]

Id        == Param("client_id", TRUE, [client_id |-> "c"])
NoId      == Param("client_id", TRUE, [client_id |-> ""])
Persist   == Param("clean_session", TRUE, [session |-> Resume])
Version5  == Param("protocol", TRUE, [protocol |-> "V5"])
Version3  == Param("protocol", FALSE, <<>>)
Long      == Param("keep_alive_secs", TRUE, [keep_alive |-> Duration(65536, FALSE)])
Garbled   == Param("keep_alive_secs", FALSE, <<>>)
Inflight  == Param("inflight_num", TRUE, <<>>)
TimeLimit == Param("conn_timeout_secs", TRUE, <<>>)
Unknown   == Param("frobnicate", TRUE, <<>>)

Url(scheme, host, port, query) ==
    [parses |-> TRUE, scheme |-> scheme, host |-> host, port |-> port,
     user |-> "u", password |-> "p", query |-> query]

MCUrls ==
    {Url(s, "h", p, <<Id>>) : s \in Schemes, p \in {<<>>, <<1>>}}
    \cup {Url(s, "h", <<>>, q) : s \in {"mqtt", "wss"},
            q \in {<<>>, <<Id, NoId, Persist>>, <<NoId, Persist, Id>>, <<Id, Version5>>,
                   <<Version3, Unknown>>, <<Id, Long>>, <<Garbled, Id>>, <<Inflight, Unknown>>,
                   <<Id, TimeLimit>>, <<Unknown>>}}
    \cup {Url("gopher", "h", <<>>, <<Id>>), Url("mqtt", "", <<>>, <<Id>>),
          [Url("ws", "", <<>>, <<Id>>) EXCEPT !.parses = FALSE],
          [Url("mqtt", "h", <<>>, <<Id>>) EXCEPT !.user = ""]}

MCEdits ==
    {[host |-> "other"], [port |-> 9], [client_id |-> ""]}
    \cup {[session |-> s] : s \in {Resume, ResumeFor(Duration(60, FALSE)),
                                  ResumeFor(Duration(1, TRUE)), ResumeFor(Duration(100001, FALSE))}}
    \cup {[keep_alive |-> Duration(0, f)] : f \in BOOLEAN}
    \cup {[transport |-> t] :
            t \in {[is |-> "tcp"], [is |-> "ws"], [is |-> "tls", tls |-> "rustls"]}}

MCWills == {[topic |-> "t", payload |-> <<"m">>, qos |-> 1, retain |-> FALSE],
            [topic |-> "t", payload |-> <<>>, qos |-> 1, retain |-> FALSE]}

MCCapacities ==
    {[DefaultSettings EXCEPT !.cache = 0], [DefaultSettings EXCEPT !.commands = 0],
     [DefaultSettings EXCEPT !.unsubscribes = 0]}

MCCodes == {"BadUserNamePassword", "NotAuthorized", "ServiceUnavailable", "ServerUnavailable"}
=============================================================================
