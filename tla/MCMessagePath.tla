--------------------------- MODULE MCMessagePath ---------------------------
(* A small instance of MessagePath: two sessions of one app, one user each. *)
EXTENDS MessagePath

CONSTANTS app1, app2, x1, x2, s1, s2, r1

MCNumbers == {-1, 0, 1, 51}

Mapping(type, id, principal, session, c) ==
    [provider |-> "lark", identity_type |-> type, external_user_id |-> id,
     principal |-> principal, session_id |-> session, channel_id |-> c]

MCConfig ==
    [texts |-> [f \in TextFields |-> "text"],
     numbers |-> [f \in NumberFields |-> Absent],
     sections |-> [s \in Sections |-> "fields"],
     worker |-> 4, tokens |-> <<1, 2, 3>>,
     providers |-> <<[name |-> "lark", app_id |-> app1]>>,
     mappings |-> <<Mapping("user", x1, 1, s1, 1), Mapping("bot", app1, 3, s1, 1),
                    Mapping("user", x2, 2, s2, 2), Mapping("bot", app1, 3, s2, 2)>>]

Channel(session, user) ==
    [protocol |-> "im.v1", provider |-> "lark", session_id |-> session,
     session_type |-> "p2p", visibility |-> "private", members |-> {user, 3, 4}]

MCChannels == <<Channel(s1, 1), Channel(s2, 2)>>

Raw(form, source_principal, utf8) ==
    [form |-> form, source_principal |-> source_principal, utf8 |-> utf8]

Message(id, session, sender, sender_type, time) ==
    [id |-> id, session |-> session, sender |-> sender, time |-> time,
     sender_type |-> sender_type, type |-> "text",
     content |-> Raw("object", FALSE, TRUE)]

Hello == Message(1, s1, x1, "user", 2)
Answer == Message(2, s1, app1, "app", 1)

MCMessages ==
    {Hello, Answer,
     [Message(3, s2, x2, "user", 0) EXCEPT !.content = Raw("value", TRUE, TRUE)],
     [Message(4, s2, x2, "user", 3) EXCEPT !.content = Raw("text", TRUE, TRUE)],
     Message(5, s1, x2, "user", 3), Message(6, s2, app1, "app", 3),
     Message(7, s1, x1, "user", -1), Message(8, s1, x1, "user", Bad),
     Message(9, s1, x1, "system", 3), Message(10, s1, x1, Absent, 3),
     Message(11, s1, Absent, "user", 3), Message(Bad, s1, x1, "user", 3),
     Message(12, Absent, x1, "user", 3),
     [Hello EXCEPT !.type = Absent, !.id = 13],
     [Hello EXCEPT !.content = Absent, !.id = 14],
     [Hello EXCEPT !.content = Raw("object", FALSE, FALSE), !.id = 15]}

Request(c, principal, req) ==
    Entry(c, principal, <<4>>, EncodeSendRequest(req), FALSE)

Req == [request_id |-> r1, msg_type |-> "text", prev_seq |-> Absent,
        content |-> [source_principal |-> FALSE, utf8 |-> TRUE], event_ms |-> 0]

Res == [request_id |-> r1, prev_seq |-> 1, status |-> "SUCCESS",
        provider_message_id |-> 2, event_ms |-> 0]

MCPosts ==
    {Request(1, 3, Req), Request(1, 1, Req),
     Request(2, 3, [Req EXCEPT !.msg_type = "image"]),
     Request(1, 3, [Req EXCEPT !.content.utf8 = FALSE]),
     Request(1, 3, [Req EXCEPT !.content.source_principal = TRUE]),
     Request(1, 3, [Req EXCEPT !.event_ms = -1]),
     Request(2, 3, [Req EXCEPT !.event_ms = 1]),
     Entry(1, 3, <<1>>, EncodeSendResult(Res), FALSE),
     Entry(1, 3, <<>>, Bad, FALSE)}
=============================================================================
