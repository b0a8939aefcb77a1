---------------------------- MODULE MCP2PSyncer ----------------------------
(* Instances of P2PSyncer for TLC: two channels, each with its user and bot. *)
EXTENDS P2PSyncerRefinement, P2PSyncerInv

CONSTANTS c1, c2, u1, u2, b1, b2, sync, r1, r2, r3, hello, bye, card

MCChannels == {c1, c2}
MCPrincipals == {u1, u2, b1, b2, sync}
MCBotOf == (c1 :> b1) @@ (c2 :> b2)
MCUserOf == (c1 :> u1) @@ (c2 :> u2)

Request(c, p, r, x) ==
    [kind |-> "send.request", channel_id |-> c, principal |-> p,
     request_id |-> r, content |-> x]

(* Compliant callers: each request_id has one request, which may be written *)
(* again unchanged.                                                         *)
TwoChannels == {Request(c1, b1, r1, hello), Request(c2, b2, r2, hello)}
OneChannel  == {Request(c1, b1, r1, hello), Request(c1, b1, r2, hello)}

(* Beside them a request in the other channel that the provider refuses.    *)
OneRefused == OneChannel \cup {Request(c2, b2, r3, card)}

(* Callers that may also break the protocol: the same request_id with other *)
(* content, a request the provider refuses, one written by a user, a         *)
(* send.result not written by the worker.                                   *)
Callers ==
    TwoChannels \cup
    {Request(c1, b1, r1, bye), Request(c2, b2, r2, card),
     Request(c2, u2, r2, hello),
     [kind |-> "send.result", channel_id |-> c2, principal |-> b2,
      recipients |-> {b2}, request_id |-> r2, prev_seq |-> 1,
      status |-> "SUCCESS", provider_message_id |-> 1]}

=============================================================================
