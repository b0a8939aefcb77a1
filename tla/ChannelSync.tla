---------------------------- MODULE ChannelSync ----------------------------
(***************************************************************************)
(* What the worker promises the two sides it connects, without its polling, *)
(* memory, restarts or queues (docs/IM_PROTOCOL.md, sections 3 to 5):       *)
(*  - requests are delivered to the chat and answered one at a time, oldest *)
(*    first, each delivered once and answered once;                         *)
(*  - each chat message is recorded once, and the message of a request only *)
(*    after the request was answered, linked to it.                         *)
(***************************************************************************)
EXTENDS Naturals, Sequences

CONSTANTS Channels, RequestIds, None

VARIABLES
    requests,   \* set of [seq, channel_id, request_id]
    messages,   \* the chat: sequence of [channel_id, request_id or None]
    answers,    \* subset of requests
    records     \* set of [message, answers: the request it is linked to]

avars == <<requests, messages, answers, records>>

AbstractInit ==
    requests = {} /\ messages = <<>> /\ answers = {} /\ records = {}

Oldest(q) ==
    /\ q \in requests \ answers
    /\ \A p \in requests \ answers : q.seq <= p.seq

DeliveredAs(q, i) ==
    i \in DOMAIN messages /\ messages[i].request_id = q.request_id

(* A caller asks for a new request; a repeated request changes nothing.     *)
Ask ==
    /\ \E q \in requests' \ requests :
         /\ requests' = requests \cup {q}
         /\ \A p \in requests : p.seq < q.seq /\ p.request_id # q.request_id
    /\ UNCHANGED <<messages, answers, records>>

Post ==
    /\ \E c \in Channels :
         messages' = Append(messages, [channel_id |-> c, request_id |-> None])
    /\ UNCHANGED <<requests, answers, records>>

Deliver ==
    /\ \E q \in requests :
         /\ Oldest(q)
         /\ \A i \in DOMAIN messages : ~DeliveredAs(q, i)
         /\ messages' = Append(messages, [channel_id |-> q.channel_id,
                                          request_id |-> q.request_id])
    /\ UNCHANGED <<requests, answers, records>>

Answer ==
    /\ \E q \in requests :
         /\ Oldest(q)
         /\ \E i \in DOMAIN messages : DeliveredAs(q, i)
         /\ answers' = answers \cup {q}
    /\ UNCHANGED <<requests, messages, records>>

Record ==
    /\ \E i \in DOMAIN messages :
         /\ \A x \in records : x.message # i
         /\ messages[i].request_id # None =>
              \E q \in answers : DeliveredAs(q, i)
         /\ records' = records \cup
              {[message |-> i, answers |-> messages[i].request_id]}
    /\ UNCHANGED <<requests, messages, answers>>

AbstractNext == Ask \/ Post \/ Deliver \/ Answer \/ Record

AbstractSpec == AbstractInit /\ [][AbstractNext]_avars

=============================================================================
