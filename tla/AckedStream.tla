----------------------------- MODULE AckedStream -----------------------------
(***************************************************************************)
(* What ProviderMessagePuller promises to the processor, and what P2PSyncer *)
(* assumes: per session a stream of acknowledged messages.  At most one is  *)
(* unacknowledged; a message may come again, but none comes before every    *)
(* older one of its session has come.                                       *)
(***************************************************************************)
EXTENDS Naturals, Sequences

CONSTANTS Sessions, None

VARIABLES
    chat,        \* the provider's messages, as the session of each
    since,       \* first message of a session the stream has to deliver
    delivered,   \* messages delivered at least once
    in_flight    \* the unacknowledged message of a session, or None

Older(i) == {j \in 1 .. i - 1 : chat[j] = chat[i] /\ j >= since[chat[i]]}

Init ==
    /\ chat = <<>> /\ delivered = {}
    /\ since = [s \in Sessions |-> 1] /\ in_flight = [s \in Sessions |-> None]

Post ==
    /\ \E s \in Sessions : chat' = Append(chat, s)
    /\ UNCHANGED <<since, delivered, in_flight>>

Start ==
    /\ delivered = {}
    /\ since' \in [Sessions -> 0 .. Len(chat)]
    /\ UNCHANGED <<chat, delivered, in_flight>>

Deliver(i) ==
    /\ in_flight[chat[i]] = None
    /\ i \in delivered \/ Older(i) \subseteq delivered
    /\ delivered' = delivered \cup {i}
    /\ in_flight' = [in_flight EXCEPT ![chat[i]] = i]
    /\ UNCHANGED <<chat, since>>

Acknowledge(s) ==
    /\ in_flight[s] # None
    /\ in_flight' = [in_flight EXCEPT ![s] = None]
    /\ UNCHANGED <<chat, since, delivered>>

Next == \/ Post \/ Start
        \/ \E i \in DOMAIN chat : Deliver(i)
        \/ \E s \in Sessions : Acknowledge(s)

Spec == Init /\ [][Next]_<<chat, since, delivered, in_flight>>

=============================================================================
