------------------------ MODULE ProviderMessagePuller ------------------------
(***************************************************************************)
(* ProviderMessagePuller (provider_messages.py) over the event stream of    *)
(* one provider (lark_event_stream.py and the bounded queue of              *)
(* lark_openapi.py): history windows and pushed events presented as one     *)
(* acknowledged stream per session.  The SDK's thread pushes events, loses  *)
(* the connection and reconnects between any two steps of take_message.     *)
(*                                                                         *)
(* The provider's clock is the number of messages posted, and a message's   *)
(* event_ms is its position in the chat.  A message is visible to history   *)
(* at once, and is pushed in order, or lost while there is no connection.   *)
(***************************************************************************)
EXTENDS Integers, SequencesExt, SortedSeqs

CONSTANTS
    None,
    SessionOrder,      \* _session_order
    Healthy,           \* sessions whose history queries do not fail for ever
    PageSize,          \* page_size
    EventQueueSize,    \* event_queue_size
    HistoryOverlap,    \* history_overlap_ms
    HistoryLookback,   \* history_lookback_ms
    ClockAhead,        \* worker's clock minus the provider's
    MaxPosts,          \* BOUND on messages posted
    MaxReconnects      \* BOUND on lost connections

VARIABLES
    chat,                \* provider: the session of each message
    connected,           \* WebSocket
    events,              \* adapter._events
    generation,          \* event_stream_generation()
    stream_error,        \* event_stream_error() is not None
    pc, offset,          \* where take_message is
    session,             \* _sessions
    session_cursor,      \* _session_cursor
    live_events,         \* _live_events
    stream_generation,   \* _stream_generation
    since,               \* start of the first window of a session
    delivered            \* messages delivered at least once

stream == <<chat, connected, events, generation, stream_error>>
puller == <<pc, offset, session, session_cursor, live_events,
            stream_generation, since, delivered>>
vars == <<stream, puller>>

Sessions == Range(SessionOrder)
Messages == 1 .. MaxPosts

HistoryScan == [start_ms: Nat, end_ms: Nat, page_token: Nat]

ASSUME PullerAssumption ==
    /\ SessionOrder \in Seq(Sessions) /\ IsInjective(SessionOrder)
    /\ SessionOrder # <<>>
    /\ Healthy \subseteq Sessions
    /\ {PageSize, EventQueueSize, HistoryLookback} \subseteq Nat \ {0}
    /\ {HistoryOverlap, ClockAhead, MaxPosts, MaxReconnects} \subseteq Nat
    /\ None \notin Nat \cup HistoryScan

SessionPullState ==
    [confirmed_event_ms: Nat \cup {None}, history_highwater_ms: Nat \cup {None},
     history_scan: HistoryScan \cup {None}, history_events: Seq(Messages),
     in_flight: Messages \cup {None}, retry_waits: BOOLEAN]

TypeOK ==
    /\ chat \in Seq(Sessions) /\ connected \in BOOLEAN
    /\ events \in Seq(Messages) /\ Len(events) <= EventQueueSize
    /\ generation \in Nat /\ stream_error \in BOOLEAN
    /\ pc \in {"stopped", "connected", "idle", "collect", "check", "sessions",
               "failed"}
    /\ offset \in 0 .. Len(SessionOrder)
    /\ session \in [Sessions -> SessionPullState]
    /\ session_cursor \in 0 .. Len(SessionOrder) - 1
    /\ live_events \in Seq(Messages) /\ Len(live_events) <= EventQueueSize
    /\ stream_generation \in 0 .. generation
    /\ since \in [Sessions -> Nat] /\ delivered \subseteq Messages

Init ==
    /\ chat = <<>> /\ connected = FALSE /\ events = <<>>
    /\ generation = 0 /\ stream_error = FALSE
    /\ pc = "stopped" /\ offset = 0
    /\ session = [s \in Sessions |->
         [confirmed_event_ms |-> None, history_highwater_ms |-> None,
          history_scan |-> None, history_events |-> <<>>, in_flight |-> None,
          retry_waits |-> FALSE]]
    /\ session_cursor = 0 /\ live_events = <<>> /\ stream_generation = 0
    /\ since = [s \in Sessions |-> 1] /\ delivered = {}

Started == pc \notin {"stopped", "failed"}
Running == Started /\ pc # "connected"

-----------------------------------------------------------------------------
(* The provider and the SDK's thread.                                      *)

(* _handle_message_event: a full queue fails the callback.                 *)
Post(s) ==
    /\ Len(chat) < MaxPosts
    /\ chat' = Append(chat, s)
    /\ \/ ~connected /\ UNCHANGED <<events, stream_error>>
       \/ /\ connected /\ Len(events) < EventQueueSize
          /\ events' = Append(events, Len(chat'))
          /\ UNCHANGED stream_error
       \/ /\ connected /\ Len(events) = EventQueueSize
          /\ stream_error' = TRUE
          /\ UNCHANGED events
    /\ UNCHANGED <<connected, generation, puller>>

Disconnect ==
    /\ Started /\ connected /\ generation < MaxReconnects
    /\ connected' = FALSE
    /\ UNCHANGED <<chat, events, generation, stream_error, puller>>

OnReconnected ==
    /\ Started /\ ~connected
    /\ connected' = TRUE
    /\ generation' = generation + 1
    /\ UNCHANGED <<chat, events, stream_error, puller>>

(* The reconnect timeout, or the end of the SDK's thread.                  *)
StreamFails ==
    /\ Started /\ ~connected
    /\ stream_error' = TRUE
    /\ UNCHANGED <<chat, connected, events, generation, puller>>

-----------------------------------------------------------------------------
(* Windows.                                                                *)

Now == Len(chat) + ClockAhead

NewHistoryScan(confirmed_ms) ==
    [start_ms |-> IF confirmed_ms = None THEN Max({0, Now - HistoryLookback})
                  ELSE Max({0, Min({confirmed_ms, Now}) - HistoryOverlap}),
     end_ms |-> Now,
     page_token |-> 0]

ConfirmedMs(s) ==
    LET values == {session[s].confirmed_event_ms,
                   session[s].history_highwater_ms} \ {None}
    IN  IF values = {} THEN None ELSE Max(values)

Replacement(s) ==
    LET scan == session[s].history_scan
        new == NewHistoryScan(ConfirmedMs(s))
    IN  IF scan = None THEN new
        ELSE [new EXCEPT !.start_ms = Min({@, scan.start_ms})]

(* Mutant: a window being read is not reopened by a reconnection.          *)
HandoffKeepsScan ==
    /\ stream_generation' = generation
    /\ session' =
         IF generation = stream_generation THEN session
         ELSE [s \in Sessions |->
                 IF session[s].history_scan # None THEN session[s]
                 ELSE [session[s] EXCEPT !.history_scan = Replacement(s)]]

Handoff ==
    /\ stream_generation' = generation
    /\ session' =
         IF generation = stream_generation THEN session
         ELSE [s \in Sessions |-> [session[s] EXCEPT
                 !.history_scan = Replacement(s), !.retry_waits = FALSE]]

-----------------------------------------------------------------------------
(* start                                                                   *)

StartEventStream ==
    /\ pc = "stopped"
    /\ connected' = TRUE
    /\ pc' = "connected"
    /\ UNCHANGED <<chat, events, generation, stream_error, offset, session,
                   session_cursor, live_events, stream_generation, since,
                   delivered>>

(* The confirmed message of a session is its newest recorded one.  Nothing  *)
(* waits between the reading of the clock and of the generation.           *)
StartWindows(confirmed) ==
    /\ pc = "connected"
    /\ session' = [s \in Sessions |-> [session[s] EXCEPT
         !.confirmed_event_ms = confirmed[s],
         !.history_highwater_ms = confirmed[s],
         !.history_scan = NewHistoryScan(confirmed[s])]]
    /\ since' = [s \in Sessions |-> NewHistoryScan(confirmed[s]).start_ms]
    /\ stream_generation' = generation
    /\ pc' = "idle"
    /\ UNCHANGED <<stream, offset, session_cursor, live_events, delivered>>

Confirmable == [Sessions -> DOMAIN chat \cup {None}]
RecordedMessages ==
    {confirmed \in Confirmable :
        \A s \in Sessions : confirmed[s] # None => chat[confirmed[s]] = s}

-----------------------------------------------------------------------------
(* take_message                                                            *)

Fail ==
    /\ pc' = "failed"
    /\ UNCHANGED <<stream, offset, session, session_cursor, live_events,
                   stream_generation, since, delivered>>

RaiseStreamError == pc \in {"idle", "check"} /\ stream_error /\ Fail

TakeMessage ==
    /\ pc = "idle" /\ ~stream_error
    /\ Handoff
    /\ pc' = "collect"
    /\ UNCHANGED <<stream, offset, session_cursor, live_events, since,
                   delivered>>

(* Mutant: the buffer of live events has no bound.                         *)
CollectUnbounded ==
    /\ pc = "collect"
    /\ IF events = <<>> THEN UNCHANGED <<events, live_events>>
       ELSE /\ events' = Tail(events)
            /\ live_events' = Append(live_events, Head(events))
    /\ pc' = "check"
    /\ UNCHANGED <<chat, connected, generation, stream_error, offset, session,
                   session_cursor, stream_generation, since, delivered>>

CollectLiveEvent ==
    /\ pc = "collect"
    /\ IF Len(live_events) >= EventQueueSize \/ events = <<>>
       THEN UNCHANGED <<events, live_events>>
       ELSE /\ events' = Tail(events)
            /\ live_events' = Append(live_events, Head(events))
    /\ pc' = "check"
    /\ UNCHANGED <<chat, connected, generation, stream_error, offset, session,
                   session_cursor, stream_generation, since, delivered>>

(* Mutant: the handoff is looked for only before the live event is taken.   *)
CheckStreamOnce ==
    /\ pc = "check" /\ ~stream_error
    /\ pc' = "sessions" /\ offset' = 0
    /\ UNCHANGED <<stream, session, stream_generation, session_cursor,
                   live_events, since, delivered>>

CheckStream ==
    /\ pc = "check" /\ ~stream_error
    /\ Handoff
    /\ pc' = "sessions" /\ offset' = 0
    /\ UNCHANGED <<stream, session_cursor, live_events, since, delivered>>

Size == Len(SessionOrder)
Index == (session_cursor + offset) % Size
AfterIndex == (Index + 1) % Size
Visiting(s) == pc = "sessions" /\ offset < Size /\ SessionOrder[Index + 1] = s

LiveEvents(s) == {n \in DOMAIN live_events : chat[live_events[n]] = s}

Deliver(i) ==
    /\ delivered' = delivered \cup {i}
    /\ session_cursor' = AfterIndex
    /\ pc' = "idle" /\ offset' = 0

VisitNext == offset' = offset + 1 /\ UNCHANGED <<pc, delivered>>

DeliverHistory(s) ==
    /\ Visiting(s)
    /\ session[s].in_flight = None /\ session[s].history_events # <<>>
    /\ Deliver(Head(session[s].history_events))
    /\ session' = [session EXCEPT
         ![s].in_flight = Head(session[s].history_events),
         ![s].history_events = Tail(@)]
    /\ UNCHANGED <<stream, live_events, stream_generation, since>>

DeliverLive(s) ==
    /\ Visiting(s)
    /\ session[s].in_flight = None /\ session[s].history_events = <<>>
    /\ session[s].history_scan = None /\ LiveEvents(s) # {}
    /\ LET n == Min(LiveEvents(s))
       IN  /\ Deliver(live_events[n])
           /\ session' = [session EXCEPT ![s].in_flight = live_events[n]]
           /\ live_events' = RemoveAt(live_events, n)
    /\ UNCHANGED <<stream, stream_generation, since>>

PassOver(s) ==
    /\ Visiting(s)
    /\ \/ session[s].in_flight # None
       \/ /\ session[s].history_events = <<>>
          /\ IF session[s].history_scan = None THEN LiveEvents(s) = {}
                                               ELSE session[s].retry_waits
    /\ VisitNext
    /\ UNCHANGED <<stream, session, session_cursor, live_events,
                   stream_generation, since>>

QueriesHistory(s) ==
    /\ Visiting(s)
    /\ session[s].in_flight = None /\ session[s].history_events = <<>>
    /\ session[s].history_scan # None /\ ~session[s].retry_waits

(* What is left of the window, and the session once a page was read.       *)
InWindow(i, scan) == i >= scan.start_ms /\ i <= scan.end_ms /\ i > scan.page_token

Remaining(s) ==
    Sorted({i \in DOMAIN chat :
              chat[i] = s /\ InWindow(i, session[s].history_scan)})

Scanned(s) ==
    LET state == session[s]
        found == Remaining(s)
    IN  IF Len(found) > PageSize
        THEN [state EXCEPT !.history_scan.page_token = found[PageSize]]
        ELSE [state EXCEPT
                !.history_highwater_ms =
                    Max({0, state.history_scan.end_ms, @} \ {None}),
                !.history_scan = None]

(* A page with messages; an empty one is the last, and live events follow.  *)
FetchPage(s) ==
    /\ QueriesHistory(s) /\ Remaining(s) # <<>>
    /\ Deliver(Head(Remaining(s)))
    /\ session' = [session EXCEPT ![s] = [Scanned(s) EXCEPT
         !.in_flight = Head(Remaining(s)),
         !.history_events =
            SubSeq(Remaining(s), 2, Min({PageSize, Len(Remaining(s))}))]]
    /\ UNCHANGED <<stream, live_events, stream_generation, since>>

FetchEmptyPage(s) ==
    /\ QueriesHistory(s) /\ Remaining(s) = <<>>
    /\ session_cursor' = AfterIndex
    /\ IF LiveEvents(s) = {}
       THEN /\ VisitNext
            /\ session' = [session EXCEPT ![s] = Scanned(s)]
            /\ UNCHANGED live_events
       ELSE LET n == Min(LiveEvents(s))
            IN  /\ Deliver(live_events[n])
                /\ session' = [session EXCEPT ![s] =
                     [Scanned(s) EXCEPT !.in_flight = live_events[n]]]
                /\ live_events' = RemoveAt(live_events, n)
    /\ UNCHANGED <<stream, stream_generation, since>>

(* A temporary failure: the window and the page token are kept.            *)
HistoryFails(s) ==
    /\ QueriesHistory(s)
    /\ session' = [session EXCEPT ![s].retry_waits = TRUE]
    /\ session_cursor' = AfterIndex
    /\ VisitNext
    /\ UNCHANGED <<stream, live_events, stream_generation, since>>

HistoryFailsPermanently(s) == QueriesHistory(s) /\ Fail

TakeNothing ==
    /\ pc = "sessions" /\ offset = Size
    /\ pc' = "idle" /\ offset' = 0
    /\ UNCHANGED <<stream, session, session_cursor, live_events,
                   stream_generation, since, delivered>>

-----------------------------------------------------------------------------
(* Between two calls.                                                      *)

RetryDelayPasses(s) ==
    /\ pc = "idle" /\ session[s].retry_waits
    /\ session' = [session EXCEPT ![s].retry_waits = FALSE]
    /\ UNCHANGED <<stream, pc, offset, session_cursor, live_events,
                   stream_generation, since, delivered>>

Acknowledge(s) ==
    /\ pc = "idle" /\ session[s].in_flight # None
    /\ session' = [session EXCEPT
         ![s].confirmed_event_ms = Max({@, session[s].in_flight} \ {None}),
         ![s].in_flight = None]
    /\ UNCHANGED <<stream, pc, offset, session_cursor, live_events,
                   stream_generation, since, delivered>>

-----------------------------------------------------------------------------
Pull ==
    \/ StartEventStream \/ \E confirmed \in RecordedMessages : StartWindows(confirmed)
    \/ TakeMessage \/ CollectLiveEvent \/ CheckStream \/ RaiseStreamError
    \/ TakeNothing
    \/ \E s \in Sessions :
         \/ DeliverHistory(s) \/ DeliverLive(s) \/ PassOver(s)
         \/ FetchPage(s) \/ FetchEmptyPage(s) \/ HistoryFails(s)
         \/ HistoryFailsPermanently(s)

Provider ==
    \/ \E s \in Sessions : Post(s)
    \/ Disconnect \/ OnReconnected \/ StreamFails

Next ==
    \/ Pull \/ Provider
    \/ \E s \in Sessions : RetryDelayPasses(s) \/ Acknowledge(s)

Spec == Init /\ [][Next]_vars

(* The worker's thread runs, acknowledges and retries, and a query of a     *)
(* healthy session that is made again and again succeeds.                   *)
Fairness ==
    /\ WF_vars(Pull)
    /\ WF_vars(OnReconnected \/ StreamFails)
    /\ \A s \in Sessions : SF_vars(RetryDelayPasses(s)) /\ SF_vars(Acknowledge(s))
    /\ \A s \in Healthy : SF_vars(FetchPage(s) \/ FetchEmptyPage(s))

FairSpec == Spec /\ Fairness

-----------------------------------------------------------------------------
(***************************************************************************)
(* Properties.                                                             *)
(***************************************************************************)
(* Pages, redelivery, lost connections and the handoff between history and  *)
(* pushed events make one acknowledged stream per session: no message       *)
(* comes before an older one that has not come yet.                         *)
Stream == INSTANCE AckedStream WITH
    in_flight <- [s \in Sessions |-> session[s].in_flight]
ImplementsAckedStream == Stream!Spec

(* A message that has not been delivered is still on its way: in a queue,   *)
(* in the rest of a window, or, if the connection was lost, in the window   *)
(* that the reconnection will open.                                         *)
NothingLost ==
    (Running /\ ~stream_error) =>
        \A i \in DOMAIN chat :
            LET s == chat[i]
            IN  i >= since[s] =>
                  \/ i \in delivered
                  \/ i \in Range(events) \cup Range(live_events)
                           \cup Range(session[s].history_events)
                  \/ /\ session[s].history_scan # None
                     /\ InWindow(i, session[s].history_scan)
                  \/ /\ ~connected \/ generation # stream_generation
                     /\ i >= Replacement(s).start_ms

(* Every message of a session whose history can be read is delivered,       *)
(* whatever happens to the other sessions, unless the worker ends           *)
(* (IM-P2P-SYNCER.md sections 5 and 6: other sessions may continue, and a   *)
(* temporary failure does not block other channels).                        *)
SessionsIndependent ==
    \A i \in Messages :
        (Running /\ i \in DOMAIN chat /\ chat[i] \in Healthy /\ i >= since[chat[i]])
            ~> (i \in delivered \/ pc = "failed")

=============================================================================
