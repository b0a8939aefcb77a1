---------------------------- MODULE MessagePath ----------------------------
(***************************************************************************)
(* A message's way through a running worker, value by value: configuration, *)
(* adapter, mapping and codec composed.  What P2PSyncer takes as given (who *)
(* sent a message, what is written for it, what a replay makes of the log)  *)
(* is computed here; the steps are coarser than there: a replay, or an      *)
(* event with its publication, is one step.                                *)
(***************************************************************************)
EXTENDS WorkerStartup, LarkMessages, SortedSeqs

CONSTANTS
    Messages,    \* what is posted in the provider's chats
    Posts,       \* what clients other than the worker publish
    MaxLog,      \* BOUND on the length of the log
    Now          \* the worker's clock, in ms

ASSUME PathAssumption ==
    /\ Now \in Nat /\ MaxLog \in Nat
    /\ \A m \in Posts : ~m.worker

VARIABLES
    log,         \* OpenEvent: the committed messages
    received,    \* the worker has read log[1 .. received]
    marks        \* RuntimeState, as far as a replay rebuilds it

path == <<log, received, marks>>
vars == <<startup, path>>

-----------------------------------------------------------------------------
(* What the log holds, and what RuntimeState keeps of it: the requests that *)
(* wait for an answer, the links from a sent message to its result, and the *)
(* records with their times.  A key is <<provider, session, channel, id>>.  *)

Entry(c, principal, recipients, payload, worker) ==
    [channel_id |-> c, principal |-> principal, recipients |-> recipients,
     payload |-> payload, worker |-> worker]

NoMarks == [tasks |-> {}, links |-> {}, records |-> {}, refused |-> FALSE]
Refuse(known) == [known EXCEPT !.refused = TRUE]

Found(S) == CHOOSE x \in S : TRUE

Key(c, id) == <<Found(ProviderSession(c)), c, id>>

LinkOf(known, key) ==
    LET sent == {i \in DOMAIN log : <<key, i>> \in known.links}
    IN  IF sent = {} THEN Absent ELSE Found(sent)

PeerList(c, principal) == Sorted(PeerPrincipals(c, principal))

RolesValid(m) ==
    /\ m.payload.kind = "sync.record" =>
         /\ \E e \in EntriesOf(m.channel_id) : e.principal = m.principal
         /\ m.recipients = PeerList(m.channel_id, m.principal)
    /\ m.payload.kind = "send.result" => m.principal = config.worker

-----------------------------------------------------------------------------
(* What a message adds to the marks; a conflict refuses the log.           *)

Earlier(i, kind) ==
    {j \in 1 .. i - 1 : /\ log[j].channel_id \in indexed
                        /\ log[j].payload.kind = kind
                        /\ log[j].payload.request_id = log[i].payload.request_id}

(* All that is compared of two messages; their times are not.              *)
Same(i, j) ==
    /\ log[i].channel_id = log[j].channel_id
    /\ log[i].principal = log[j].principal
    /\ log[i].payload.data = log[j].payload.data
    /\ log[i].payload.kind = "send.result" =>
         /\ log[i].recipients = log[j].recipients
         /\ log[i].payload.prev_seq = log[j].payload.prev_seq

AddSendRequest(known, i) ==
    IF Earlier(i, "send.request") = {}
    THEN [known EXCEPT !.tasks = @ \cup {i}]
    ELSE IF \A j \in Earlier(i, "send.request") : Same(i, j)
         THEN known ELSE Refuse(known)

Complete(known, task, c, id, seq) ==
    [known EXCEPT !.tasks = @ \ {task}, !.links = @ \cup {<<Key(c, id), seq>>}]

AddSendResult(known, i) ==
    LET m == log[i]
        task == m.payload.prev_seq
    IN  IF Earlier(i, "send.result") # {}
        THEN IF \A j \in Earlier(i, "send.result") : Same(i, j)
             THEN known ELSE Refuse(known)
        ELSE IF /\ task \in known.tasks
                /\ log[task].payload.request_id = m.payload.request_id
                /\ log[task].channel_id = m.channel_id
                /\ m.recipients = <<log[task].principal>>
             THEN IF /\ m.payload.data.status = "SUCCESS"
                     /\ Truthy(m.payload.data.provider_message_id)
                  THEN Complete(known, task, m.channel_id,
                                m.payload.data.provider_message_id, i)
                  ELSE [known EXCEPT !.tasks = @ \ {task}]
             ELSE Refuse(known)

AddSyncRecord(known, i) ==
    LET m == log[i]
        key == Key(m.channel_id, m.payload.data.provider_message_id)
    IN  IF m.payload.prev_seq = LinkOf(known, key)
        THEN [known EXCEPT !.records =
                @ \cup {<<key, m.payload.timestamps.event_ms>>}]
        ELSE Refuse(known)

(* One message, as the scan or as the live poll takes it: live, only the    *)
(* requests count, the rest was marked when it was published.              *)
ProcessMessage(known, i, live) ==
    IF ~ParsesMessage(log[i]) THEN Refuse(known)
    ELSE IF log[i].channel_id \notin indexed THEN known
    ELSE IF ~RolesValid(log[i]) THEN Refuse(known)
    ELSE CASE log[i].payload.kind = "send.request" -> AddSendRequest(known, i)
           [] log[i].payload.kind = "send.result" ->
                IF live THEN known ELSE AddSendResult(known, i)
           [] log[i].payload.kind = "sync.record" ->
                IF live THEN known ELSE AddSyncRecord(known, i)

(* The marks after the first n messages, and after all.                    *)
Scanned[n \in 0 .. Len(log)] ==
    IF n = 0 THEN NoMarks
    ELSE IF Scanned[n - 1].refused THEN Scanned[n - 1]
    ELSE ProcessMessage(Scanned[n - 1], n, FALSE)

ScanHistory == Scanned[Len(log)]

-----------------------------------------------------------------------------
Init == StartupInit /\ log = <<>> /\ received = 0 /\ marks = NoMarks

(* BOUND: the file is edited before anything is written.                   *)
Startup ==
    /\ StartupNext /\ (edits' # edits => log = <<>>)
    /\ UNCHANGED path

(* The worker acts on what it has read; a stop ends that.                  *)
Working == phase = "running" /\ received = Len(log) /\ ~stop_event

(* BOUND: the further the file from the initial one, the shorter the log.  *)
Room == Len(log) + edits < MaxLog

Fails ==
    /\ phase' = "stopped" /\ marks' = NoMarks /\ received' = 0
    /\ UNCHANGED <<config, channels, edits, unchecked, indexed, stop_event, log>>

(* The worker is validated, scans its history and starts to work.          *)
Scan ==
    /\ Run
    /\ ~ScanHistory.refused
    /\ marks' = ScanHistory /\ received' = Len(log)
    /\ UNCHANGED log

ScanFails ==
    /\ phase = "validate" /\ unchecked = {}
    /\ ScanHistory.refused
    /\ Fails

(* The process ends: a failure elsewhere, a crash or a stop.               *)
Exit == phase = "running" /\ log # <<>> /\ Fails

(* A client publishes a message; a channel admits its members only, and the *)
(* worker's token is its own.                                              *)
Post(m) ==
    /\ Working /\ Room
    /\ m.principal # config.worker
    /\ m.channel_id \in DOMAIN channels
    /\ m.principal \in channels[m.channel_id].members
    /\ log' = Append(log, m)
    /\ UNCHANGED <<startup, received, marks>>

(* _process_live_message: only requests change the marks.                  *)
ProcessLiveMessage ==
    /\ phase = "running" /\ received < Len(log)
    /\ LET next == ProcessMessage(marks, received + 1, TRUE)
       IN  IF next.refused THEN Fails
           ELSE /\ marks' = next /\ received' = received + 1
                /\ UNCHANGED <<startup, log>>

(* Execute a request, and publish the result as the worker.                *)
ProcessOutboundTask(i, provider_message_id) ==
    /\ Working /\ Room /\ i \in marks.tasks
    /\ \A j \in marks.tasks : i <= j
    /\ LET m == log[i]
           req == [request_id |-> m.payload.request_id, prev_seq |-> i,
                   status |-> "SUCCESS", event_ms |-> Now,
                   provider_message_id |-> provider_message_id]
       IN  IF \/ SenderExternalUserId(m.channel_id, m.principal, "bot") = {}
              \/ m.payload.data.msg_type # "text"
              \/ ~m.payload.data.content.utf8
              \/ ~Truthy(provider_message_id) \/ ~EncodesSendResult(req)
           THEN Fails
           ELSE /\ log' = Append(log, Entry(m.channel_id, config.worker,
                                  <<m.principal>>, EncodeSendResult(req), TRUE))
                /\ marks' = Complete(marks, i, m.channel_id,
                                     provider_message_id, Len(log'))
                /\ UNCHANGED <<startup, received>>

(* The content of a record when the one of the message is refused as too    *)
(* large.                                                                  *)
Omitted == [source_principal |-> FALSE, utf8 |-> TRUE]

(* Publish an event as the user it came from.                              *)
PublishProviderEvent(event, content_raw) ==
    LET c == Found(ChannelForProviderSession(
                            <<event.provider, event.session_id>>))
        key == Key(c, event.provider_message_id)
        senders == PrincipalForExternalUser(c, event.provider,
                     event.sender_external_user_id, event.sender_identity_type)
        req == [provider_message_id |-> event.provider_message_id,
                msg_type |-> event.msg_type, content_raw |-> content_raw,
                event_ms |-> event.event_ms, ingested_ms |-> Now,
                prev_seq |-> LinkOf(marks, key)]
    IN  /\ ~ \E r \in marks.records : r[1] = key
        /\ \A t \in marks.tasks : log[t].channel_id # c
        /\ IF senders = {} \/ ~EncodesSyncRecord(req) THEN Fails
           ELSE \E principal \in senders :
                /\ log' = Append(log, Entry(c, principal, PeerList(c, principal),
                                            EncodeSyncRecord(req), TRUE))
                /\ marks' = [marks EXCEPT !.records =
                               @ \cup {<<key, event.event_ms>>}]
                /\ UNCHANGED <<startup, received>>

Provider == config.providers[1].name
AppId == config.providers[1].app_id
AllowedSessions == {e.session_id : e \in Entries}

Listed(m) == MessageToEvent(Provider, m.session, HistoryItem(m))
Pushed(m) == HandleMessageEvent(Provider, AppId, AllowedSessions,
                                PushedMessage(m))

(* A message is pushed, or found in the history of its session.            *)
Deliver(m) ==
    /\ Working /\ Room
    /\ \E event \in {Pushed(m)} \cup
                    (IF m.session \in AllowedSessions THEN {Listed(m)} ELSE {}) :
         /\ event # Ignored
         /\ IF event = Malformed THEN Fails
            ELSE \E content \in {event.content_raw, Omitted} :
                   PublishProviderEvent(event, content)

Next ==
    \/ Startup \/ Scan \/ ScanFails \/ Exit \/ ProcessLiveMessage
    \/ \E m \in Posts : Post(m)
    \/ \E i \in DOMAIN log, m \in Messages :
         m.sender_type = "app" /\ ProcessOutboundTask(i, m.id)
    \/ \E m \in Messages : Deliver(m)

Spec == Init /\ [][Next]_vars

-----------------------------------------------------------------------------
(***************************************************************************)
(* Properties.                                                             *)
(***************************************************************************)
TypeOK ==
    /\ StartupTypeOK
    /\ ~marks.refused
    /\ received \in 0 .. Len(log) /\ Len(log) <= MaxLog
    /\ marks.tasks \subseteq DOMAIN log
    /\ \A l \in marks.links : l[2] \in DOMAIN log
    /\ \A r \in marks.records : r[2] \in Nat

(* lark_openapi.py: a message the puller may see twice, in a page of the    *)
(* history and as a pushed event, is the same event both times: the same    *)
(* key, time, sender and content, or malformed both times.  Only then does  *)
(* the session's `inbound_seen` and the order of the two sources protect    *)
(* against a second record, and a restart find what the stream delivered.  *)
PathsAgree ==
    phase = "running" =>
        \A m \in Messages :
            m.session \in AllowedSessions => Listed(m) = Pushed(m)

(* What the worker writes is what it reads: a restart rebuilds from the log *)
(* the very marks the process set when it published (tasks answered, links  *)
(* of results, records and their times), whatever was published, by whom,   *)
(* in full or with its content omitted.  The exception is a log in which    *)
(* the content of a message holds the key source_principal.                *)
ReplaysAsMarked ==
    (/\ phase = "running" /\ received = Len(log)
     /\ \A i \in DOMAIN log : ~RejectSourcePrincipal(log[i].payload))
        => ScanHistory = marks

(* IM-PROTOCOL-SDK.md: the SDK "does not write `source_principal` into      *)
(* payload", and IM_PROTOCOL.md 120: such a payload is invalid.            *)
SourcePrincipalNotWritten ==
    \A i \in DOMAIN log :
        log[i].worker => ~RejectSourcePrincipal(log[i].payload)

=============================================================================
