----------------------------- MODULE P2PSyncer -----------------------------
(***************************************************************************)
(* The im_p2p_syncer worker between two histories: the OpenEvent log, where *)
(* business callers write send.request, and the provider chat, where users  *)
(* post and the worker's bot sends.  The worker (syncer.py, loop.py) is one *)
(* thread: it rebuilds RuntimeState from the log, then repeats a round of   *)
(* polling the log, ingesting what it fetched and doing one unit of work.   *)
(* Callers, users and process exits interleave with each of its calls.      *)
(*                                                                         *)
(* Fetch pages and prefetching are abstracted to "one round ingests up to a *)
(* snapshot" (LivePoll.tla), a publish with its retries to "committed,      *)
(* committed without the worker learning it, or not committed"              *)
(* (ImPublish.tla), and the message puller to a stream of acknowledged      *)
(* messages per session (ProviderMessagePuller.tla).                        *)
(***************************************************************************)
EXTENDS RuntimeState, SequencesExt

CONSTANTS
    BotOf, UserOf,      \* [Channels -> Principals], the two mapping entries
    Worker,             \* worker.principal
    Strangers,          \* users who also post in sessions not theirs
    CallerMessages,     \* what other principals may write to the channels
    Refused,            \* contents the provider never accepts
    PendingEventLimit,  \* processor._pending_event_limit
    HistoryOverlap,     \* sync.history_overlap_ms
    HistoryLookback,    \* sync.history_lookback_ms
    MaxCallerMessages,  \* BOUND on messages callers write
    MaxUserPosts,       \* BOUND on messages users post
    MaxFaults           \* BOUND on exits and lost answers

VARIABLES
    log,             \* OpenEvent: the committed messages, seq = position
    chat,            \* provider: the messages sent, id = event_ms = position
    faults,          \* faults so far
    phase,           \* the call the worker is in, "down" when not running
    next_seq,        \* next message to replay or ingest
    snapshot,        \* scan_end_seq, or snapshot_last_seq of the round
    cursor,          \* puller: next chat position to deliver, per channel
    pending_events,  \* processor._pending_events, as message ids
    work_turn,       \* processor._work_turn
    task,            \* the outbound task being executed
    message_id       \* the message just sent, or being recorded

worker == <<phase, next_seq, snapshot, cursor, pending_events, work_turn,
            task, message_id>>
vars == <<runtime, log, chat, faults, worker>>

ASSUME P2PAssumption ==
    /\ BotOf \in [Channels -> Principals]
    /\ UserOf \in [Channels -> Principals]
    /\ \A c \in Channels : BotOf[c] # UserOf[c]
    /\ Worker \in Principals
    /\ \A c \in Channels : Worker \notin {BotOf[c], UserOf[c]}
    /\ Strangers \subseteq Principals
    /\ CallerMessages \subseteq Message
    /\ \A m \in CallerMessages : m.principal # Worker
    /\ Refused \subseteq Contents
    /\ PendingEventLimit \in Nat \ {0} /\ HistoryOverlap \in Nat
    /\ HistoryLookback \in Nat \ {0}
    /\ MaxCallerMessages \in Nat /\ MaxUserPosts \in Nat /\ MaxFaults \in Nat

(* The sender is an external user, named by the principal it is mapped to.  *)
ChatMessage == [channel_id: Channels, sender: Principals,
                request_id: RequestIds \cup {None}]

Phases == {"down", "scan", "poll", "ingest", "collect", "work", "send",
           "result", "record"}

TypeOK ==
    /\ RuntimeTypeOK
    /\ log \in Seq(Message)
    /\ chat \in Seq(ChatMessage) /\ DOMAIN chat \subseteq MessageIds
    /\ faults \in Nat
    /\ phase \in Phases
    /\ next_seq \in Nat \ {0}
    /\ snapshot \in Nat
    /\ cursor \in [Channels -> Nat \ {0}]
    /\ pending_events \in Seq(MessageIds)
    /\ work_turn \in {0, 1}
    /\ task \in OutboundTask \cup {None}
    /\ message_id \in MessageIds \cup {0}

Init ==
    /\ RuntimeInit
    /\ log = <<>> /\ chat = <<>> /\ faults = 0
    /\ phase = "down" /\ next_seq = 1 /\ snapshot = 0
    /\ cursor = [c \in Channels |-> 1]
    /\ pending_events = <<>> /\ work_turn = 0 /\ task = None /\ message_id = 0

-----------------------------------------------------------------------------
(* The environment.                                                        *)

CallerPublishes(m) ==
    /\ Cardinality({i \in DOMAIN log : log[i] \in CallerMessages})
         < MaxCallerMessages
    /\ log' = Append(log, m)
    /\ UNCHANGED <<runtime, chat, faults, worker>>

UserPosts(c, user) ==
    /\ user = UserOf[c] \/ user \in Strangers
    /\ Cardinality({i \in DOMAIN chat : chat[i].request_id = None})
         < MaxUserPosts
    /\ Len(chat) + 1 \in MessageIds
    /\ chat' = Append(chat, [channel_id |-> c, sender |-> user,
                             request_id |-> None])
    /\ UNCHANGED <<runtime, log, faults, worker>>

(* The process ends: a fatal error, a signal or a crash.  Only the log and  *)
(* the chat survive.                                                        *)
ExitWorker ==
    /\ RuntimeLost
    /\ phase' = "down" /\ next_seq' = 1 /\ snapshot' = 0
    /\ cursor' = [c \in Channels |-> 1]
    /\ pending_events' = <<>> /\ work_turn' = 0 /\ task' = None
    /\ message_id' = 0

Fault == faults < MaxFaults /\ faults' = faults + 1

(* A crash anywhere, a send that the provider rejects this time, or a       *)
(* publish that was not committed: nothing reached the other side.          *)
Crash ==
    /\ phase # "down"
    /\ Fault
    /\ ExitWorker
    /\ UNCHANGED <<log, chat>>

-----------------------------------------------------------------------------
(* Startup: _scan_history replays the log up to the max_seq it read first.  *)

OtherParticipant(c, p) == {BotOf[c], UserOf[c]} \ {p}

RolesInvalid(m) ==
    \/ /\ m.kind = "sync.record"
       /\ \/ m.principal \notin {BotOf[m.channel_id], UserOf[m.channel_id]}
          \/ m.recipients # OtherParticipant(m.channel_id, m.principal)
    \/ m.kind = "send.result" /\ m.principal # Worker

Start ==
    /\ phase = "down"
    /\ phase' = "scan"
    /\ snapshot' = Len(log)
    /\ UNCHANGED <<runtime, log, chat, faults, next_seq, cursor,
                   pending_events, work_turn, task, message_id>>

ScanMessage ==
    /\ phase = "scan" /\ next_seq <= snapshot
    /\ ~RolesInvalid(log[next_seq])
    /\ ReplayMessage(next_seq, log[next_seq])
    /\ next_seq' = next_seq + 1
    /\ UNCHANGED <<log, chat, faults, phase, snapshot, cursor,
                   pending_events, work_turn, task, message_id>>

ScanConflict ==
    /\ phase = "scan" /\ next_seq <= snapshot
    /\ \/ RolesInvalid(log[next_seq])
       \/ HistoryConflicts(next_seq, log[next_seq])
    /\ ExitWorker
    /\ UNCHANGED <<log, chat, faults>>

(* The stream of a session resumes an overlap before its newest recorded    *)
(* event; with no record it looks back a fixed time from now.               *)
(* Mutants: the window is not cut off at its start; a channel without a     *)
(* record begins with what is posted from now on.                           *)
ResumeAtUncut(c) == latest_event_ms_by_channel[c] - HistoryOverlap
ResumeAtNow(c) ==
    IF latest_event_ms_by_channel[c] = 0 THEN Len(chat) + 1
    ELSE latest_event_ms_by_channel[c]

ResumeAt(c) ==
    LET latest == latest_event_ms_by_channel[c]
        start == IF latest = 0 THEN Len(chat) + 1 - HistoryLookback
                               ELSE latest - HistoryOverlap
    IN  IF start > 1 THEN start ELSE 1

StartPullers ==
    /\ phase = "scan" /\ next_seq > snapshot
    /\ phase' = "poll"
    /\ cursor' = [c \in Channels |-> ResumeAt(c)]
    /\ UNCHANGED <<runtime, log, chat, faults, next_seq, snapshot,
                   pending_events, work_turn, task, message_id>>

-----------------------------------------------------------------------------
(* A polling round: the snapshot is the end of the log, or an earlier one   *)
(* when the previous round prefetched messages beyond its own snapshot.     *)

Poll ==
    /\ phase = "poll"
    /\ \E last_seq \in next_seq .. Len(log) \cup {Len(log)} :
          snapshot' = last_seq
    /\ phase' = "ingest"
    /\ UNCHANGED <<runtime, log, chat, faults, next_seq, cursor,
                   pending_events, work_turn, task, message_id>>

LiveConflicts(seq, m) ==
    \/ RolesInvalid(m)
    \/ m.kind = "send.request" /\ SendRequestConflicts(seq, m)

IngestMessage ==
    /\ phase = "ingest" /\ next_seq <= snapshot
    /\ ~LiveConflicts(next_seq, log[next_seq])
    /\ IF log[next_seq].kind = "send.request"
       THEN AddSendRequest(next_seq, log[next_seq])
       ELSE UNCHANGED runtime
    /\ next_seq' = next_seq + 1
    /\ UNCHANGED <<log, chat, faults, phase, snapshot, cursor,
                   pending_events, work_turn, task, message_id>>

IngestConflict ==
    /\ phase = "ingest" /\ next_seq <= snapshot
    /\ LiveConflicts(next_seq, log[next_seq])
    /\ ExitWorker
    /\ UNCHANGED <<log, chat, faults>>

EndIngest ==
    /\ phase = "ingest" /\ next_seq > snapshot
    /\ phase' = "collect"
    /\ UNCHANGED <<runtime, log, chat, faults, next_seq, snapshot, cursor,
                   pending_events, work_turn, task, message_id>>

-----------------------------------------------------------------------------
(* tick: take at most one message from the stream, then do one unit of      *)
(* outbound or provider work, alternating between the two.                  *)

InFlight(c) == \E i \in Range(pending_events) : chat[i].channel_id = c

(* The oldest message the stream has not delivered yet, or any it delivers  *)
(* again: an overlap, a reconnection, a live event seen in history as well. *)
NextMessage(c, i) ==
    /\ i >= cursor[c] /\ chat[i].channel_id = c
    /\ \A j \in cursor[c] .. i - 1 : chat[j].channel_id # c

CollectMessage(c) ==
    /\ phase = "collect"
    /\ Len(pending_events) < PendingEventLimit /\ ~InFlight(c)
    /\ \E i \in DOMAIN chat :
         /\ NextMessage(c, i)
         /\ pending_events' = Append(pending_events, i)
         /\ cursor' = [cursor EXCEPT ![c] = i + 1]
    /\ phase' = "work"
    /\ UNCHANGED <<runtime, log, chat, faults, next_seq, snapshot, work_turn,
                   task, message_id>>

CollectAgain(c) ==
    /\ phase = "collect"
    /\ Len(pending_events) < PendingEventLimit /\ ~InFlight(c)
    /\ \E i \in DOMAIN chat :
         /\ i < cursor[c] /\ chat[i].channel_id = c
         /\ pending_events' = Append(pending_events, i)
    /\ phase' = "work"
    /\ UNCHANGED <<runtime, log, chat, faults, next_seq, snapshot, cursor,
                   work_turn, task, message_id>>

CollectNothing ==
    /\ phase = "collect"
    /\ phase' = "work"
    /\ UNCHANGED <<runtime, log, chat, faults, next_seq, snapshot, cursor,
                   pending_events, work_turn, task, message_id>>

(* The first pending event whose channel has no unfinished request.        *)
FirstEvent(n) ==
    /\ n \in DOMAIN pending_events
    /\ ~ChannelHasPending(chat[pending_events[n]].channel_id)
    /\ \A k \in 1 .. n - 1 :
         ChannelHasPending(chat[pending_events[k]].channel_id)

HasEvent == \E n \in DOMAIN pending_events : FirstEvent(n)

TakeTask ==
    /\ phase = "work"
    /\ work_turn = 0 \/ ~HasEvent
    /\ \E e \in pending_heap :
         /\ NextPendingTask(e)
         /\ task' = requests_by_id[e[2]]
    /\ task'.principal = BotOf[task'.channel_id]
    /\ phase' = "send"
    /\ work_turn' = 1
    /\ UNCHANGED <<log, chat, faults, next_seq, snapshot, cursor,
                   pending_events, message_id>>

(* send.request principal has no bot mapping: fatal.                       *)
TakeUnmappedTask ==
    /\ phase = "work"
    /\ work_turn = 0 \/ ~HasEvent
    /\ \E e \in pending_heap :
         /\ FirstReady(e)
         /\ requests_by_id[e[2]].principal
              # BotOf[requests_by_id[e[2]].channel_id]
    /\ ExitWorker
    /\ UNCHANGED <<log, chat, faults>>

KeyOf(i) == <<chat[i].channel_id, i>>

(* principal_for_external_user: only the two participants of the channel.   *)
SenderMapped(i) == chat[i].sender \in {BotOf[chat[i].channel_id],
                                       UserOf[chat[i].channel_id]}

(* Mutant: an event already recorded is skipped but never acknowledged.    *)
TakeEventUnacknowledged ==
    /\ phase = "work"
    /\ work_turn = 1 \/ ~HasReadyTask
    /\ IF work_turn = 1 THEN UNCHANGED runtime ELSE NoPendingTask
    /\ \E n \in DOMAIN pending_events :
         /\ FirstEvent(n)
         /\ IF KeyOf(pending_events[n]) \in inbound_seen
            THEN /\ phase' = "poll"
                 /\ UNCHANGED message_id
            ELSE /\ SenderMapped(pending_events[n])
                 /\ message_id' = pending_events[n]
                 /\ phase' = "record"
    /\ work_turn' = 0
    /\ UNCHANGED <<log, chat, faults, next_seq, snapshot, cursor,
                   pending_events, task>>

TakeEvent ==
    /\ phase = "work"
    /\ work_turn = 1 \/ ~HasReadyTask
    /\ IF work_turn = 1 THEN UNCHANGED runtime ELSE NoPendingTask
    /\ \E n \in DOMAIN pending_events :
         /\ FirstEvent(n)
         /\ IF KeyOf(pending_events[n]) \in inbound_seen
            THEN /\ pending_events' = RemoveAt(pending_events, n)
                 /\ phase' = "poll"
                 /\ UNCHANGED message_id
            ELSE /\ SenderMapped(pending_events[n])
                 /\ message_id' = pending_events[n]
                 /\ phase' = "record"
                 /\ UNCHANGED pending_events
    /\ work_turn' = 0
    /\ UNCHANGED <<log, chat, faults, next_seq, snapshot, cursor, task>>

(* Mutant: a message nobody is mapped to is acknowledged and dropped.      *)
TakeUnmappedEventSkips ==
    /\ phase = "work"
    /\ work_turn = 1 \/ ~HasReadyTask
    /\ \E n \in DOMAIN pending_events :
         /\ FirstEvent(n) /\ ~SenderMapped(pending_events[n])
         /\ pending_events' = RemoveAt(pending_events, n)
    /\ phase' = "poll" /\ work_turn' = 0
    /\ UNCHANGED <<runtime, log, chat, faults, next_seq, snapshot, cursor,
                   task, message_id>>

(* The sender of the provider message has no mapping in its channel: fatal. *)
TakeUnmappedEvent ==
    /\ phase = "work"
    /\ work_turn = 1 \/ ~HasReadyTask
    /\ \E n \in DOMAIN pending_events :
         /\ FirstEvent(n)
         /\ KeyOf(pending_events[n]) \notin inbound_seen
         /\ ~SenderMapped(pending_events[n])
    /\ ExitWorker
    /\ UNCHANGED <<log, chat, faults>>

NothingToDo ==
    /\ phase = "work"
    /\ ~HasEvent
    /\ NoPendingTask
    /\ phase' = "poll"
    /\ UNCHANGED <<log, chat, faults, next_seq, snapshot, cursor,
                   pending_events, work_turn, task, message_id>>

-----------------------------------------------------------------------------
(* Outbound: send with the request_id as the idempotency key, then publish  *)
(* the send.result.                                                         *)

SentFor(r, i) == i \in DOMAIN chat /\ chat[i].request_id = r

(* Mutant: each attempt to send has a uuid of its own.                     *)
AcceptSendAnew ==
    /\ task.content \notin Refused /\ Len(chat) + 1 \in MessageIds
    /\ chat' = Append(chat, [channel_id |-> task.channel_id,
                             sender |-> task.principal,
                             request_id |-> task.request_id])

(* The uuid of a message is a function of the request_id, and the provider   *)
(* sends one message per uuid.                                             *)
AcceptSend ==
    /\ task.content \notin Refused
    /\ IF \E i \in DOMAIN chat : SentFor(task.request_id, i) THEN chat' = chat
       ELSE /\ Len(chat) + 1 \in MessageIds
            /\ chat' = Append(chat, [channel_id |-> task.channel_id,
                                     sender |-> task.principal,
                                     request_id |-> task.request_id])

SendMessage ==
    /\ phase = "send"
    /\ AcceptSend
    /\ message_id' = CHOOSE i \in DOMAIN chat' :
                        chat'[i].request_id = task.request_id
    /\ phase' = "result"
    /\ UNCHANGED <<runtime, log, faults, next_seq, snapshot, cursor,
                   pending_events, work_turn, task>>

(* Not a text, or content for which the provider answers with an error or   *)
(* without a message id: fatal, and met again after every restart.          *)
SendRefused ==
    /\ phase = "send" /\ task.content \in Refused
    /\ ExitWorker
    /\ UNCHANGED <<log, chat, faults>>

(* The provider accepted the message but its answer was lost: fatal.       *)
SendUnanswered ==
    /\ phase = "send"
    /\ Fault
    /\ AcceptSend
    /\ ExitWorker
    /\ UNCHANGED log

ResultMessage ==
    [kind |-> "send.result", channel_id |-> task.channel_id,
     principal |-> Worker, recipients |-> {task.principal},
     request_id |-> task.request_id, prev_seq |-> task.seq,
     status |-> "SUCCESS", provider_message_id |-> message_id]

PublishResult ==
    /\ phase = "result"
    /\ log' = Append(log, ResultMessage)
    /\ MarkSendResultSuccess(task, message_id, Len(log) + 1)
    /\ phase' = "poll" /\ task' = None /\ message_id' = 0
    /\ UNCHANGED <<chat, faults, next_seq, snapshot, cursor, pending_events,
                   work_turn>>

(* Committed, but the outcome stayed unknown to the worker: fatal.         *)
PublishResultUnknown ==
    /\ phase = "result"
    /\ Fault
    /\ log' = Append(log, ResultMessage)
    /\ ExitWorker
    /\ UNCHANGED chat

-----------------------------------------------------------------------------
(* Inbound: publish the sync.record as the mapped sender, linked to the     *)
(* send.result of the message if there is one, then acknowledge.            *)

RecordMessage ==
    LET c == chat[message_id].channel_id
    IN  [kind |-> "sync.record", channel_id |-> c,
         principal |-> chat[message_id].sender,
         recipients |-> OtherParticipant(c, chat[message_id].sender),
         prev_seq |-> send_result_by_provider_message[<<c, message_id>>],
         provider_message_id |-> message_id, event_ms |-> message_id]

PublishRecord ==
    /\ phase = "record"
    /\ log' = Append(log, RecordMessage)
    /\ MarkSyncRecord(KeyOf(message_id), chat[message_id].channel_id, message_id)
    /\ \E n \in DOMAIN pending_events :
         /\ pending_events[n] = message_id
         /\ pending_events' = RemoveAt(pending_events, n)
    /\ phase' = "poll" /\ message_id' = 0
    /\ UNCHANGED <<chat, faults, next_seq, snapshot, cursor, work_turn, task>>

PublishRecordUnknown ==
    /\ phase = "record"
    /\ Fault
    /\ log' = Append(log, RecordMessage)
    /\ ExitWorker
    /\ UNCHANGED chat

-----------------------------------------------------------------------------
Environment == \/ \E m \in CallerMessages : CallerPublishes(m)
               \/ \E c \in Channels, user \in Principals : UserPosts(c, user)

WorkerStep ==
    \/ Start \/ ScanMessage \/ ScanConflict \/ StartPullers
    \/ Poll \/ IngestMessage \/ IngestConflict \/ EndIngest
    \/ TakeTask \/ TakeUnmappedTask \/ TakeEvent \/ TakeUnmappedEvent
    \/ NothingToDo \/ SendMessage \/ SendRefused \/ PublishResult
    \/ PublishRecord

Stream == \/ \E c \in Channels : CollectMessage(c) \/ CollectAgain(c)
          \/ CollectNothing

FaultStep == Crash \/ SendUnanswered \/ PublishResultUnknown
             \/ PublishRecordUnknown

Next == Environment \/ WorkerStep \/ Stream \/ FaultStep

Spec == Init /\ [][Next]_vars

(* The thread keeps running, the process manager restarts it, and the       *)
(* stream does not withhold a session's next message for ever.              *)
Fairness ==
    /\ WF_vars(WorkerStep)
    /\ WF_vars(CollectNothing)
    /\ \A c \in Channels : SF_vars(CollectMessage(c))

FairSpec == Spec /\ Fairness

-----------------------------------------------------------------------------
(***************************************************************************)
(* Properties.                                                             *)
(***************************************************************************)
RequestAt(i) == i \in DOMAIN log /\ log[i].kind = "send.request"
ResultAt(i) == /\ i \in DOMAIN log /\ log[i].kind = "send.result"
               /\ log[i].principal = Worker
RecordAt(i) == i \in DOMAIN log /\ log[i].kind = "sync.record"

FirstRequestAt(i) ==
    /\ RequestAt(i)
    /\ \A j \in 1 .. i - 1 :
         RequestAt(j) => log[j].request_id # log[i].request_id

Answered(r) == \E i \in DOMAIN log : ResultAt(i) /\ log[i].request_id = r

Recorded(i) ==
    \E k \in DOMAIN log : RecordAt(k) /\ log[k].provider_message_id = i

Running == phase \notin {"down", "scan"}

(* Whatever exits and lost answers happen, the results the worker writes    *)
(* answer the requests in the order the requests were committed, one result *)
(* per request: next_pending_task takes the smallest unfinished seq, before *)
(* and after a restart.                                                     *)
ResultsInRequestOrder ==
    \A i, j \in DOMAIN log :
        (ResultAt(i) /\ ResultAt(j) /\ i < j)
            => log[i].prev_seq < log[j].prev_seq

(* A result names the first send.request of its request_id, in its channel  *)
(* and to its author, and the chat message that was sent for that request   *)
(* (_process_outbound_task after any number of resumed sends).              *)
ResultsNameTheirRequest ==
    \A i \in DOMAIN log : ResultAt(i) =>
        LET q == log[i].prev_seq
            p == log[i].provider_message_id
        IN  /\ q < i /\ FirstRequestAt(q)
            /\ log[q].request_id = log[i].request_id
            /\ log[q].channel_id = log[i].channel_id
            /\ log[i].recipients = {log[q].principal}
            /\ SentFor(log[q].request_id, p)
            /\ chat[p].channel_id = log[i].channel_id

(* A provider message becomes at most one sync.record although the stream   *)
(* redelivers it after restarts and reconnects (inbound_seen).              *)
RecordsOnce ==
    \A i, j \in DOMAIN log :
        (RecordAt(i) /\ RecordAt(j) /\ i # j)
            => log[i].provider_message_id # log[j].provider_message_id

(* The record of a message the bot sent for a request comes after the       *)
(* send.result of that request and is linked to it; other records carry no  *)
(* link.  A restart between the send and its result must not let the echo   *)
(* overtake the result, nor lose the link that replay rebuilds.             *)
RecordsLinked ==
    \A i \in DOMAIN log : RecordAt(i) =>
        LET m == chat[log[i].provider_message_id]
            p == log[i].prev_seq
        IN  /\ m.channel_id = log[i].channel_id
            /\ IF m.request_id = None THEN p = 0
               ELSE /\ p < i /\ ResultAt(p)
                    /\ log[p].request_id = m.request_id

(* The messages up to a position: each in a role its author has, and one    *)
(* request per request_id, which may be repeated.                           *)
Compliant(last_seq) ==
    \A i \in 1 .. last_seq :
        /\ ~RolesInvalid(log[i])
        /\ \A j \in 1 .. i - 1 :
             (RequestAt(i) /\ RequestAt(j)
                /\ log[i].request_id = log[j].request_id) => log[i] = log[j]

(* While callers comply, what the worker wrote never makes a later scan or  *)
(* a live round stop on a conflict: a restart always gets through.          *)
HistoryRestorable ==
    Compliant(Len(log)) =>
        /\ phase = "scan" /\ next_seq <= snapshot
             => ~HistoryConflicts(next_seq, log[next_seq])
        /\ phase = "ingest" /\ next_seq <= snapshot
             => ~LiveConflicts(next_seq, log[next_seq])

BeyondLookback(i) == i + HistoryLookback <= Len(chat)

(* The stream never moves past a message that is neither recorded nor still *)
(* waiting in _pending_events: acknowledge follows the publish, and a       *)
(* restart resumes no later than the newest recorded event.  Only messages  *)
(* older than the lookback can be missed.                                   *)
NothingSkipped ==
    Running => \A i \in DOMAIN chat :
        i < cursor[chat[i].channel_id]
            => i \in Range(pending_events) \/ Recorded(i) \/ BeyondLookback(i)

(* A message is recorded after every earlier message of its channel: no     *)
(* redelivery, restart or other channel reorders them, and a message of an  *)
(* unmapped sender, which ends every run that meets it, is never passed     *)
(* over (_publish_provider_event), unless it is older than the lookback.    *)
RecordsInOrder ==
    \A k \in DOMAIN log : RecordAt(k) =>
        \A i \in 1 .. log[k].provider_message_id - 1 :
            chat[i].channel_id = log[k].channel_id =>
                \/ BeyondLookback(i)
                \/ \E j \in 1 .. k - 1 :
                     RecordAt(j) /\ log[j].provider_message_id = i

(* The state the running worker has built up call by call is the one a scan *)
(* of the log would build: finished requests, recorded messages, links and  *)
(* resume points.  A restart therefore changes no decision.                 *)
StateMatchesLog ==
    Running =>
        /\ completed_request_ids = {r \in RequestIds : Answered(r)}
        /\ inbound_seen = {k \in InboundKey : k[2] \in DOMAIN chat
                             /\ k[1] = chat[k[2]].channel_id /\ Recorded(k[2])}
        /\ \A i \in DOMAIN log : ResultAt(i) =>
             send_result_by_provider_message
               [<<log[i].channel_id, log[i].provider_message_id>>] = i
        /\ \A i \in DOMAIN log : RecordAt(i) =>
             latest_event_ms_by_channel[log[i].channel_id] >= log[i].event_ms

(* No ingested request is forgotten: an unanswered one is in requests_by_id *)
(* and either queued or being executed, and a channel is blocked only while *)
(* its request is being executed.                                           *)
RequestsKept ==
    Running =>
        /\ \A i \in 1 .. next_seq - 1 :
             (FirstRequestAt(i) /\ ~Answered(log[i].request_id)) =>
                /\ requests_by_id[log[i].request_id] # None
                /\ \/ <<i, log[i].request_id>> \in pending_heap
                   \/ task # None /\ task.seq = i
        /\ \A c \in Channels : blocked_by_channel[c] # None =>
             task # None /\ task.request_id = blocked_by_channel[c]

(* Once a conflicting request, or a message in a role its author does not   *)
(* have, has been read, the worker acts on nothing any more, in this run    *)
(* and after every restart (IM-P2P-SYNCER.md section 6).                    *)
ConflictsStopWork ==
    phase \in {"send", "result", "record"} => Compliant(next_seq - 1)

(* A sync.record is committed only when every request of its channel the    *)
(* worker has ingested is answered (_process_next_provider_event).          *)
RecordsWait(seqs) ==
    (Len(log') > Len(log) /\ log'[Len(log')].kind = "sync.record") =>
        \A i \in seqs :
            (RequestAt(i) /\ log[i].channel_id = log'[Len(log')].channel_id)
                => Answered(log[i].request_id)

RecordsWaitForIngested == [][RecordsWait(1 .. next_seq - 1)]_vars

(* A request is answered once faults have stopped, if its channel is mapped *)
(* and callers comply, or else a request not younger than it is refused: the *)
(* oldest request is sent first, and a refused one is retried at every       *)
(* restart (IM-P2P-SYNCER.md section 2), so nothing behind it is sent.       *)
RequestsAnswered ==
    \A r \in RequestIds :
        (\E i \in DOMAIN log : RequestAt(i) /\ log[i].request_id = r)
            ~> \/ Answered(r)
               \/ \E i \in DOMAIN log : FirstRequestAt(i) /\ log[i].request_id = r
                    /\ \E j \in 1 .. i : RequestAt(j) /\ log[j].content \in Refused

(* A chat message of a mapped sender is recorded once faults have stopped,  *)
(* unless a request is refused, which holds up every channel.               *)
MessagesRecorded ==
    \A i \in MessageIds :
        (i \in DOMAIN chat)
            ~> \/ Recorded(i)
               \/ \E j \in DOMAIN log : RequestAt(j) /\ log[j].content \in Refused

=============================================================================
