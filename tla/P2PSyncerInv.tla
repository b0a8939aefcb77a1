---------------------------- MODULE P2PSyncerInv ----------------------------
(***************************************************************************)
(* The inductive invariant behind the safety of P2PSyncer: the worker's     *)
(* dictionaries are functions of the part of the log it has read, and the   *)
(* results in the log answer a prefix of the requests.                      *)
(***************************************************************************)
EXTENDS P2PSyncer

(* What each phase has in hand: messages to read, a task, a chat message.   *)
WorkInHand ==
    /\ phase \in {"scan", "ingest"} => snapshot <= Len(log)
    /\ phase \in {"send", "result"} => task # None
    /\ phase \in {"result", "record"} => message_id \in DOMAIN chat
    /\ \A n \in DOMAIN pending_events : pending_events[n] \in DOMAIN chat

TypeInv == TypeOK /\ WorkInHand

(* A scan knows the results it has replayed; a running worker knows all.    *)
KnownResult(i) == ResultAt(i) /\ (Running \/ i < next_seq)

Completed(r) == \E i \in DOMAIN log : KnownResult(i) /\ log[i].request_id = r

Busy == phase \in {"send", "result"}

(* How far the worker has read, and that no result lies beyond a scan.      *)
ReadBounds ==
    /\ phase = "down" => next_seq = 1
    /\ next_seq <= Len(log) + 1
    /\ phase = "scan" => /\ next_seq <= snapshot + 1
                         /\ \A i \in DOMAIN log : ResultAt(i) => i <= snapshot

(* canonical_requests_by_id holds the first request of each request_id read,*)
(* and every request read agrees with it.                                   *)
CanonicalIsFirst ==
    /\ \A r \in RequestIds : canonical_requests_by_id[r] # None =>
         LET s == canonical_requests_by_id[r].seq
         IN  /\ s < next_seq /\ FirstRequestAt(s)
             /\ log[s].request_id = r
             /\ canonical_requests_by_id[r] = TaskOf(s, log[s])
    /\ \A i \in 1 .. next_seq - 1 : RequestAt(i) =>
         /\ canonical_requests_by_id[log[i].request_id] # None
         /\ SameSendRequest(canonical_requests_by_id[log[i].request_id],
                            TaskOf(i, log[i]))

CompletedAreAnswered ==
    /\ \A r \in RequestIds : r \in completed_request_ids <=> Completed(r)
    /\ \A r \in RequestIds :
         terminal_results_by_id[r] # None => r \in completed_request_ids
    /\ \A r \in completed_request_ids : canonical_requests_by_id[r] # None

(* requests_by_id is what is canonical and not completed; each entry is in  *)
(* the heap or is the task being executed.                                  *)
PendingIsUnanswered ==
    /\ \A r \in RequestIds : requests_by_id[r] =
         IF r \in completed_request_ids THEN None
         ELSE canonical_requests_by_id[r]
    /\ \A r \in RequestIds : requests_by_id[r] # None =>
         \/ <<requests_by_id[r].seq, r>> \in pending_heap
         \/ Busy /\ task.request_id = r

(* The task being executed is the oldest pending request, and only its      *)
(* channel is blocked.                                                      *)
TaskIsOldest ==
    /\ ~Busy => /\ task = None
                /\ \A c \in Channels : blocked_by_channel[c] = None
    /\ Busy => /\ task # None
               /\ requests_by_id[task.request_id] = task
               /\ \A r \in RequestIds : requests_by_id[r] # None =>
                    task.seq <= requests_by_id[r].seq
               /\ \A c \in Channels : blocked_by_channel[c] =
                    IF c = task.channel_id THEN task.request_id ELSE None

(* A result answers the first request of its request_id ...                 *)
ResultsAnswerFirst ==
    \A i \in DOMAIN log : ResultAt(i) =>
        LET q == log[i].prev_seq
        IN  /\ q < i /\ FirstRequestAt(q)
            /\ log[q].request_id = log[i].request_id
            /\ log[q].channel_id = log[i].channel_id
            /\ log[i].recipients = {log[q].principal}

(* ... and every request before that one is answered too.                   *)
AnswersArePrefix ==
    \A i \in DOMAIN log : ResultAt(i) =>
        \A s \in 1 .. log[i].prev_seq - 1 :
            FirstRequestAt(s) => Answered(log[s].request_id)

(* The two groups the proof treats apart: facts about the log alone, which  *)
(* an exit keeps, and facts about the worker's memory, which it resets.     *)
LogInv == ResultsAnswerFirst /\ AnswersArePrefix /\ ResultsInRequestOrder

MemoryInv == /\ ReadBounds /\ CanonicalIsFirst /\ CompletedAreAnswered
             /\ PendingIsUnanswered /\ TaskIsOldest

AnswerInv == TypeInv /\ LogInv /\ MemoryInv

-----------------------------------------------------------------------------
(* The chat and the links.                                                 *)

(* A message the bot sent was sent once, for a request the worker has read  *)
(* and which a scan reads again before the worker acts.                    *)
SentAfterReading ==
    /\ \A i \in DOMAIN chat : chat[i].request_id # None =>
         \E q \in DOMAIN log :
             /\ FirstRequestAt(q)
             /\ log[q].request_id = chat[i].request_id
             /\ log[q].channel_id = chat[i].channel_id
             /\ Running => q < next_seq
             /\ phase = "scan" => q <= snapshot
    /\ \A i, j \in DOMAIN chat :
         (chat[i].request_id # None /\ chat[i].request_id = chat[j].request_id)
            => i = j

ResultsNameMessages ==
    /\ phase = "result" => SentFor(task.request_id, message_id)
    /\ \A i \in DOMAIN log : ResultAt(i) =>
         /\ log[i].status = "SUCCESS"
         /\ SentFor(log[i].request_id, log[i].provider_message_id)

KeyAt(i) == <<log[i].channel_id, log[i].provider_message_id>>

(* The links are those of the results the worker knows.                    *)
LinksAreResults ==
    /\ \A k \in InboundKey : send_result_by_provider_message[k] # 0 =>
         /\ ResultAt(send_result_by_provider_message[k])
         /\ KeyAt(send_result_by_provider_message[k]) = k
    /\ \A i \in DOMAIN log :
         KnownResult(i) => send_result_by_provider_message[KeyAt(i)] = i

ReadInRole == \A i \in 1 .. next_seq - 1 : ~RolesInvalid(log[i])

ChatInv == /\ AnswerInv /\ SentAfterReading /\ ResultsNameMessages
           /\ LinksAreResults /\ ReadInRole

-----------------------------------------------------------------------------
(* The records, when the worker alone writes them: each is remembered, and  *)
(* what is about to be recorded is none of them.                           *)
CallersRecordNothing == \A m \in CallerMessages : m.kind # "sync.record"

(* The channel of the message being recorded has no pending request.        *)
RecordReady ==
    phase = "record" => ~ChannelHasPending(chat[message_id].channel_id)

RecordsSeen ==
    /\ \A i \in DOMAIN log : RecordAt(i) =>
         /\ log[i].provider_message_id \in DOMAIN chat
         /\ chat[log[i].provider_message_id].channel_id = log[i].channel_id
         /\ phase = "scan" => i <= snapshot
         /\ Running \/ i < next_seq =>
              /\ KeyAt(i) \in inbound_seen
              /\ latest_event_ms_by_channel[log[i].channel_id] >= log[i].event_ms
    /\ \A k \in inbound_seen : \E i \in DOMAIN log : RecordAt(i) /\ KeyAt(i) = k
    /\ phase = "record" => KeyOf(message_id) \notin inbound_seen

RecordInv == /\ ChatInv /\ RecordReady
             /\ RecordsSeen /\ RecordsOnce /\ RecordsLinked

-----------------------------------------------------------------------------
(* The streams: one message per channel in flight, behind its cursor, and   *)
(* a resume point that is the newest message recorded.                      *)

InFlightOnce ==
    /\ ~Running => pending_events = <<>>
    /\ \A c \in Channels : cursor[c] <= Len(chat) + 1
    /\ \A n \in DOMAIN pending_events :
         pending_events[n] < cursor[chat[pending_events[n]].channel_id]
    /\ \A n, k \in DOMAIN pending_events :
         chat[pending_events[n]].channel_id = chat[pending_events[k]].channel_id
            => n = k
    /\ phase = "record" => \E n \in DOMAIN pending_events :
                              pending_events[n] = message_id

LatestRecorded ==
    /\ \A i \in DOMAIN log : RecordAt(i) =>
         log[i].event_ms = log[i].provider_message_id
    /\ \A c \in Channels : latest_event_ms_by_channel[c] # 0 =>
         \E i \in DOMAIN log :
            /\ RecordAt(i) /\ log[i].channel_id = c
            /\ log[i].provider_message_id = latest_event_ms_by_channel[c]

StreamInv == /\ RecordInv /\ InFlightOnce /\ LatestRecorded
             /\ NothingSkipped /\ RecordsInOrder

=============================================================================
