---------------------------- MODULE RuntimeState ----------------------------
(***************************************************************************)
(* The worker's in-memory state (im_p2p_syncer/state.py, RuntimeState) and  *)
(* the operations the history scan and the processor apply to it.  The      *)
(* state is lost when the process exits and is rebuilt from the OpenEvent   *)
(* log, so every operation here is also a step of the replay.               *)
(*                                                                         *)
(* A message read from the log is a record; its seq is its position in the  *)
(* log and is passed beside it.  An absent prev_seq, provider_message_id or *)
(* event_ms is 0.  A channel and its provider session determine each other  *)
(* (mapping.py), so an InboundKey is a pair <<channel, message id>>.        *)
(***************************************************************************)
EXTENDS Naturals

CONSTANTS
    Channels,       \* the mapped channel ids
    Principals,     \* every OpenEvent principal that may write
    RequestIds,     \* the request_id values callers use
    Contents,       \* msg_type and content of a request, as one value
    MessageIds,     \* provider message ids, numbered in provider order
    None            \* "no entry" in a dictionary

VARIABLES
    inbound_seen, completed_request_ids, canonical_requests_by_id,
    terminal_results_by_id, requests_by_id, pending_heap, blocked_by_channel,
    send_result_by_provider_message, latest_event_ms_by_channel

runtime == <<inbound_seen, completed_request_ids, canonical_requests_by_id,
             terminal_results_by_id, requests_by_id, pending_heap,
             blocked_by_channel, send_result_by_provider_message,
             latest_event_ms_by_channel>>

-----------------------------------------------------------------------------
(* Parsed messages and the records kept in the dictionaries.               *)

SendRequest == [kind: {"send.request"}, channel_id: Channels,
                principal: Principals, request_id: RequestIds,
                content: Contents]

SendResult == [kind: {"send.result"}, channel_id: Channels,
               principal: Principals, recipients: SUBSET Principals,
               request_id: RequestIds, prev_seq: Nat,
               status: {"SUCCESS", "FAILED"},
               provider_message_id: MessageIds \cup {0}]

SyncRecord == [kind: {"sync.record"}, channel_id: Channels,
               principal: Principals, recipients: SUBSET Principals,
               prev_seq: Nat, provider_message_id: MessageIds,
               event_ms: Nat]

Message == SendRequest \cup SendResult \cup SyncRecord

OutboundTask == [seq: Nat \ {0}, channel_id: Channels, principal: Principals,
                 request_id: RequestIds, content: Contents]

InboundKey == Channels \X MessageIds

ASSUME RuntimeAssumption ==
    /\ MessageIds \subseteq Nat \ {0}
    /\ None \notin RequestIds \cup Principals
    /\ None \notin OutboundTask \cup SendResult

RuntimeTypeOK ==
    /\ inbound_seen \subseteq InboundKey
    /\ completed_request_ids \subseteq RequestIds
    /\ canonical_requests_by_id \in [RequestIds -> OutboundTask \cup {None}]
    /\ terminal_results_by_id \in [RequestIds -> SendResult \cup {None}]
    /\ requests_by_id \in [RequestIds -> OutboundTask \cup {None}]
    /\ pending_heap \subseteq (Nat \ {0}) \X RequestIds
    /\ blocked_by_channel \in [Channels -> RequestIds \cup {None}]
    /\ send_result_by_provider_message \in [InboundKey -> Nat]
    /\ latest_event_ms_by_channel \in [Channels -> Nat]

-----------------------------------------------------------------------------
(* RuntimeState.__init__, and what is left of it after the process exits.  *)

RuntimeInit ==
    /\ inbound_seen = {}
    /\ completed_request_ids = {}
    /\ canonical_requests_by_id = [r \in RequestIds |-> None]
    /\ terminal_results_by_id = [r \in RequestIds |-> None]
    /\ requests_by_id = [r \in RequestIds |-> None]
    /\ pending_heap = {}
    /\ blocked_by_channel = [c \in Channels |-> None]
    /\ send_result_by_provider_message = [k \in InboundKey |-> 0]
    /\ latest_event_ms_by_channel = [c \in Channels |-> 0]

RuntimeLost ==
    /\ inbound_seen' = {}
    /\ completed_request_ids' = {}
    /\ canonical_requests_by_id' = [r \in RequestIds |-> None]
    /\ terminal_results_by_id' = [r \in RequestIds |-> None]
    /\ requests_by_id' = [r \in RequestIds |-> None]
    /\ pending_heap' = {}
    /\ blocked_by_channel' = [c \in Channels |-> None]
    /\ send_result_by_provider_message' = [k \in InboundKey |-> 0]
    /\ latest_event_ms_by_channel' = [c \in Channels |-> 0]

-----------------------------------------------------------------------------
(* send.request: the first message of a request_id is the canonical one; a  *)
(* later one must repeat it and is otherwise a conflict.                    *)

TaskOf(seq, m) ==
    [seq |-> seq, channel_id |-> m.channel_id, principal |-> m.principal,
     request_id |-> m.request_id, content |-> m.content]

SameSendRequest(left, right) ==
    /\ left.channel_id = right.channel_id
    /\ left.principal = right.principal
    /\ left.request_id = right.request_id
    /\ left.content = right.content

(* Mutant: conflicting requests are not noticed.                           *)
SendRequestConflictsNever(seq, m) == FALSE

SendRequestConflicts(seq, m) ==
    /\ canonical_requests_by_id[m.request_id] # None
    /\ ~SameSendRequest(canonical_requests_by_id[m.request_id], TaskOf(seq, m))

(* Mutant: a repeated request replaces the canonical one.                  *)
AddSendRequestLastWins(seq, m) ==
    LET r == m.request_id
        queued == r \notin completed_request_ids
    IN  /\ ~SendRequestConflicts(seq, m)
        /\ canonical_requests_by_id' =
             [canonical_requests_by_id EXCEPT ![r] = TaskOf(seq, m)]
        /\ requests_by_id' =
             IF queued THEN [requests_by_id EXCEPT ![r] = TaskOf(seq, m)]
                       ELSE requests_by_id
        /\ pending_heap' =
             IF queued THEN pending_heap \cup {<<seq, r>>} ELSE pending_heap
        /\ UNCHANGED <<inbound_seen, completed_request_ids,
                       terminal_results_by_id, blocked_by_channel,
                       send_result_by_provider_message,
                       latest_event_ms_by_channel>>

AddSendRequest(seq, m) ==
    LET r == m.request_id
        new == canonical_requests_by_id[r] = None
        queued == new /\ r \notin completed_request_ids
    IN  /\ ~SendRequestConflicts(seq, m)
        /\ canonical_requests_by_id' =
             IF new THEN [canonical_requests_by_id EXCEPT ![r] = TaskOf(seq, m)]
                    ELSE canonical_requests_by_id
        /\ requests_by_id' =
             IF queued THEN [requests_by_id EXCEPT ![r] = TaskOf(seq, m)]
                       ELSE requests_by_id
        /\ pending_heap' =
             IF queued THEN pending_heap \cup {<<seq, r>>} ELSE pending_heap
        /\ UNCHANGED <<inbound_seen, completed_request_ids,
                       terminal_results_by_id, blocked_by_channel,
                       send_result_by_provider_message,
                       latest_event_ms_by_channel>>

-----------------------------------------------------------------------------
(* next_pending_task pops the heap in seq order.  Entries of finished       *)
(* requests are dropped; entries of a channel blocked by another request    *)
(* are deferred and pushed back.                                            *)

Live(e) ==
    /\ requests_by_id[e[2]] # None
    /\ requests_by_id[e[2]].seq = e[1]
    /\ e[2] \notin completed_request_ids

Ready(e) ==
    /\ Live(e)
    /\ blocked_by_channel[requests_by_id[e[2]].channel_id] \in {None, e[2]}

(* Mutant: any ready entry is taken, not the one with the smallest seq.    *)
FirstReadyAny(e) == e \in pending_heap /\ Ready(e)

FirstReady(e) ==
    /\ e \in pending_heap
    /\ Ready(e)
    /\ \A f \in pending_heap : Ready(f) => e[1] <= f[1]

HasReadyTask == \E e \in pending_heap : Ready(e)

NextPendingTask(e) ==
    /\ FirstReady(e)
    /\ pending_heap' = {f \in pending_heap : f[1] > e[1] \/ (Live(f) /\ f # e)}
    /\ blocked_by_channel' =
         [blocked_by_channel EXCEPT ![requests_by_id[e[2]].channel_id] = e[2]]
    /\ UNCHANGED <<inbound_seen, completed_request_ids,
                   canonical_requests_by_id, terminal_results_by_id,
                   requests_by_id, send_result_by_provider_message,
                   latest_event_ms_by_channel>>

NoPendingTask ==
    /\ ~HasReadyTask
    /\ pending_heap' = {f \in pending_heap : Live(f)}
    /\ UNCHANGED <<inbound_seen, completed_request_ids,
                   canonical_requests_by_id, terminal_results_by_id,
                   requests_by_id, blocked_by_channel,
                   send_result_by_provider_message, latest_event_ms_by_channel>>

(* Mutant: only a request being executed holds back its channel.           *)
ChannelHasPendingBlocked(c) == blocked_by_channel[c] # None

ChannelHasPending(c) ==
    \E r \in RequestIds : /\ requests_by_id[r] # None
                          /\ requests_by_id[r].channel_id = c

(* Mutant: a finished request leaves its channel blocked.                  *)
UnblockedNever(c, r) == blocked_by_channel

Unblocked(c, r) ==
    IF blocked_by_channel[c] = r THEN [blocked_by_channel EXCEPT ![c] = None]
                                 ELSE blocked_by_channel

-----------------------------------------------------------------------------
(* send.result: replayed from history (AddSendResult), or written by this   *)
(* process (MarkSendResultSuccess).                                         *)

SendResultConflicts(m) ==
    LET known == terminal_results_by_id[m.request_id]
        task == canonical_requests_by_id[m.request_id]
    IN  IF known # None THEN known # m
        ELSE ~ /\ task # None
               /\ m.prev_seq = task.seq
               /\ m.channel_id = task.channel_id
               /\ m.recipients = {task.principal}

(* Mutant: replay completes the request but does not rebuild the link.      *)
AddSendResultNoLink(seq, m) ==
    LET r == m.request_id
    IN  /\ ~SendResultConflicts(m)
        /\ IF terminal_results_by_id[r] # None THEN UNCHANGED runtime
           ELSE /\ completed_request_ids' = completed_request_ids \cup {r}
                /\ terminal_results_by_id' =
                     [terminal_results_by_id EXCEPT ![r] = m]
                /\ requests_by_id' = [requests_by_id EXCEPT ![r] = None]
                /\ blocked_by_channel' = Unblocked(m.channel_id, r)
                /\ UNCHANGED <<inbound_seen, canonical_requests_by_id,
                               pending_heap, send_result_by_provider_message,
                               latest_event_ms_by_channel>>

AddSendResult(seq, m) ==
    LET r == m.request_id
        key == <<m.channel_id, m.provider_message_id>>
    IN  /\ ~SendResultConflicts(m)
        /\ IF terminal_results_by_id[r] # None THEN UNCHANGED runtime
           ELSE /\ completed_request_ids' = completed_request_ids \cup {r}
                /\ terminal_results_by_id' =
                     [terminal_results_by_id EXCEPT ![r] = m]
                /\ requests_by_id' = [requests_by_id EXCEPT ![r] = None]
                /\ blocked_by_channel' = Unblocked(m.channel_id, r)
                /\ send_result_by_provider_message' =
                     IF m.status = "SUCCESS" /\ m.provider_message_id # 0
                     THEN [send_result_by_provider_message EXCEPT ![key] = seq]
                     ELSE send_result_by_provider_message
                /\ UNCHANGED <<inbound_seen, canonical_requests_by_id,
                               pending_heap, latest_event_ms_by_channel>>

(* Mutants: the link for the echo, or the completion mark, is forgotten.   *)
MarkSendResultSuccessNoLink(task, provider_message_id, seq) ==
    /\ completed_request_ids' = completed_request_ids \cup {task.request_id}
    /\ requests_by_id' = [requests_by_id EXCEPT ![task.request_id] = None]
    /\ blocked_by_channel' = Unblocked(task.channel_id, task.request_id)
    /\ UNCHANGED <<inbound_seen, canonical_requests_by_id,
                   terminal_results_by_id, pending_heap,
                   send_result_by_provider_message,
                   latest_event_ms_by_channel>>

MarkSendResultSuccessNotCompleted(task, provider_message_id, seq) ==
    /\ requests_by_id' = [requests_by_id EXCEPT ![task.request_id] = None]
    /\ blocked_by_channel' = Unblocked(task.channel_id, task.request_id)
    /\ send_result_by_provider_message' =
         [send_result_by_provider_message EXCEPT
            ![<<task.channel_id, provider_message_id>>] = seq]
    /\ UNCHANGED <<inbound_seen, completed_request_ids,
                   canonical_requests_by_id, terminal_results_by_id,
                   pending_heap, latest_event_ms_by_channel>>

MarkSendResultSuccess(task, provider_message_id, seq) ==
    /\ completed_request_ids' = completed_request_ids \cup {task.request_id}
    /\ requests_by_id' = [requests_by_id EXCEPT ![task.request_id] = None]
    /\ blocked_by_channel' = Unblocked(task.channel_id, task.request_id)
    /\ send_result_by_provider_message' =
         [send_result_by_provider_message EXCEPT
            ![<<task.channel_id, provider_message_id>>] = seq]
    /\ UNCHANGED <<inbound_seen, canonical_requests_by_id,
                   terminal_results_by_id, pending_heap,
                   latest_event_ms_by_channel>>

-----------------------------------------------------------------------------
(* sync.record: replayed from history (AddSyncRecord), or written by this   *)
(* process (MarkSyncRecord).                                                *)

SyncRecordConflicts(m) ==
    m.prev_seq # send_result_by_provider_message
                   [<<m.channel_id, m.provider_message_id>>]

(* Mutant: the record is not remembered as seen.                            *)
MarkSyncRecordUnseen(key, c, event_ms) ==
    /\ latest_event_ms_by_channel' =
         [latest_event_ms_by_channel EXCEPT
            ![c] = IF event_ms > @ THEN event_ms ELSE @]
    /\ UNCHANGED <<inbound_seen, completed_request_ids,
                   canonical_requests_by_id, terminal_results_by_id,
                   requests_by_id, pending_heap, blocked_by_channel,
                   send_result_by_provider_message>>

MarkSyncRecord(key, c, event_ms) ==
    /\ inbound_seen' = inbound_seen \cup {key}
    /\ latest_event_ms_by_channel' =
         [latest_event_ms_by_channel EXCEPT
            ![c] = IF event_ms > @ THEN event_ms ELSE @]
    /\ UNCHANGED <<completed_request_ids, canonical_requests_by_id,
                   terminal_results_by_id, requests_by_id, pending_heap,
                   blocked_by_channel, send_result_by_provider_message>>

AddSyncRecord(m) ==
    /\ ~SyncRecordConflicts(m)
    /\ MarkSyncRecord(<<m.channel_id, m.provider_message_id>>,
                      m.channel_id, m.event_ms)

-----------------------------------------------------------------------------
(* The operation the scan applies to a message, by its kind.               *)

HistoryConflicts(seq, m) ==
    \/ m.kind = "send.request" /\ SendRequestConflicts(seq, m)
    \/ m.kind = "send.result" /\ SendResultConflicts(m)
    \/ m.kind = "sync.record" /\ SyncRecordConflicts(m)

ReplayMessage(seq, m) ==
    \/ m.kind = "send.request" /\ AddSendRequest(seq, m)
    \/ m.kind = "send.result" /\ AddSendResult(seq, m)
    \/ m.kind = "sync.record" /\ AddSyncRecord(m)

=============================================================================
