-------------------------- MODULE P2PRecordProofs ---------------------------
(***************************************************************************)
(* Theorems about what P2PSyncer records: each record waits for the        *)
(* requests of its channel that were ingested before it, is written once,  *)
(* in order, and carries the right link; and the worker as a whole         *)
(* implements ChannelSync.                                                 *)
(***************************************************************************)
EXTENDS P2PSyncerProofs, P2PSyncerRefinement

LEMMA RecordReadyInit == Init => RecordReady
BY DEF Init, RecordReady

LEMMA RecordReadyNext == TypeInv /\ RecordReady /\ [Next]_vars => RecordReady'
<1> SUFFICES ASSUME TypeInv, RecordReady, [Next]_vars, phase' = "record"
             PROVE  ~ChannelHasPending(chat[message_id].channel_id)'
  BY DEF RecordReady
<1>1. CASE TakeEvent
  <2>1. PICK n \in DOMAIN pending_events :
          FirstEvent(n) /\ message_id' = pending_events[n]
    BY <1>1 DEF TakeEvent
  <2>2. chat' = chat /\ requests_by_id' = requests_by_id
    BY <1>1 DEF TakeEvent, NoPendingTask, runtime
  <2> QED
    BY <2>1, <2>2 DEF FirstEvent, ChannelHasPending
<1>2. CASE \E m \in CallerMessages : CallerPublishes(m)
  BY <1>2 DEF CallerPublishes, RecordReady, ChannelHasPending, runtime, worker
<1>3. CASE \E c \in Channels, user \in Principals : UserPosts(c, user)
  <2>1. /\ phase = "record" /\ message_id' = message_id
        /\ requests_by_id' = requests_by_id
    BY <1>3 DEF UserPosts, runtime, worker
  <2>2. message_id \in DOMAIN chat
    BY <2>1 DEF TypeInv, WorkInHand
  <2>3. chat'[message_id] = chat[message_id]
    <3>1. PICK msg : chat' = Append(chat, msg)
      BY <1>3 DEF UserPosts
    <3> QED
      BY <2>2, <3>1 DEF TypeInv, TypeOK
  <2> QED
    BY <2>1, <2>3 DEF RecordReady, ChannelHasPending
<1>4. CASE UNCHANGED vars
  BY <1>4 DEF vars, runtime, worker, RecordReady, ChannelHasPending
<1>5. CASE Crash \/ SendUnanswered \/ PublishResultUnknown
           \/ PublishRecordUnknown \/ ScanConflict \/ IngestConflict
           \/ TakeUnmappedTask \/ SendRefused \/ TakeUnmappedEvent
  BY <1>5 DEF Crash, SendUnanswered, PublishResultUnknown,
       PublishRecordUnknown, ScanConflict, IngestConflict, TakeUnmappedTask, SendRefused,
       TakeUnmappedEvent, ExitWorker
<1>6. CASE ScanMessage \/ IngestMessage
  BY <1>6 DEF ScanMessage, IngestMessage
<1>7. CASE Start \/ StartPullers \/ Poll \/ EndIngest \/ CollectNothing
           \/ TakeTask \/ NothingToDo \/ SendMessage \/ PublishResult
           \/ PublishRecord
           \/ \E c \in Channels : CollectMessage(c) \/ CollectAgain(c)
  BY <1>7 DEF Start, StartPullers, Poll, EndIngest, CollectNothing, TakeTask,
       NothingToDo, SendMessage, PublishResult, PublishRecord, CollectMessage,
       CollectAgain
<1> QED
  BY <1>1, <1>2, <1>3, <1>4, <1>5, <1>6, <1>7
  DEF Next, Environment, WorkerStep, Stream, FaultStep

(* A request that was ingested and is not pending has its result.           *)
LEMMA IngestedAnswered ==
    ASSUME AnswerInv, Running, NEW i \in 1 .. next_seq - 1, RequestAt(i),
           ~ChannelHasPending(log[i].channel_id)
    PROVE  Answered(log[i].request_id)
<1> DEFINE r == log[i].request_id
<1>1. /\ log \in Seq(Message) /\ CanonicalIsFirst /\ CompletedAreAnswered
      /\ PendingIsUnanswered
  BY DEF AnswerInv, TypeInv, TypeOK, MemoryInv
<1>2. r \in RequestIds
  BY <1>1, MessageKinds, ElementOfSeq DEF RequestAt, SendRequest
<1>3. /\ canonical_requests_by_id[r] # None
      /\ canonical_requests_by_id[r].channel_id = log[i].channel_id
  BY <1>1 DEF CanonicalIsFirst, SameSendRequest, TaskOf
<1>4. r \in completed_request_ids
  BY <1>1, <1>2, <1>3 DEF PendingIsUnanswered, ChannelHasPending
<1> QED
  BY <1>1, <1>2, <1>4 DEF CompletedAreAnswered, Completed, KnownResult, Answered

(* Callers that write no records: no sync.record is committed while a    *)
(* request of its channel that the worker has ingested lacks its result,    *)
(* however scans, sends, crashes and lost answers interleave.               *)
THEOREM RecordsWaited ==
    ASSUME CallersRecordNothing
    PROVE  Spec => RecordsWaitForIngested
<1>1. AnswerInv /\ RecordReady /\ [Next]_vars
        => [RecordsWait(1 .. next_seq - 1)]_vars
  <2> SUFFICES ASSUME AnswerInv, RecordReady, [Next]_vars,
                      Len(log') > Len(log),
                      log'[Len(log')].kind = "sync.record",
                      NEW i \in 1 .. next_seq - 1, RequestAt(i),
                      log[i].channel_id = log'[Len(log')].channel_id
               PROVE  Answered(log[i].request_id)
    BY DEF RecordsWait
  <2>1. log \in Seq(Message) /\ Len(log) \in Nat
    BY LenProperties DEF AnswerInv, TypeInv, TypeOK
  <2>2. CASE PublishRecord \/ PublishRecordUnknown
    <3>1. phase = "record" /\ log' = Append(log, RecordMessage)
      BY <2>2 DEF PublishRecord, PublishRecordUnknown
    <3>2. RecordMessage \in Message
      BY <3>1, RecordMessageType DEF AnswerInv, Message
    <3>3. log'[Len(log')] = RecordMessage
      BY <2>1, <3>1, <3>2, AppendProperties
    <3>4. log[i].channel_id = chat[message_id].channel_id
      BY <3>3 DEF RecordMessage
    <3> QED
      BY <3>1, <3>4, IngestedAnswered DEF RecordReady, Running
  <2>3. CASE PublishResult \/ PublishResultUnknown
    <3>1. phase = "result" /\ log' = Append(log, ResultMessage)
      BY <2>3 DEF PublishResult, PublishResultUnknown
    <3>2. ResultMessage \in Message /\ ResultMessage.kind = "send.result"
      BY <3>1, ResultMessageType DEF AnswerInv, Message, ResultMessage
    <3> QED
      BY <2>1, <3>1, <3>2, AppendProperties
  <2>4. ASSUME NEW m \in CallerMessages, CallerPublishes(m) PROVE FALSE
    <3>1. m \in Message /\ m.kind # "sync.record"
      BY P2PAssumption DEF CallersRecordNothing
    <3> QED
      BY <2>1, <2>4, <3>1, AppendProperties DEF CallerPublishes
  <2>5. log' # log
    BY <2>1
  <2>6. CASE UNCHANGED vars
    BY <2>5, <2>6 DEF vars
  <2> QED
    BY <2>2, <2>3, <2>4, <2>5, <2>6
    DEF Next, Environment, WorkerStep, Stream, FaultStep, UserPosts, Start,
        ScanMessage, ScanConflict, StartPullers, Poll, IngestMessage,
        IngestConflict, EndIngest, TakeTask, TakeUnmappedTask, SendRefused, TakeEvent,
        TakeUnmappedEvent, NothingToDo, SendMessage, CollectMessage, CollectAgain, CollectNothing,
        Crash, SendUnanswered
<1>2. AnswerInv => TypeInv
  BY DEF AnswerInv
<1> QED
  BY AnswerInvInit, AnswerInvNext, RecordReadyInit, RecordReadyNext, <1>1,
     <1>2, PTL DEF Spec, RecordsWaitForIngested

-----------------------------------------------------------------------------
(* The records, when the worker alone writes them.                         *)

ScanRecord == ScanMessage /\ log[next_seq].kind = "sync.record"

LEMMA SeenSame ==
    ASSUME [Next]_vars, ~Exits, ~ScanRecord, ~PublishRecord
    PROVE  UNCHANGED <<inbound_seen, latest_event_ms_by_channel>>
<1>1. CASE ScanMessage
  BY <1>1 DEF ScanMessage, ScanRecord, ReplayMessage, AddSendRequest,
              AddSendResult, runtime
<1>2. CASE IngestMessage
  BY <1>2 DEF IngestMessage, AddSendRequest, runtime
<1>3. CASE TakeTask \/ TakeEvent \/ NothingToDo \/ PublishResult
  BY <1>3 DEF TakeTask, TakeEvent, NothingToDo, PublishResult,
              NextPendingTask, NoPendingTask, MarkSendResultSuccess, runtime
<1>4. CASE ~(ScanMessage \/ IngestMessage \/ TakeTask \/ TakeEvent
               \/ NothingToDo \/ PublishResult)
  BY <1>4
  DEF Next, Environment, WorkerStep, Stream, FaultStep, Exits,
      CallerPublishes, UserPosts, Start, StartPullers, Poll, EndIngest,
      SendMessage, CollectMessage, CollectAgain, CollectNothing, vars, runtime
<1> QED
  BY <1>1, <1>2, <1>3, <1>4

(* A scan that is under way covers every record.                           *)
LEMMA ScanKept ==
    ASSUME TypeInv, [Next]_vars
    PROVE  /\ phase' = "scan" => phase \in {"down", "scan"}
           /\ \A q \in DOMAIN log : (phase = "scan" => q <= snapshot)
                => (phase' = "scan" => q <= snapshot')
<1>1. /\ Len(log) \in Nat /\ DOMAIN log = 1 .. Len(log)
  BY LenProperties DEF TypeInv, TypeOK
<1>2. CASE Start
  BY <1>1, <1>2 DEF Start
<1>3. CASE ScanMessage
  BY <1>3 DEF ScanMessage
<1>4. CASE Exits
  BY <1>4, ExitStep DEF ExitWorker
<1>5. CASE \/ \E m \in CallerMessages : CallerPublishes(m)
           \/ \E c \in Channels, user \in Principals : UserPosts(c, user)
           \/ UNCHANGED vars
  BY <1>5 DEF CallerPublishes, UserPosts, vars, worker
<1>6. CASE StartPullers \/ IngestMessage
           \/ Poll \/ EndIngest \/ CollectNothing \/ TakeTask \/ TakeEvent
           \/ NothingToDo \/ SendMessage \/ PublishResult \/ PublishRecord
           \/ \E c \in Channels : CollectMessage(c) \/ CollectAgain(c)
  BY <1>6 DEF StartPullers, IngestMessage, Poll, EndIngest, CollectNothing,
       TakeTask, TakeEvent, NothingToDo, SendMessage, PublishResult,
       PublishRecord, CollectMessage, CollectAgain
<1> QED
  BY <1>2, <1>3, <1>4, <1>5, <1>6
  DEF Next, Environment, WorkerStep, Stream, FaultStep, Exits

(* What a step reads of the log, unless it exits.                          *)
LEMMA ReadStep ==
    ASSUME TypeInv, [Next]_vars, ~Exits, NEW i \in DOMAIN log,
           phase = "scan" => i <= snapshot, Running' \/ i < next_seq'
    PROVE  Running \/ i < next_seq
           \/ (ScanMessage /\ i = next_seq)
<1>1. /\ Len(log) \in Nat /\ next_seq \in Nat /\ snapshot \in Nat /\ i \in Nat
  BY LenProperties DEF TypeInv, TypeOK
<1>2. CASE ScanMessage \/ IngestMessage
  BY <1>1, <1>2 DEF ScanMessage, IngestMessage, Running
<1>3. CASE Start \/ StartPullers
  BY <1>1, <1>3 DEF Start, StartPullers, Running
<1>4. CASE ~(ScanMessage \/ IngestMessage \/ Start \/ StartPullers)
  <2>1. next_seq' = next_seq /\ (Running' => Running)
    BY <1>4
    DEF Next, Environment, WorkerStep, Stream, FaultStep, Exits,
        CallerPublishes, UserPosts, Poll, EndIngest, TakeTask, TakeEvent,
        NothingToDo, SendMessage, PublishResult, PublishRecord,
        CollectMessage, CollectAgain, CollectNothing, vars, worker, Running
  <2> QED
    BY <2>1
<1> QED
  BY <1>2, <1>3, <1>4

(* A record in the log is there already or is the one being published.     *)
LEMMA RecordStep ==
    ASSUME CallersRecordNothing, TypeInv, [Next]_vars,
           NEW i \in DOMAIN log', RecordAt(i)'
    PROVE  \/ i \in DOMAIN log /\ RecordAt(i) /\ log'[i] = log[i]
           \/ /\ i \notin DOMAIN log /\ i = Len(log) + 1
              /\ phase = "record" /\ log'[i] = RecordMessage
              /\ PublishRecord \/ Exits
<1>1. CASE i \in DOMAIN log
  BY <1>1, LogKept
<1>2. CASE i \notin DOMAIN log
  <2>1. /\ i = Len(log) + 1 /\ Written(log'[i]) /\ log'[i] \in Message
        /\ log'[i].kind = "sync.record"
    BY <1>2, LogKept DEF RecordAt
  <2>2. phase = "record" /\ log'[i] = RecordMessage
    BY <2>1 DEF Written, ResultMessage, CallersRecordNothing
  <2>3. log' # log
    BY <1>2
  <2>4. ASSUME NEW m \in CallerMessages, CallerPublishes(m) PROVE FALSE
    <3>1. m \in Message /\ log' = Append(log, m)
      BY <2>4, P2PAssumption DEF CallerPublishes
    <3>2. log'[Len(log) + 1] = m
      BY <3>1, AppendKeeps DEF TypeInv, TypeOK
    <3> QED
      BY <2>1, <3>2 DEF CallersRecordNothing
  <2>5. PublishRecord \/ Exits
    BY <2>2, <2>3, <2>4
    DEF Next, Environment, WorkerStep, Stream, FaultStep, Exits, UserPosts,
        Start, ScanMessage, StartPullers, Poll, IngestMessage, EndIngest,
        TakeTask, TakeEvent, NothingToDo, SendMessage, PublishResult,
        CollectMessage, CollectAgain, CollectNothing, vars
  <2> QED
    BY <1>2, <2>1, <2>2, <2>5
<1> QED
  BY <1>1, <1>2

LEMMA MarkFacts ==
    ASSUME RuntimeTypeOK, NEW k, NEW c \in Channels, NEW e \in Nat,
           MarkSyncRecord(k, c, e)
    PROVE  /\ inbound_seen' = inbound_seen \cup {k}
           /\ latest_event_ms_by_channel'[c] >= e
           /\ \A d \in Channels : latest_event_ms_by_channel'[d]
                                    >= latest_event_ms_by_channel[d]
<1> DEFINE latest == latest_event_ms_by_channel
<1>1. latest \in [Channels -> Nat]
  BY DEF RuntimeTypeOK
<1>2. latest' = [latest EXCEPT ![c] = IF e > latest[c] THEN e ELSE latest[c]]
  BY DEF MarkSyncRecord
<1>3. latest'[c] = IF e > latest[c] THEN e ELSE latest[c]
  BY <1>1, <1>2
<1>4. \A d \in Channels : d # c => latest'[d] = latest[d]
  BY <1>1, <1>2
<1>5. \A d \in Channels : latest[d] \in Nat
  BY <1>1
<1>6. latest'[c] >= e /\ latest'[c] >= latest[c]
  BY <1>3, <1>5
<1>7. \A d \in Channels : latest'[d] >= latest[d]
  BY <1>4, <1>5, <1>6
<1> QED
  BY <1>6, <1>7 DEF MarkSyncRecord

(* What a step remembers, unless it exits.                                 *)
LEMMA SeenStep ==
    ASSUME TypeInv, [Next]_vars, ~Exits
    PROVE  /\ inbound_seen \subseteq inbound_seen'
           /\ \A d \in Channels : latest_event_ms_by_channel'[d]
                                    >= latest_event_ms_by_channel[d]
           /\ ScanRecord =>
                /\ inbound_seen' = inbound_seen \cup {KeyAt(next_seq)}
                /\ latest_event_ms_by_channel'[log[next_seq].channel_id]
                     >= log[next_seq].event_ms
                /\ RecordAt(next_seq)
           /\ PublishRecord =>
                /\ inbound_seen' = inbound_seen \cup {KeyOf(message_id)}
                /\ latest_event_ms_by_channel'[chat[message_id].channel_id]
                     >= message_id
           /\ ~ScanRecord /\ ~PublishRecord => inbound_seen' = inbound_seen
<1>1. RuntimeTypeOK
  BY DEF TypeInv, TypeOK
<1>2. CASE ScanRecord
  <2>1. /\ phase = "scan" /\ next_seq <= snapshot
        /\ log[next_seq].kind = "sync.record" /\ AddSyncRecord(log[next_seq])
    BY <1>2 DEF ScanRecord, ScanMessage, ReplayMessage
  <2>2. next_seq \in DOMAIN log /\ log[next_seq] \in Message
    BY <2>1 DEF TypeInv, TypeOK, WorkInHand
  <2>3. log[next_seq] \in SyncRecord
    BY <2>1, <2>2, MessageKinds
  <2>4. log[next_seq].channel_id \in Channels /\ log[next_seq].event_ms \in Nat
    BY <2>3 DEF SyncRecord
  <2>5. MarkSyncRecord(KeyAt(next_seq), log[next_seq].channel_id,
                       log[next_seq].event_ms)
    BY <2>1 DEF AddSyncRecord, KeyAt
  <2>6. ~PublishRecord
    BY <2>1 DEF PublishRecord
  <2> QED
    BY <1>1, <1>2, <2>1, <2>2, <2>4, <2>5, <2>6, MarkFacts DEF RecordAt
<1>3. CASE PublishRecord
  <2>1. phase = "record"
    BY <1>3 DEF PublishRecord
  <2>2. chat[message_id].channel_id \in Channels /\ message_id \in Nat
    BY <2>1, RecordMessageType
  <2>3. MarkSyncRecord(KeyOf(message_id), chat[message_id].channel_id,
                       message_id)
    BY <1>3 DEF PublishRecord
  <2>4. ~ScanRecord
    BY <2>1 DEF ScanRecord, ScanMessage
  <2> QED
    BY <1>1, <1>3, <2>2, <2>3, <2>4, MarkFacts
<1>4. CASE ~ScanRecord /\ ~PublishRecord
  <2>1. UNCHANGED <<inbound_seen, latest_event_ms_by_channel>>
    BY <1>4, SeenSame
  <2>2. \A d \in Channels : latest_event_ms_by_channel[d] \in Nat
    BY <1>1 DEF RuntimeTypeOK
  <2> QED
    BY <1>4, <2>1, <2>2
<1> QED
  BY <1>2, <1>3, <1>4

(* What is about to be recorded stays unrecorded until it is.              *)
LEMMA InHandNext ==
    ASSUME ChatInv, RecordsSeen, [Next]_vars, phase' = "record"
    PROVE  KeyOf(message_id)' \notin inbound_seen'
<1>0. TypeInv
  BY DEF ChatInv, AnswerInv
<1>1. CASE TakeEvent
  <2>1. PICK n \in DOMAIN pending_events :
          /\ KeyOf(pending_events[n]) \notin inbound_seen
          /\ message_id' = pending_events[n]
    BY <1>1 DEF TakeEvent
  <2>2. chat' = chat /\ inbound_seen' = inbound_seen
    BY <1>1 DEF TakeEvent, NoPendingTask, runtime
  <2> QED
    BY <2>1, <2>2 DEF KeyOf
<1>2. CASE ~TakeEvent
  <2>1. phase = "record" /\ UNCHANGED <<message_id, inbound_seen>>
    BY <1>2
    DEF Next, Environment, WorkerStep, Stream, FaultStep, CallerPublishes,
        UserPosts, Start, ScanMessage, ScanConflict, StartPullers, Poll,
        IngestMessage, IngestConflict, EndIngest, TakeTask,
        TakeUnmappedTask, SendRefused, TakeUnmappedEvent, NothingToDo, SendMessage,
        PublishResult, PublishRecord, CollectMessage, CollectAgain,
        CollectNothing, Crash, SendUnanswered, PublishResultUnknown,
        PublishRecordUnknown, ExitWorker, vars, worker, runtime
  <2>2. message_id \in DOMAIN chat
    BY <1>0, <2>1 DEF TypeInv, WorkInHand
  <2>3. chat'[message_id] = chat[message_id]
    BY <1>0, <2>2, ChatKept
  <2> QED
    BY <2>1, <2>3 DEF RecordsSeen, KeyOf
<1> QED
  BY <1>1, <1>2

LEMMA RecordsSeenNext ==
    ASSUME CallersRecordNothing, ChatInv, RecordsSeen, [Next]_vars
    PROVE  RecordsSeen'
<1>1. /\ TypeInv /\ TypeInv' /\ log \in Seq(Message)
      /\ Len(log) \in Nat /\ DOMAIN log = 1 .. Len(log)
  BY TypeInvNext, LenProperties DEF ChatInv, AnswerInv, TypeInv, TypeOK
<1>2. /\ \A i \in DOMAIN chat : i \in DOMAIN chat' /\ chat'[i] = chat[i]
      /\ \A i \in DOMAIN log : i \in DOMAIN log' /\ log'[i] = log[i]
           /\ (RecordAt(i)' <=> RecordAt(i)) /\ (KeyAt(i)' = KeyAt(i))
  BY <1>1, ChatKept, LogKept DEF KeyAt
<1>3. phase = "record" => message_id \in DOMAIN chat
  BY <1>1 DEF TypeInv, WorkInHand
<1>4. ASSUME NEW i \in DOMAIN log', RecordAt(i)'
      PROVE  /\ log'[i].provider_message_id \in DOMAIN chat'
             /\ chat'[log'[i].provider_message_id].channel_id
                  = log'[i].channel_id
             /\ phase' = "scan" => i <= snapshot'
  <2>1. CASE i \in DOMAIN log /\ RecordAt(i) /\ log'[i] = log[i]
    BY <1>1, <1>2, <2>1, ScanKept DEF RecordsSeen
  <2>2. CASE phase = "record" /\ log'[i] = RecordMessage
    BY <1>1, <1>2, <1>3, <2>2, ScanKept DEF RecordMessage
  <2> QED
    BY <1>1, <1>4, <2>1, <2>2, RecordStep
<1>5. ASSUME NEW i \in DOMAIN log', RecordAt(i)', Running' \/ i < next_seq'
      PROVE  /\ KeyAt(i)' \in inbound_seen'
             /\ latest_event_ms_by_channel'[log'[i].channel_id]
                  >= log'[i].event_ms
  <2>1. ~Exits
    <3>1. ~(i < 1)
      BY <1>1, LenProperties DEF TypeInv, TypeOK
    <3> QED
      BY <1>5, <3>1, ExitStep DEF ExitWorker, Running
  <2>2. CASE i \in DOMAIN log /\ RecordAt(i) /\ log'[i] = log[i]
    <3>1. /\ log[i] \in SyncRecord /\ log[i].channel_id \in Channels
          /\ log[i].event_ms \in Nat /\ KeyAt(i)' = KeyAt(i)
      BY <1>1, <1>2, <2>2, MessageKinds, ElementOfSeq DEF RecordAt, SyncRecord
    <3>2. phase = "scan" => i <= snapshot
      BY <2>2 DEF RecordsSeen
    <3>3. CASE Running \/ i < next_seq
      <4>1. /\ KeyAt(i) \in inbound_seen
            /\ latest_event_ms_by_channel[log[i].channel_id] >= log[i].event_ms
        BY <2>2, <3>3 DEF RecordsSeen
      <4>2. /\ latest_event_ms_by_channel[log[i].channel_id] \in Nat
            /\ latest_event_ms_by_channel'[log[i].channel_id] \in Nat
        BY <1>1, <3>1 DEF TypeInv, TypeOK, RuntimeTypeOK
      <4>3. /\ inbound_seen \subseteq inbound_seen'
            /\ latest_event_ms_by_channel'[log[i].channel_id]
                 >= latest_event_ms_by_channel[log[i].channel_id]
        BY <1>1, <2>1, <3>1, SeenStep
      <4> QED
        BY <2>2, <3>1, <4>1, <4>2, <4>3
    <3>4. CASE ScanMessage /\ i = next_seq
      <4>1. ScanRecord
        BY <2>2, <3>4 DEF ScanRecord, RecordAt
      <4>2. /\ inbound_seen' = inbound_seen \cup {KeyAt(next_seq)}
            /\ latest_event_ms_by_channel'[log[next_seq].channel_id]
                 >= log[next_seq].event_ms
        BY <1>1, <2>1, <4>1, SeenStep
      <4>3. KeyAt(i) = KeyAt(next_seq)
        BY <3>4 DEF KeyAt
      <4> QED
        BY <2>2, <3>1, <3>4, <4>2, <4>3
    <3> QED
      BY <1>1, <1>5, <2>1, <2>2, <3>2, <3>3, <3>4, ReadStep
  <2>3. CASE PublishRecord /\ log'[i] = RecordMessage
    <3>1. /\ inbound_seen' = inbound_seen \cup {KeyOf(message_id)}
          /\ latest_event_ms_by_channel'[chat[message_id].channel_id]
               >= message_id
      BY <1>1, <2>1, <2>3, SeenStep
    <3>2. KeyAt(i)' = KeyOf(message_id)
      BY <2>3 DEF KeyAt, KeyOf, RecordMessage
    <3> QED
      BY <2>3, <3>1, <3>2 DEF RecordMessage
  <2> QED
    BY <1>1, <1>5, <2>1, <2>2, <2>3, RecordStep
<1>6. ASSUME NEW k \in inbound_seen'
      PROVE  \E i \in DOMAIN log' : RecordAt(i)' /\ KeyAt(i)' = k
  <2>1. ~Exits
    BY <1>6, ExitStep DEF ExitWorker, RuntimeLost
  <2>2. CASE k \in inbound_seen
    <3>1. PICK i \in DOMAIN log : RecordAt(i) /\ KeyAt(i) = k
      BY <2>2 DEF RecordsSeen
    <3> QED
      BY <1>2, <3>1
  <2>3. CASE ScanRecord /\ k \notin inbound_seen
    <3>1. RecordAt(next_seq) /\ KeyAt(next_seq) = k
      BY <1>1, <1>6, <2>1, <2>3, SeenStep
    <3>2. PICK i : i = next_seq
      OBVIOUS
    <3>3. i \in DOMAIN log /\ RecordAt(i) /\ KeyAt(i) = k
      BY <3>1, <3>2 DEF RecordAt, KeyAt
    <3> QED
      BY <1>2, <3>3
  <2>4. CASE PublishRecord /\ k \notin inbound_seen
    <3>1. k = KeyOf(message_id)
      BY <1>1, <1>6, <2>1, <2>4, SeenStep
    <3>2. phase = "record" /\ log' = Append(log, RecordMessage)
      BY <2>4 DEF PublishRecord
    <3>3. RecordMessage \in Message
      BY <1>1, <3>2, RecordMessageType DEF Message
    <3>4. PICK n : n = Len(log) + 1
      OBVIOUS
    <3>5. n \in DOMAIN log' /\ log'[n] = RecordMessage
      BY <1>1, <3>2, <3>3, <3>4, AppendKeeps
    <3>6. RecordAt(n)' /\ KeyAt(n)' = k
      BY <3>1, <3>5 DEF RecordAt, KeyAt, KeyOf, RecordMessage
    <3> QED
      BY <3>5, <3>6
  <2> QED
    BY <1>1, <1>6, <2>1, <2>2, <2>3, <2>4, SeenStep
<1>7. phase' = "record" => KeyOf(message_id)' \notin inbound_seen'
  BY InHandNext
<1> QED
  BY <1>4, <1>5, <1>6, <1>7 DEF RecordsSeen

LEMMA OnceNext ==
    ASSUME CallersRecordNothing, ChatInv, RecordsSeen, RecordsOnce, [Next]_vars
    PROVE  RecordsOnce'
<1>1. TypeInv /\ Len(log) \in Nat
  BY LenProperties DEF ChatInv, AnswerInv, TypeInv, TypeOK
<1>2. ASSUME NEW j \in DOMAIN log, RecordAt(j), phase = "record"
      PROVE  log[j].provider_message_id # message_id
  <2>1. /\ KeyAt(j) \in inbound_seen /\ KeyOf(message_id) \notin inbound_seen
        /\ chat[log[j].provider_message_id].channel_id = log[j].channel_id
    BY <1>2 DEF RecordsSeen, Running
  <2> QED
    BY <2>1 DEF KeyAt, KeyOf
<1>3. ASSUME NEW i \in DOMAIN log', NEW j \in DOMAIN log',
             RecordAt(i)', RecordAt(j)', i # j
      PROVE  log'[i].provider_message_id # log'[j].provider_message_id
  <2>1. \/ i \in DOMAIN log /\ RecordAt(i) /\ log'[i] = log[i]
        \/ i = Len(log) + 1 /\ phase = "record" /\ log'[i] = RecordMessage
    BY <1>1, <1>3, RecordStep
  <2>2. \/ j \in DOMAIN log /\ RecordAt(j) /\ log'[j] = log[j]
        \/ j = Len(log) + 1 /\ phase = "record" /\ log'[j] = RecordMessage
    BY <1>1, <1>3, RecordStep
  <2> QED
    BY <1>2, <1>3, <2>1, <2>2 DEF RecordsOnce, RecordMessage
<1> QED
  BY <1>3 DEF RecordsOnce

(* The link of the message in hand is that of the result it was sent for,   *)
(* which is written: its request was read, and its channel is not waiting.  *)
LEMMA LinkInHand ==
    ASSUME ChatInv, RecordReady, phase = "record",
           NEW p, p = send_result_by_provider_message[KeyOf(message_id)]
    PROVE  IF chat[message_id].request_id = None THEN p = 0
           ELSE /\ p \in DOMAIN log /\ ResultAt(p)
                /\ log[p].request_id = chat[message_id].request_id
<1> DEFINE m == chat[message_id]
<1>1. /\ AnswerInv /\ TypeInv /\ log \in Seq(Message) /\ Running
      /\ message_id \in DOMAIN chat /\ KeyOf(message_id) \in InboundKey
  BY RecordMessageType
  DEF ChatInv, AnswerInv, TypeInv, TypeOK, WorkInHand, Running
<1>2. CASE m.request_id = None
  <2>1. ASSUME p # 0 PROVE FALSE
    <3>1. ResultAt(p) /\ KeyAt(p) = KeyOf(message_id)
      BY <1>1, <2>1 DEF ChatInv, LinksAreResults
    <3>2. p \in DOMAIN log /\ log[p].provider_message_id = message_id
      BY <3>1 DEF ResultAt, KeyAt, KeyOf
    <3>3. m.request_id = log[p].request_id
      BY <3>1, <3>2 DEF ChatInv, ResultsNameMessages, SentFor
    <3>4. log[p].request_id \in RequestIds
      BY <1>1, <3>1, <3>2, MessageKinds, ElementOfSeq DEF ResultAt, SendResult
    <3> QED
      BY <1>2, <3>3, <3>4, RuntimeAssumption
  <2> QED
    BY <1>2, <2>1
<1>3. CASE m.request_id # None
  <2>1. PICK q \in DOMAIN log : /\ FirstRequestAt(q)
                                /\ log[q].request_id = m.request_id
                                /\ log[q].channel_id = m.channel_id
                                /\ q < next_seq
    BY <1>1, <1>3 DEF ChatInv, SentAfterReading
  <2>2. q \in 1 .. next_seq - 1 /\ RequestAt(q)
    BY <1>1, <2>1, LenProperties
    DEF FirstRequestAt, TypeInv, TypeOK
  <2>3. ~ChannelHasPending(log[q].channel_id)
    BY <2>1 DEF RecordReady
  <2>4. Answered(log[q].request_id)
    BY <1>1, <2>2, <2>3, IngestedAnswered
  <2>5. PICK i \in DOMAIN log :
          ResultAt(i) /\ log[i].request_id = m.request_id
    BY <2>1, <2>4 DEF Answered
  <2>6. log[i].provider_message_id = message_id
    BY <1>1, <1>3, <2>5
    DEF ChatInv, ResultsNameMessages, SentAfterReading, SentFor
  <2>7. log[i].channel_id = m.channel_id
    BY <1>1, <2>1, <2>5, FirstRequestUnique
    DEF AnswerInv, LogInv, ResultsAnswerFirst
  <2>8. KeyAt(i) = KeyOf(message_id)
    BY <2>6, <2>7 DEF KeyAt, KeyOf
  <2>9. p = i
    BY <1>1, <2>5, <2>8 DEF ChatInv, LinksAreResults, KnownResult
  <2> QED
    BY <1>3, <2>5, <2>9
<1> QED
  BY <1>2, <1>3

LEMMA LinkedNext ==
    ASSUME CallersRecordNothing, ChatInv, RecordReady, RecordsSeen,
           RecordsLinked, [Next]_vars
    PROVE  RecordsLinked'
<1>1. /\ TypeInv /\ Len(log) \in Nat /\ DOMAIN log = 1 .. Len(log)
      /\ phase = "record" => message_id \in DOMAIN chat
  BY LenProperties DEF ChatInv, AnswerInv, TypeInv, TypeOK, WorkInHand
<1>2. /\ \A i \in DOMAIN chat : i \in DOMAIN chat' /\ chat'[i] = chat[i]
      /\ \A i \in DOMAIN log : log'[i] = log[i] /\ (ResultAt(i)' <=> ResultAt(i))
  BY <1>1, ChatKept, LogKept
<1>3. ASSUME NEW i \in DOMAIN log', RecordAt(i)',
             NEW m, m = chat'[log'[i].provider_message_id],
             NEW p, p = log'[i].prev_seq
      PROVE  /\ m.channel_id = log'[i].channel_id
             /\ IF m.request_id = None THEN p = 0
                ELSE /\ p < i /\ ResultAt(p)'
                     /\ log'[p].request_id = m.request_id
  <2>1. CASE i \in DOMAIN log /\ RecordAt(i) /\ log'[i] = log[i]
    <3>1. m = chat[log[i].provider_message_id]
      BY <1>2, <1>3, <2>1 DEF RecordsSeen
    <3>2. /\ m.channel_id = log[i].channel_id
          /\ IF m.request_id = None THEN p = 0
             ELSE /\ p < i /\ ResultAt(p)
                  /\ log[p].request_id = m.request_id
      BY <1>3, <2>1, <3>1 DEF RecordsLinked
    <3> QED
      BY <1>2, <2>1, <3>2 DEF ResultAt
  <2>2. CASE i = Len(log) + 1 /\ phase = "record" /\ log'[i] = RecordMessage
    <3>1. m = chat[message_id] /\ m.channel_id = log'[i].channel_id
      BY <1>1, <1>2, <1>3, <2>2 DEF RecordMessage
    <3>2. p = send_result_by_provider_message[KeyOf(message_id)]
      BY <1>3, <2>2 DEF RecordMessage, KeyOf
    <3>3. IF m.request_id = None THEN p = 0
          ELSE /\ p \in DOMAIN log /\ ResultAt(p)
               /\ log[p].request_id = m.request_id
      BY <2>2, <3>1, <3>2, LinkInHand
    <3> QED
      BY <1>1, <1>2, <2>2, <3>1, <3>3
  <2> QED
    BY <1>1, <1>3, <2>1, <2>2, RecordStep
<1> QED
  BY <1>3 DEF RecordsLinked

LEMMA RecordInvInit == Init => RecordInv
<1> SUFFICES ASSUME Init PROVE RecordInv
  OBVIOUS
<1>1. log = <<>> /\ inbound_seen = {} /\ phase = "down"
  BY DEF Init, RuntimeInit
<1> QED
  BY <1>1, ChatInvInit, RecordReadyInit
  DEF RecordInv, RecordsSeen, RecordsOnce, RecordsLinked, RecordAt

LEMMA RecordInvNext ==
    ASSUME CallersRecordNothing
    PROVE  RecordInv /\ [Next]_vars => RecordInv'
<1>1. ChatInv => TypeInv
  BY DEF ChatInv, AnswerInv
<1> QED
  BY <1>1, ChatInvNext, RecordReadyNext, RecordsSeenNext, OnceNext, LinkedNext
  DEF RecordInv

(* When only the worker writes sync.records, each provider message is       *)
(* recorded at most once, whatever the stream delivers again.               *)
THEOREM RecordsAreOnce ==
    ASSUME CallersRecordNothing
    PROVE  Spec => []RecordsOnce
<1>1. RecordInv => RecordsOnce
  BY DEF RecordInv
<1> QED
  BY RecordInvInit, RecordInvNext, <1>1, PTL DEF Spec

(* ... it names the result of the request it is the echo of, and no other,  *)
THEOREM RecordsAreLinked ==
    ASSUME CallersRecordNothing
    PROVE  Spec => []RecordsLinked
<1>1. RecordInv => RecordsLinked
  BY DEF RecordInv
<1> QED
  BY RecordInvInit, RecordInvNext, <1>1, PTL DEF Spec

(* ... and what the running worker remembers is what a scan would rebuild.  *)
THEOREM MemoryIsLog ==
    ASSUME CallersRecordNothing
    PROVE  Spec => []StateMatchesLog
<1>1. RecordInv => StateMatchesLog
  <2> SUFFICES ASSUME RecordInv, Running PROVE StateMatchesLog
    BY DEF StateMatchesLog
  <2>1. /\ AnswerInv /\ TypeInv /\ log \in Seq(Message) /\ RuntimeTypeOK
        /\ ResultsNameMessages /\ LinksAreResults /\ RecordsSeen
        /\ DOMAIN chat \subseteq MessageIds
    BY DEF RecordInv, ChatInv, AnswerInv, TypeInv, TypeOK
  <2>2. completed_request_ids = {r \in RequestIds : Answered(r)}
    <3>1. \A r \in RequestIds : Answered(r) <=> Completed(r)
      BY DEF Answered, Completed, KnownResult
    <3>2. \A r \in RequestIds : r \in completed_request_ids <=> Completed(r)
      BY <2>1 DEF AnswerInv, MemoryInv, CompletedAreAnswered
    <3> QED
      BY <2>1, <3>1, <3>2 DEF RuntimeTypeOK
  <2>3. ASSUME NEW k \in InboundKey
        PROVE  k \in inbound_seen <=>
                 /\ k[2] \in DOMAIN chat
                 /\ k[1] = chat[k[2]].channel_id /\ Recorded(k[2])
    <3>1. k = <<k[1], k[2]>>
      BY DEF InboundKey
    <3>2. ASSUME k \in inbound_seen
          PROVE  /\ k[2] \in DOMAIN chat
                 /\ k[1] = chat[k[2]].channel_id /\ Recorded(k[2])
      <4>1. PICK i \in DOMAIN log : RecordAt(i) /\ KeyAt(i) = k
        BY <2>1, <3>2 DEF RecordsSeen
      <4>2. k[2] = log[i].provider_message_id /\ k[1] = log[i].channel_id
        BY <4>1 DEF KeyAt
      <4> QED
        BY <2>1, <4>1, <4>2 DEF RecordsSeen, Recorded
    <3>3. ASSUME k[2] \in DOMAIN chat, k[1] = chat[k[2]].channel_id,
                 Recorded(k[2])
          PROVE  k \in inbound_seen
      <4>1. PICK i \in DOMAIN log :
              RecordAt(i) /\ log[i].provider_message_id = k[2]
        BY <3>3 DEF Recorded
      <4>2. KeyAt(i) \in inbound_seen /\ log[i].channel_id = k[1]
        BY <2>1, <3>3, <4>1 DEF RecordsSeen
      <4> QED
        BY <3>1, <4>1, <4>2 DEF KeyAt
    <3> QED
      BY <3>2, <3>3
  <2>4. inbound_seen = {k \in InboundKey : k[2] \in DOMAIN chat
                         /\ k[1] = chat[k[2]].channel_id /\ Recorded(k[2])}
    BY <2>1, <2>3 DEF RuntimeTypeOK
  <2>5. \A i \in DOMAIN log : ResultAt(i) =>
          send_result_by_provider_message
            [<<log[i].channel_id, log[i].provider_message_id>>] = i
    BY <2>1 DEF LinksAreResults, KnownResult, KeyAt
  <2>6. \A i \in DOMAIN log : RecordAt(i) =>
          latest_event_ms_by_channel[log[i].channel_id] >= log[i].event_ms
    BY <2>1 DEF RecordsSeen
  <2> QED
    BY <2>2, <2>4, <2>5, <2>6 DEF StateMatchesLog
<1> QED
  BY RecordInvInit, RecordInvNext, <1>1, PTL DEF Spec

(* A request read where the callers comply repeats the canonical one.       *)
LEMMA CompliantRequest ==
    ASSUME AnswerInv, Compliant(Len(log)), NEW n \in DOMAIN log,
           n = next_seq, RequestAt(n)
    PROVE  ~SendRequestConflicts(n, log[n])
<1> SUFFICES ASSUME canonical_requests_by_id[log[n].request_id] # None
             PROVE  SameSendRequest(
                      canonical_requests_by_id[log[n].request_id],
                      TaskOf(n, log[n]))
  BY DEF SendRequestConflicts
<1>1. /\ log \in Seq(Message) /\ CanonicalIsFirst /\ Len(log) \in Nat
      /\ DOMAIN log = 1 .. Len(log)
  BY LenProperties DEF AnswerInv, MemoryInv, TypeInv, TypeOK
<1>2. log[n].request_id \in RequestIds
  BY <1>1, MessageKinds, ElementOfSeq DEF RequestAt, SendRequest
<1>3. PICK s : /\ s < n /\ RequestAt(s) /\ s \in DOMAIN log
               /\ log[s].request_id = log[n].request_id
               /\ canonical_requests_by_id[log[n].request_id]
                    = TaskOf(s, log[s])
  BY <1>2 DEF AnswerInv, MemoryInv, CanonicalIsFirst, FirstRequestAt, RequestAt
<1>4. s \in 1 .. n - 1 /\ n \in 1 .. Len(log)
  BY <1>1, <1>3
<1>5. log[n] = log[s]
  BY <1>3, <1>4 DEF Compliant
<1> QED
  BY <1>3, <1>5 DEF SameSendRequest, TaskOf

(* A result of the worker completes the request that its scan has queued.   *)
LEMMA OwnResult ==
    ASSUME AnswerInv, phase = "scan", NEW n \in DOMAIN log, n = next_seq,
           ResultAt(n)
    PROVE  ~SendResultConflicts(log[n])
<1> DEFINE r == log[n].request_id
<1>1. /\ log \in Seq(Message) /\ CanonicalIsFirst /\ n \in Nat
  BY LenProperties DEF AnswerInv, MemoryInv, TypeInv, TypeOK
<1>2. r \in RequestIds
  BY <1>1, MessageKinds, ElementOfSeq DEF ResultAt, SendResult
<1>3. ~Completed(r)
  <2> SUFFICES ASSUME NEW i \in DOMAIN log, KnownResult(i),
                      log[i].request_id = r
               PROVE  FALSE
    BY DEF Completed
  <2>1. i < n /\ ResultAt(i)
    BY DEF KnownResult, Running
  <2> QED
    BY <1>1, <2>1, OneResult DEF UniqueResults
<1>4. terminal_results_by_id[r] = None
  BY <1>2, <1>3 DEF AnswerInv, MemoryInv, CompletedAreAnswered
<1>5. PICK q : /\ q = log[n].prev_seq /\ q < n /\ FirstRequestAt(q)
               /\ q \in DOMAIN log
               /\ log[q].request_id = r
               /\ log[q].channel_id = log[n].channel_id
               /\ log[n].recipients = {log[q].principal}
  BY DEF AnswerInv, LogInv, ResultsAnswerFirst, FirstRequestAt, RequestAt
<1>6. canonical_requests_by_id[r] # None
  <2>1. q \in 1 .. next_seq - 1 /\ RequestAt(q)
    BY <1>1, <1>5, LenProperties DEF FirstRequestAt
  <2> QED
    BY <1>1, <1>5, <2>1 DEF CanonicalIsFirst
<1>7. canonical_requests_by_id[r] = TaskOf(q, log[q])
  BY <1>1, <1>2, <1>5, <1>6, FirstRequestUnique DEF CanonicalIsFirst
<1> QED
  BY <1>4, <1>5, <1>6, <1>7 DEF SendResultConflicts, TaskOf

(* A record carries the link that the results before it give its message.   *)
LEMMA OwnRecord ==
    ASSUME RecordInv, NEW n \in DOMAIN log, n = next_seq, RecordAt(n)
    PROVE  ~SyncRecordConflicts(log[n])
<1> DEFINE p == log[n].prev_seq
           m == chat[log[n].provider_message_id]
           link == send_result_by_provider_message[KeyAt(n)]
<1>1. /\ AnswerInv /\ log \in Seq(Message) /\ DOMAIN chat \subseteq MessageIds
      /\ ResultsNameMessages /\ LinksAreResults /\ SentAfterReading
      /\ RecordsSeen /\ RecordsLinked /\ n \in Nat
  BY LenProperties DEF RecordInv, ChatInv, AnswerInv, TypeInv, TypeOK
<1>2. log[n] \in SyncRecord /\ KeyAt(n) \in InboundKey
  BY <1>1, MessageKinds, ElementOfSeq
  DEF RecordAt, SyncRecord, InboundKey, KeyAt
<1>3. /\ log[n].provider_message_id \in DOMAIN chat
      /\ m.channel_id = log[n].channel_id
  BY <1>1 DEF RecordsSeen
<1>4. CASE m.request_id = None
  <2>1. p = 0
    BY <1>1, <1>4 DEF RecordsLinked
  <2>2. ASSUME link # 0 PROVE FALSE
    <3>1. PICK q \in DOMAIN log : ResultAt(q) /\ KeyAt(q) = KeyAt(n)
      BY <1>1, <1>2, <2>2 DEF LinksAreResults, ResultAt
    <3>2. log[q].provider_message_id = log[n].provider_message_id
      BY <3>1 DEF KeyAt
    <3>3. log[q].request_id = m.request_id
      BY <1>1, <3>1, <3>2 DEF ResultsNameMessages, SentFor
    <3>4. log[q].request_id \in RequestIds
      BY <1>1, <3>1, MessageKinds, ElementOfSeq DEF ResultAt, SendResult
    <3> QED
      BY <1>4, <3>3, <3>4, RuntimeAssumption
  <2> QED
    BY <2>1, <2>2 DEF SyncRecordConflicts, KeyAt
<1>5. CASE m.request_id # None
  <2>1. /\ p < n /\ ResultAt(p) /\ p \in DOMAIN log
        /\ log[p].request_id = m.request_id
    BY <1>1, <1>5 DEF RecordsLinked, ResultAt
  <2>2. /\ log[p].provider_message_id \in DOMAIN chat
        /\ chat[log[p].provider_message_id].request_id = m.request_id
    BY <1>1, <2>1 DEF ResultsNameMessages, SentFor
  <2>3. log[p].provider_message_id = log[n].provider_message_id
    BY <1>1, <1>3, <1>5, <2>2 DEF SentAfterReading
  <2>4. log[p].channel_id = m.channel_id
    <3>1. PICK q \in DOMAIN log : /\ FirstRequestAt(q)
                                  /\ log[q].request_id = m.request_id
                                  /\ log[q].channel_id = m.channel_id
      BY <1>1, <1>3, <1>5 DEF SentAfterReading
    <3> QED
      BY <1>1, <2>1, <3>1, FirstRequestUnique
      DEF AnswerInv, LogInv, ResultsAnswerFirst
  <2>5. KeyAt(p) = KeyAt(n)
    BY <1>3, <2>3, <2>4 DEF KeyAt
  <2>6. KnownResult(p)
    BY <2>1 DEF KnownResult
  <2>7. link = p
    BY <1>1, <2>1, <2>5, <2>6 DEF LinksAreResults
  <2> QED
    BY <2>7 DEF SyncRecordConflicts, KeyAt
<1> QED
  BY <1>4, <1>5

(* ... so a history of compliant callers never stops a scan or a round.     *)
THEOREM HistoryIsRestorable ==
    ASSUME CallersRecordNothing
    PROVE  Spec => []HistoryRestorable
<1>1. RecordInv => HistoryRestorable
  <2> SUFFICES ASSUME RecordInv, Compliant(Len(log)), next_seq <= snapshot,
                      phase \in {"scan", "ingest"}
               PROVE  /\ phase = "scan"
                           => ~HistoryConflicts(next_seq, log[next_seq])
                      /\ phase = "ingest"
                           => ~LiveConflicts(next_seq, log[next_seq])
    BY DEF HistoryRestorable
  <2>1. PICK n : n = next_seq
    OBVIOUS
  <2>2. /\ AnswerInv /\ log \in Seq(Message) /\ n \in 1 .. Len(log)
        /\ DOMAIN log = 1 .. Len(log) /\ Len(log) \in Nat
    BY <2>1, LenProperties
    DEF RecordInv, ChatInv, AnswerInv, TypeInv, TypeOK, WorkInHand
  <2>3. n \in DOMAIN log /\ ~RolesInvalid(log[n])
    BY <2>2 DEF Compliant
  <2>4. log[n].kind = "send.request" => ~SendRequestConflicts(n, log[n])
    BY <2>1, <2>2, <2>3, CompliantRequest DEF RequestAt
  <2>5. log[n].kind = "send.result" /\ phase = "scan"
          => ~SendResultConflicts(log[n])
    BY <2>1, <2>2, <2>3, OwnResult DEF ResultAt, RolesInvalid
  <2>6. log[n].kind = "sync.record" => ~SyncRecordConflicts(log[n])
    BY <2>1, <2>3, OwnRecord DEF RecordAt
  <2> QED
    BY <2>1, <2>3, <2>4, <2>5, <2>6 DEF HistoryConflicts, LiveConflicts
<1> QED
  BY RecordInvInit, RecordInvNext, <1>1, PTL DEF Spec

-----------------------------------------------------------------------------
(* The streams.                                                            *)

LEMMA ChatLonger ==
    ASSUME TypeInv, TypeInv', [Next]_vars
    PROVE  /\ Len(chat) \in Nat /\ Len(chat') \in Nat
           /\ Len(chat') >= Len(chat)
           /\ DOMAIN chat = 1 .. Len(chat) /\ DOMAIN chat' = 1 .. Len(chat')
<1>1. /\ Len(chat) \in Nat /\ Len(chat') \in Nat
      /\ DOMAIN chat = 1 .. Len(chat) /\ DOMAIN chat' = 1 .. Len(chat')
  BY LenProperties DEF TypeInv, TypeOK
<1>2. \A i \in 1 .. Len(chat) : i \in 1 .. Len(chat')
  BY <1>1, ChatKept
<1>3. Len(chat') >= Len(chat)
  <2>1. CASE Len(chat) = 0
    BY <1>1, <2>1
  <2>2. CASE Len(chat) # 0
    <3>1. Len(chat) \in 1 .. Len(chat)
      BY <1>1, <2>2
    <3> QED
      BY <1>1, <1>2, <3>1
  <2> QED
    BY <2>1, <2>2
<1> QED
  BY <1>1, <1>3

(* Taking one message out of _pending_events.                              *)
LEMMA TakenOut ==
    ASSUME TypeInv, NEW n \in DOMAIN pending_events,
           NEW rest, rest = RemoveAt(pending_events, n)
    PROVE  /\ \A k \in DOMAIN rest : \E j \in DOMAIN pending_events :
                j = (IF k < n THEN k ELSE k + 1) /\ rest[k] = pending_events[j]
           /\ \A j \in DOMAIN pending_events : j # n =>
                \E k \in DOMAIN rest : rest[k] = pending_events[j]
           /\ \A k \in DOMAIN rest : k \in Nat
<1> DEFINE s == pending_events
<1>1. /\ s \in Seq(MessageIds) /\ Len(s) \in Nat /\ DOMAIN s = 1 .. Len(s)
      /\ n \in 1 .. Len(s) /\ n \in Nat
  BY LenProperties DEF TypeInv, TypeOK
<1>2. /\ rest \in Seq(MessageIds) /\ Len(rest) = Len(s) - 1
      /\ \A k \in 1 .. Len(s) - 1 :
           rest[k] = IF k < n THEN s[k] ELSE s[k + 1]
  BY <1>1, RemoveAtEntries
<1>3. DOMAIN rest = 1 .. Len(s) - 1
  BY <1>2, LenProperties
<1>4. ASSUME NEW k \in DOMAIN rest
      PROVE  \E j \in DOMAIN s :
               j = (IF k < n THEN k ELSE k + 1) /\ rest[k] = s[j]
  <2>1. k \in 1 .. Len(s) /\ k + 1 \in 1 .. Len(s)
    BY <1>1, <1>3
  <2> QED
    BY <1>1, <1>2, <1>3, <2>1
<1>5. ASSUME NEW j \in DOMAIN s, j # n
      PROVE  \E k \in DOMAIN rest : rest[k] = s[j]
  <2>1. CASE j < n
    <3>1. j \in 1 .. Len(s) - 1
      BY <1>1, <2>1
    <3> QED
      BY <1>2, <1>3, <2>1, <3>1
  <2>2. CASE ~(j < n)
    <3>1. j - 1 \in 1 .. Len(s) - 1 /\ ~(j - 1 < n) /\ (j - 1) + 1 = j
      BY <1>1, <1>5, <2>2
    <3> QED
      BY <1>2, <1>3, <3>1
  <2> QED
    BY <2>1, <2>2
<1> QED
  BY <1>3, <1>4, <1>5

LEMMA InFlightTakenOut ==
    ASSUME TypeInv, InFlightOnce, NEW n \in DOMAIN pending_events,
           pending_events' = RemoveAt(pending_events, n), phase' = "poll",
           UNCHANGED <<chat, cursor>>
    PROVE  InFlightOnce'
<1>1. /\ \A k \in DOMAIN pending_events' : \E j \in DOMAIN pending_events :
           /\ j = (IF k < n THEN k ELSE k + 1)
           /\ pending_events'[k] = pending_events[j]
      /\ \A k \in DOMAIN pending_events' : k \in Nat
  BY TakenOut
<1>2. n \in Nat
  BY LenProperties DEF TypeInv, TypeOK
<1>3. ASSUME NEW k \in DOMAIN pending_events'
      PROVE  pending_events'[k]
               < cursor'[chat'[pending_events'[k]].channel_id]
  BY <1>1 DEF InFlightOnce
<1>4. ASSUME NEW k \in DOMAIN pending_events', NEW l \in DOMAIN pending_events',
             chat'[pending_events'[k]].channel_id
               = chat'[pending_events'[l]].channel_id
      PROVE  k = l
  <2>1. PICK i \in DOMAIN pending_events :
          /\ i = (IF k < n THEN k ELSE k + 1)
          /\ pending_events'[k] = pending_events[i]
    BY <1>1
  <2>2. PICK j \in DOMAIN pending_events :
          /\ j = (IF l < n THEN l ELSE l + 1)
          /\ pending_events'[l] = pending_events[j]
    BY <1>1
  <2>3. i = j
    BY <1>4, <2>1, <2>2 DEF InFlightOnce
  <2> QED
    BY <1>1, <1>2, <2>1, <2>2, <2>3
<1> QED
  BY <1>3, <1>4 DEF InFlightOnce, Running

LEMMA InFlightAdded ==
    ASSUME TypeInv, InFlightOnce, NEW c \in Channels, ~InFlight(c),
           NEW i \in DOMAIN chat, chat[i].channel_id = c,
           pending_events' = Append(pending_events, i), phase' = "work",
           cursor' \in [Channels -> Nat],
           \A d \in Channels : cursor'[d] >= cursor[d],
           \A d \in Channels : cursor'[d] <= Len(chat) + 1,
           i < cursor'[c], chat' = chat
    PROVE  InFlightOnce'
<1> DEFINE s == pending_events
<1>1. /\ s \in Seq(MessageIds) /\ Len(s) \in Nat /\ DOMAIN s = 1 .. Len(s)
      /\ i \in MessageIds /\ chat \in Seq(ChatMessage)
      /\ cursor \in [Channels -> Nat] /\ MessageIds \subseteq Nat
  BY LenProperties, RuntimeAssumption DEF TypeInv, TypeOK
<1>2. /\ DOMAIN s' = 1 .. Len(s) + 1 /\ s'[Len(s) + 1] = i
      /\ \A k \in DOMAIN s : s'[k] = s[k]
  BY <1>1, AppendProperties
<1>3. \A k \in DOMAIN s' : k \in DOMAIN s \/ k = Len(s) + 1
  BY <1>1, <1>2
<1>4. ASSUME NEW k \in DOMAIN s
      PROVE  /\ s[k] \in DOMAIN chat /\ s[k] \in MessageIds
             /\ chat[s[k]].channel_id \in Channels
             /\ chat[s[k]].channel_id # c
  <2>1. s[k] \in DOMAIN chat /\ s[k] \in MessageIds
    BY <1>1 DEF TypeInv, WorkInHand
  <2>2. chat[s[k]] \in ChatMessage
    BY <1>1, <2>1, ElementOfSeq
  <2>3. s[k] \in Range(s)
    BY DEF Range
  <2> QED
    BY <2>1, <2>2, <2>3 DEF InFlight, ChatMessage
<1>5. ASSUME NEW k \in DOMAIN s'
      PROVE  s'[k] < cursor'[chat[s'[k]].channel_id]
  <2>1. CASE k \in DOMAIN s
    <3>1. s[k] < cursor[chat[s[k]].channel_id]
      BY <2>1 DEF InFlightOnce
    <3>2. s[k] \in Nat /\ cursor[chat[s[k]].channel_id] \in Nat
          /\ cursor'[chat[s[k]].channel_id] \in Nat
      BY <1>1, <1>4, <2>1
    <3> QED
      BY <1>2, <1>4, <2>1, <3>1, <3>2
  <2>2. CASE k = Len(s) + 1
    BY <1>2, <2>2
  <2> QED
    BY <1>3, <2>1, <2>2
<1>6. ASSUME NEW k \in DOMAIN s', NEW l \in DOMAIN s',
             chat[s'[k]].channel_id = chat[s'[l]].channel_id
      PROVE  k = l
  BY <1>2, <1>3, <1>4, <1>6 DEF InFlightOnce
<1> QED
  BY <1>5, <1>6 DEF InFlightOnce, Running

(* A stream resumes at a message of the chat or right behind it, and every  *)
(* earlier message of its channel is recorded or beyond the lookback.       *)
LEMMA ResumePoint ==
    ASSUME TypeInv, RecordsSeen, LatestRecorded, RecordsInOrder,
           NEW c \in Channels
    PROVE  /\ ResumeAt(c) \in Nat \ {0} /\ ResumeAt(c) <= Len(chat) + 1
           /\ \A i \in DOMAIN chat :
                (i < ResumeAt(c) /\ chat[i].channel_id = c)
                  => Recorded(i) \/ BeyondLookback(i)
<1> DEFINE latest == latest_event_ms_by_channel[c]
<1>1. /\ latest \in Nat /\ Len(chat) \in Nat /\ DOMAIN chat = 1 .. Len(chat)
      /\ HistoryOverlap \in Nat /\ HistoryLookback \in Nat \ {0}
  BY LenProperties, P2PAssumption DEF TypeInv, TypeOK, RuntimeTypeOK
<1>2. CASE latest = 0
  BY <1>1, <1>2 DEF ResumeAt, BeyondLookback
<1>3. CASE latest # 0
  <2>1. PICK k \in DOMAIN log :
          /\ RecordAt(k) /\ log[k].channel_id = c
          /\ log[k].provider_message_id = latest
    BY <1>3 DEF LatestRecorded
  <2>2. latest \in DOMAIN chat
    BY <2>1 DEF RecordsSeen
  <2>3. ResumeAt(c) \in Nat \ {0} /\ ResumeAt(c) <= latest
    BY <1>1, <1>3 DEF ResumeAt
  <2>4. ASSUME NEW i \in DOMAIN chat, i < latest, chat[i].channel_id = c
        PROVE  Recorded(i) \/ BeyondLookback(i)
    <3>1. i \in 1 .. log[k].provider_message_id - 1
      BY <1>1, <2>1, <2>4
    <3>2. \/ BeyondLookback(i)
          \/ \E j \in 1 .. k - 1 :
               RecordAt(j) /\ log[j].provider_message_id = i
      BY <2>1, <2>4, <3>1 DEF RecordsInOrder
    <3> QED
      BY <3>2 DEF Recorded, RecordAt
  <2> QED
    BY <1>1, <2>2, <2>3, <2>4
<1> QED
  BY <1>2, <1>3

LEMMA InFlightNext ==
    ASSUME TypeInv, InFlightOnce, RecordsSeen, LatestRecorded, RecordsInOrder,
           [Next]_vars
    PROVE  InFlightOnce'
<1>0. TypeInv'
  BY TypeInvNext
<1>1. /\ Len(chat) \in Nat /\ Len(chat') \in Nat /\ Len(chat') >= Len(chat)
      /\ DOMAIN chat = 1 .. Len(chat)
      /\ cursor \in [Channels -> Nat \ {0}]
      /\ \A i \in DOMAIN chat : i \in DOMAIN chat' /\ chat'[i] = chat[i]
  BY <1>0, ChatLonger, ChatKept DEF TypeInv, TypeOK
<1>2. \A n \in DOMAIN pending_events : pending_events[n] \in DOMAIN chat
  BY DEF TypeInv, WorkInHand
<1>3. CASE Exits
  <2>1. /\ phase' = "down" /\ pending_events' = <<>>
        /\ cursor' = [c \in Channels |-> 1]
    BY <1>3, ExitStep DEF ExitWorker
  <2> QED
    BY <1>1, <2>1 DEF InFlightOnce
<1>4. CASE StartPullers
  <2>1. /\ phase' = "poll" /\ pending_events' = pending_events
        /\ pending_events = <<>> /\ chat' = chat
        /\ cursor' = [c \in Channels |-> ResumeAt(c)]
    BY <1>4 DEF StartPullers, InFlightOnce, Running
  <2>2. \A c \in Channels : cursor'[c] <= Len(chat') + 1
    BY <2>1, ResumePoint
  <2> QED
    BY <2>1, <2>2 DEF InFlightOnce
<1>5. ASSUME NEW c \in Channels, CollectMessage(c) PROVE InFlightOnce'
  <2>1. PICK i \in DOMAIN chat :
          /\ NextMessage(c, i)
          /\ pending_events' = Append(pending_events, i)
          /\ cursor' = [cursor EXCEPT ![c] = i + 1]
    BY <1>5 DEF CollectMessage
  <2>2. ~InFlight(c) /\ phase' = "work" /\ chat' = chat
    BY <1>5 DEF CollectMessage
  <2>3. i \in Nat /\ i <= Len(chat) /\ i >= cursor[c]
        /\ chat[i].channel_id = c
    BY <1>1, <2>1 DEF NextMessage
  <2>4. /\ cursor'[c] = i + 1
        /\ \A d \in Channels : d # c => cursor'[d] = cursor[d]
        /\ cursor' \in [Channels -> Nat]
    BY <1>1, <2>1, <2>3
  <2>5. /\ \A d \in Channels : cursor'[d] >= cursor[d]
        /\ \A d \in Channels : cursor'[d] <= Len(chat) + 1
        /\ i < cursor'[c]
    BY <1>1, <2>3, <2>4 DEF InFlightOnce
  <2> QED
    BY <2>1, <2>2, <2>3, <2>4, <2>5, InFlightAdded
<1>6. ASSUME NEW c \in Channels, CollectAgain(c) PROVE InFlightOnce'
  <2>1. PICK i \in DOMAIN chat :
          /\ i < cursor[c] /\ chat[i].channel_id = c
          /\ pending_events' = Append(pending_events, i)
    BY <1>6 DEF CollectAgain
  <2>2. ~InFlight(c) /\ phase' = "work" /\ chat' = chat /\ cursor' = cursor
    BY <1>6 DEF CollectAgain
  <2>3. /\ cursor' \in [Channels -> Nat]
        /\ \A d \in Channels : cursor'[d] >= cursor[d]
        /\ \A d \in Channels : cursor'[d] <= Len(chat) + 1
    BY <1>1, <2>2 DEF InFlightOnce
  <2> QED
    BY <2>1, <2>2, <2>3, InFlightAdded
<1>7. CASE TakeEvent
  <2>1. PICK n \in DOMAIN pending_events :
          \/ /\ pending_events' = RemoveAt(pending_events, n)
             /\ phase' = "poll"
          \/ /\ message_id' = pending_events[n] /\ phase' = "record"
             /\ UNCHANGED pending_events
    BY <1>7 DEF TakeEvent
  <2>2. chat' = chat /\ cursor' = cursor /\ Running
    BY <1>7 DEF TakeEvent, Running
  <2>3. CASE phase' = "poll"
    BY <2>1, <2>2, <2>3, InFlightTakenOut
  <2>4. CASE phase' = "record"
    BY <2>1, <2>2, <2>4 DEF InFlightOnce, Running
  <2> QED
    BY <2>1, <2>3, <2>4
<1>8. CASE PublishRecord
  BY <1>8, InFlightTakenOut DEF PublishRecord
<1>9. CASE ~Exits /\ ~StartPullers /\ ~TakeEvent /\ ~PublishRecord
           /\ \A c \in Channels : ~CollectMessage(c) /\ ~CollectAgain(c)
  <2>1. /\ UNCHANGED <<pending_events, cursor>>
        /\ Running => Running'
        /\ phase' = "record" => phase = "record" /\ message_id' = message_id
    BY <1>9
    DEF Next, Environment, WorkerStep, Stream, FaultStep, Exits,
        CallerPublishes, UserPosts, Start, ScanMessage, Poll, IngestMessage,
        EndIngest, TakeTask, NothingToDo, SendMessage, PublishResult,
        CollectNothing, vars, worker, Running
  <2>2. \A c \in Channels : cursor'[c] <= Len(chat') + 1
    BY <1>1, <2>1 DEF InFlightOnce
  <2> QED
    BY <1>1, <1>2, <2>1, <2>2 DEF InFlightOnce
<1> QED
  BY <1>3, <1>4, <1>5, <1>6, <1>7, <1>8, <1>9

LEMMA MarkLatest ==
    ASSUME RuntimeTypeOK, NEW k, NEW c \in Channels, NEW e \in Nat,
           MarkSyncRecord(k, c, e), NEW d \in Channels
    PROVE  \/ latest_event_ms_by_channel'[d] = latest_event_ms_by_channel[d]
           \/ d = c /\ latest_event_ms_by_channel'[d] = e
BY DEF MarkSyncRecord, RuntimeTypeOK

LEMMA LatestNext ==
    ASSUME CallersRecordNothing, TypeInv, LatestRecorded, [Next]_vars
    PROVE  LatestRecorded'
<1> DEFINE latest == latest_event_ms_by_channel
<1>1. /\ log \in Seq(Message) /\ RuntimeTypeOK
      /\ \A i \in DOMAIN log : i \in DOMAIN log' /\ log'[i] = log[i]
           /\ (RecordAt(i)' <=> RecordAt(i))
  BY LogKept DEF TypeInv, TypeOK
<1>2. ASSUME NEW i \in DOMAIN log', RecordAt(i)'
      PROVE  log'[i].event_ms = log'[i].provider_message_id
  <2>1. \/ i \in DOMAIN log /\ RecordAt(i) /\ log'[i] = log[i]
        \/ log'[i] = RecordMessage
    BY <1>2, RecordStep
  <2> QED
    BY <2>1 DEF LatestRecorded, RecordMessage
<1>3. ASSUME NEW c \in Channels, latest'[c] # 0
      PROVE  \E i \in DOMAIN log' :
               /\ RecordAt(i)' /\ log'[i].channel_id = c
               /\ log'[i].provider_message_id = latest'[c]
  <2>1. CASE latest'[c] = latest[c]
    <3>1. PICK i \in DOMAIN log :
            /\ RecordAt(i) /\ log[i].channel_id = c
            /\ log[i].provider_message_id = latest[c]
      BY <1>3, <2>1 DEF LatestRecorded
    <3> QED
      BY <1>1, <2>1, <3>1
  <2>2. CASE ScanRecord /\ latest'[c] # latest[c]
    <3>1. PICK n : n = next_seq
      OBVIOUS
    <3>2. /\ phase = "scan" /\ n <= snapshot /\ log' = log
          /\ log[n].kind = "sync.record" /\ AddSyncRecord(log[n])
      BY <2>2, <3>1 DEF ScanRecord, ScanMessage, ReplayMessage
    <3>3. n \in DOMAIN log /\ RecordAt(n) /\ log[n] \in SyncRecord
      BY <1>1, <3>1, <3>2, MessageKinds, ElementOfSeq
      DEF TypeInv, TypeOK, WorkInHand, RecordAt
    <3>4. log[n].channel_id \in Channels /\ log[n].event_ms \in Nat
      BY <3>3 DEF SyncRecord
    <3>5. MarkSyncRecord(<<log[n].channel_id, log[n].provider_message_id>>,
                         log[n].channel_id, log[n].event_ms)
      BY <3>2 DEF AddSyncRecord
    <3>6. c = log[n].channel_id /\ latest'[c] = log[n].event_ms
      BY <1>1, <2>2, <3>4, <3>5, MarkLatest
    <3>7. log[n].event_ms = log[n].provider_message_id
      BY <3>3 DEF LatestRecorded
    <3> QED
      BY <1>1, <3>3, <3>6, <3>7
  <2>3. CASE PublishRecord /\ latest'[c] # latest[c]
    <3>1. /\ phase = "record" /\ log' = Append(log, RecordMessage)
          /\ MarkSyncRecord(KeyOf(message_id), chat[message_id].channel_id,
                            message_id)
      BY <2>3 DEF PublishRecord
    <3>2. /\ RecordMessage \in Message /\ message_id \in Nat
          /\ chat[message_id].channel_id \in Channels
      BY <3>1, RecordMessageType DEF Message
    <3>3. c = chat[message_id].channel_id /\ latest'[c] = message_id
      BY <1>1, <2>3, <3>1, <3>2, MarkLatest
    <3>4. PICK n : n = Len(log) + 1
      OBVIOUS
    <3>5. n \in DOMAIN log' /\ log'[n] = RecordMessage
      BY <1>1, <3>1, <3>2, <3>4, AppendKeeps
    <3>6. RecordAt(n)'
      BY <3>5 DEF RecordAt, RecordMessage
    <3> QED
      BY <3>3, <3>5, <3>6 DEF RecordMessage
  <2>4. CASE Exits
    BY <1>3, <2>4, ExitStep DEF ExitWorker, RuntimeLost
  <2> QED
    BY <2>1, <2>2, <2>3, <2>4, SeenSame
<1> QED
  BY <1>2, <1>3 DEF LatestRecorded

(* What a stream has moved past stays accounted for.                       *)
LEMMA SkippedNext ==
    ASSUME TypeInv, InFlightOnce, RecordsSeen, LatestRecorded, RecordsInOrder,
           NothingSkipped, [Next]_vars
    PROVE  NothingSkipped'
<1>0. TypeInv'
  BY TypeInvNext
<1>1. /\ Len(chat) \in Nat /\ Len(chat') \in Nat /\ Len(chat') >= Len(chat)
      /\ DOMAIN chat = 1 .. Len(chat) /\ DOMAIN chat' = 1 .. Len(chat')
      /\ cursor \in [Channels -> Nat \ {0}] /\ chat \in Seq(ChatMessage)
      /\ \A i \in DOMAIN chat : i \in DOMAIN chat' /\ chat'[i] = chat[i]
  BY <1>0, ChatLonger, ChatKept DEF TypeInv, TypeOK
<1>2. \A i \in DOMAIN chat : chat[i].channel_id \in Channels
  <2>1. \A i \in DOMAIN chat : chat[i] \in ChatMessage
    BY <1>1, ElementOfSeq
  <2> QED
    BY <2>1 DEF ChatMessage
<1>3. \A i : Recorded(i) => Recorded(i)'
  BY LogKept DEF Recorded
<1>4. \A i \in DOMAIN chat : BeyondLookback(i) => BeyondLookback(i)'
  BY <1>1, P2PAssumption DEF BeyondLookback
<1>5. CASE Exits
  BY <1>5, ExitStep DEF ExitWorker, NothingSkipped, Running
<1>6. CASE StartPullers
  <2>1. chat' = chat /\ cursor' = [c \in Channels |-> ResumeAt(c)]
    BY <1>6 DEF StartPullers
  <2>2. \A i \in DOMAIN chat : i < ResumeAt(chat[i].channel_id)
          => Recorded(i) \/ BeyondLookback(i)
    BY <1>2, ResumePoint
  <2> QED
    BY <1>2, <1>3, <1>4, <2>1, <2>2 DEF NothingSkipped
<1>7. ASSUME NEW c \in Channels, CollectMessage(c) PROVE NothingSkipped'
  <2>1. PICK i \in DOMAIN chat :
          /\ NextMessage(c, i)
          /\ pending_events' = Append(pending_events, i)
          /\ cursor' = [cursor EXCEPT ![c] = i + 1]
    BY <1>7 DEF CollectMessage
  <2>2. chat' = chat /\ Running
    BY <1>7 DEF CollectMessage, Running
  <2>3. i \in MessageIds /\ pending_events \in Seq(MessageIds)
    BY DEF TypeInv, TypeOK
  <2>4. i \in Range(pending_events') /\ \A j \in Range(pending_events) :
          j \in Range(pending_events')
    <3>1. /\ DOMAIN pending_events' = 1 .. Len(pending_events) + 1
          /\ pending_events'[Len(pending_events) + 1] = i
          /\ \A k \in DOMAIN pending_events :
               pending_events'[k] = pending_events[k]
          /\ DOMAIN pending_events = 1 .. Len(pending_events)
          /\ Len(pending_events) \in Nat
      BY <2>1, <2>3, AppendProperties, LenProperties
    <3>2. \A k \in DOMAIN pending_events : k \in DOMAIN pending_events'
      BY <3>1
    <3>3. Len(pending_events) + 1 \in DOMAIN pending_events'
      BY <3>1
    <3> QED
      BY <3>1, <3>2, <3>3 DEF Range
  <2>5. ASSUME NEW j \in DOMAIN chat, j < cursor'[chat[j].channel_id]
        PROVE  \/ j \in Range(pending_events')
               \/ Recorded(j) \/ BeyondLookback(j)
    <3>1. CASE j < cursor[chat[j].channel_id]
      BY <2>2, <2>4, <3>1 DEF NothingSkipped
    <3>2. CASE ~(j < cursor[chat[j].channel_id])
      <4>1. chat[j].channel_id = c
        BY <1>1, <1>2, <2>1, <2>5, <3>2
      <4>2. j \in cursor[c] .. i
        BY <1>1, <2>1, <2>5, <3>2, <4>1
      <4>3. j \in cursor[c] .. i - 1 => chat[j].channel_id # c
        BY <2>1 DEF NextMessage
      <4>4. j = i
        BY <1>1, <4>1, <4>2, <4>3
      <4> QED
        BY <2>4, <4>4
    <3> QED
      BY <3>1, <3>2
  <2> QED
    BY <1>3, <1>4, <2>2, <2>5 DEF NothingSkipped
<1>8. ASSUME NEW c \in Channels, CollectAgain(c) PROVE NothingSkipped'
  <2>1. PICK i \in DOMAIN chat : pending_events' = Append(pending_events, i)
    BY <1>8 DEF CollectAgain
  <2>2. chat' = chat /\ cursor' = cursor /\ Running
    BY <1>8 DEF CollectAgain, Running
  <2>3. i \in MessageIds /\ pending_events \in Seq(MessageIds)
    BY DEF TypeInv, TypeOK
  <2>4. \A j \in Range(pending_events) : j \in Range(pending_events')
    <3>1. /\ DOMAIN pending_events' = 1 .. Len(pending_events) + 1
          /\ \A k \in DOMAIN pending_events :
               pending_events'[k] = pending_events[k]
          /\ DOMAIN pending_events = 1 .. Len(pending_events)
          /\ Len(pending_events) \in Nat
      BY <2>1, <2>3, AppendProperties, LenProperties
    <3> QED
      BY <3>1 DEF Range
  <2> QED
    BY <1>3, <1>4, <2>2, <2>4 DEF NothingSkipped
<1>9. ASSUME NEW n \in DOMAIN pending_events,
             pending_events' = RemoveAt(pending_events, n),
             NEW w, w = pending_events[n], Recorded(w)', Running,
             UNCHANGED <<chat, cursor>>
      PROVE  NothingSkipped'
  <2>1. \A j \in DOMAIN pending_events : j # n =>
          \E k \in DOMAIN pending_events' :
             pending_events'[k] = pending_events[j]
    BY <1>9, TakenOut
  <2>2. \A i \in Range(pending_events) :
          i = w \/ i \in Range(pending_events')
    BY <1>9, <2>1 DEF Range
  <2> QED
    BY <1>3, <1>4, <1>9, <2>2 DEF NothingSkipped
<1>10. CASE TakeEvent
  <2>1. PICK n \in DOMAIN pending_events :
          \/ /\ pending_events' = RemoveAt(pending_events, n)
             /\ KeyOf(pending_events[n]) \in inbound_seen
          \/ pending_events' = pending_events
    BY <1>10 DEF TakeEvent
  <2>2. UNCHANGED <<chat, cursor>> /\ Running
    BY <1>10 DEF TakeEvent, Running
  <2>3. CASE KeyOf(pending_events[n]) \in inbound_seen
               /\ pending_events' = RemoveAt(pending_events, n)
    <3>1. PICK i \in DOMAIN log :
            RecordAt(i) /\ KeyAt(i) = KeyOf(pending_events[n])
      BY <2>3 DEF RecordsSeen
    <3>2. PICK w : w = pending_events[n]
      OBVIOUS
    <3>3. Recorded(w)
      BY <3>1, <3>2 DEF KeyAt, KeyOf, Recorded
    <3> QED
      BY <1>3, <1>9, <2>2, <2>3, <3>2, <3>3
  <2>4. CASE pending_events' = pending_events
    BY <1>3, <1>4, <2>2, <2>4 DEF NothingSkipped
  <2> QED
    BY <2>1, <2>3, <2>4
<1>11. CASE PublishRecord
  <2>1. PICK n \in DOMAIN pending_events :
          /\ pending_events[n] = message_id
          /\ pending_events' = RemoveAt(pending_events, n)
    BY <1>11 DEF PublishRecord
  <2>2. /\ phase = "record" /\ log' = Append(log, RecordMessage)
        /\ UNCHANGED <<chat, cursor>> /\ Running
    BY <1>11 DEF PublishRecord, Running
  <2>3. RecordMessage \in Message /\ log \in Seq(Message)
    BY <2>2, RecordMessageType DEF Message, TypeInv, TypeOK
  <2>4. PICK k : k = Len(log) + 1
    OBVIOUS
  <2>5. k \in DOMAIN log' /\ log'[k] = RecordMessage
    <3>1. DOMAIN log' = 1 .. Len(log) + 1 /\ Len(log) \in Nat
          /\ log'[Len(log) + 1] = RecordMessage
      BY <2>2, <2>3, AppendKeeps
    <3> QED
      BY <2>4, <3>1
  <2>6. PICK w : w = pending_events[n]
    OBVIOUS
  <2>7. RecordAt(k)' /\ log'[k].provider_message_id = w
    BY <2>1, <2>5, <2>6 DEF RecordAt, RecordMessage
  <2>8. Recorded(w)'
    BY <2>5, <2>7 DEF Recorded
  <2> QED
    BY <1>9, <2>1, <2>2, <2>6, <2>8
<1>12. CASE ~Exits /\ ~StartPullers /\ ~TakeEvent /\ ~PublishRecord
            /\ \A c \in Channels : ~CollectMessage(c) /\ ~CollectAgain(c)
  <2>1. /\ UNCHANGED <<pending_events, cursor>>
        /\ Running' => Running
    BY <1>12
    DEF Next, Environment, WorkerStep, Stream, FaultStep, Exits,
        CallerPublishes, UserPosts, Start, ScanMessage, Poll, IngestMessage,
        EndIngest, TakeTask, NothingToDo, SendMessage, PublishResult,
        CollectNothing, vars, worker, Running
  <2>2. ASSUME NEW i \in DOMAIN chat', i < cursor[chat'[i].channel_id]
        PROVE  i \in DOMAIN chat
    <3>1. chat'[i].channel_id \in Channels
      <4>1. chat' \in Seq(ChatMessage)
        BY <1>0 DEF TypeInv, TypeOK
      <4>2. chat'[i] \in ChatMessage
        BY <4>1, ElementOfSeq
      <4> QED
        BY <4>2 DEF ChatMessage
    <3>2. i <= Len(chat)
      BY <1>1, <2>2, <3>1 DEF InFlightOnce
    <3> QED
      BY <1>1, <3>2
  <2> QED
    BY <1>1, <1>3, <1>4, <2>1, <2>2 DEF NothingSkipped
<1> QED
  BY <1>5, <1>6, <1>7, <1>8, <1>10, <1>11, <1>12

(* The message in hand is the oldest of its channel not yet recorded.       *)
LEMMA OrderNext ==
    ASSUME CallersRecordNothing, TypeInv, InFlightOnce, RecordsSeen,
           NothingSkipped, RecordsInOrder, [Next]_vars
    PROVE  RecordsInOrder'
<1>0. TypeInv'
  BY TypeInvNext
<1>1. /\ Len(chat) \in Nat /\ Len(chat') \in Nat /\ Len(chat') >= Len(chat)
      /\ DOMAIN chat = 1 .. Len(chat) /\ Len(log) \in Nat
      /\ DOMAIN log = 1 .. Len(log)
      /\ \A i \in DOMAIN chat : i \in DOMAIN chat' /\ chat'[i] = chat[i]
      /\ \A i \in DOMAIN log : i \in DOMAIN log' /\ log'[i] = log[i]
           /\ (RecordAt(i)' <=> RecordAt(i))
  BY <1>0, ChatLonger, ChatKept, LogKept
<1>2. \A i \in DOMAIN chat : BeyondLookback(i) => BeyondLookback(i)'
  BY <1>1, P2PAssumption DEF BeyondLookback
<1>3. ASSUME NEW k \in DOMAIN log', RecordAt(k)',
             NEW i \in 1 .. log'[k].provider_message_id - 1,
             chat'[i].channel_id = log'[k].channel_id
      PROVE  \/ BeyondLookback(i)'
             \/ \E j \in 1 .. k - 1 :
                  RecordAt(j)' /\ log'[j].provider_message_id = i
  <2>1. CASE k \in DOMAIN log /\ RecordAt(k) /\ log'[k] = log[k]
    <3>1. log[k].provider_message_id \in DOMAIN chat
      BY <2>1 DEF RecordsSeen
    <3>2. i \in DOMAIN chat
      BY <1>1, <1>3, <2>1, <3>1
    <3>3. \/ BeyondLookback(i)
          \/ \E j \in 1 .. k - 1 :
               RecordAt(j) /\ log[j].provider_message_id = i
      BY <1>1, <1>3, <2>1, <3>2 DEF RecordsInOrder
    <3> QED
      BY <1>1, <1>2, <3>2, <3>3 DEF RecordAt
  <2>2. CASE k = Len(log) + 1 /\ phase = "record" /\ log'[k] = RecordMessage
    <3>1. PICK n \in DOMAIN pending_events : pending_events[n] = message_id
      BY <2>2 DEF InFlightOnce
    <3>2. /\ message_id \in DOMAIN chat /\ Running
          /\ log'[k].provider_message_id = message_id
          /\ log'[k].channel_id = chat[message_id].channel_id
      BY <2>2 DEF TypeInv, WorkInHand, Running, RecordMessage
    <3>3. i \in DOMAIN chat /\ i < message_id
          /\ chat[i].channel_id = chat[message_id].channel_id
      BY <1>1, <1>3, <3>2
    <3>4. message_id < cursor[chat[message_id].channel_id]
      BY <3>1 DEF InFlightOnce
    <3>5. chat[message_id].channel_id \in Channels
      BY <2>2, RecordMessageType
    <3>6. i < cursor[chat[i].channel_id]
      BY <1>1, <3>2, <3>3, <3>4, <3>5 DEF TypeInv, TypeOK
    <3>7. i \in Range(pending_events) \/ Recorded(i) \/ BeyondLookback(i)
      BY <3>2, <3>3, <3>6 DEF NothingSkipped
    <3>8. i \notin Range(pending_events)
      BY <1>1, <3>1, <3>2, <3>3 DEF Range, InFlightOnce
    <3>9. CASE Recorded(i)
      <4>1. PICK j \in DOMAIN log :
              RecordAt(j) /\ log[j].provider_message_id = i
        BY <3>9 DEF Recorded
      <4>2. j \in 1 .. k - 1
        BY <1>1, <2>2
      <4> QED
        BY <1>1, <4>1, <4>2
    <3> QED
      BY <1>2, <3>3, <3>7, <3>8, <3>9
  <2> QED
    BY <1>3, <2>1, <2>2, RecordStep
<1> QED
  BY <1>3 DEF RecordsInOrder

LEMMA StreamInvInit == Init => StreamInv
<1> SUFFICES ASSUME Init PROVE StreamInv
  OBVIOUS
<1>1. /\ log = <<>> /\ chat = <<>> /\ phase = "down" /\ pending_events = <<>>
      /\ cursor = [c \in Channels |-> 1]
      /\ latest_event_ms_by_channel = [c \in Channels |-> 0]
  BY DEF Init, RuntimeInit
<1>2. InFlightOnce /\ NothingSkipped
  BY <1>1 DEF InFlightOnce, NothingSkipped, Running
<1>3. LatestRecorded /\ RecordsInOrder
  BY <1>1 DEF LatestRecorded, RecordsInOrder
<1> QED
  BY <1>2, <1>3, RecordInvInit DEF StreamInv

LEMMA StreamInvNext ==
    ASSUME CallersRecordNothing
    PROVE  StreamInv /\ [Next]_vars => StreamInv'
<1> SUFFICES ASSUME StreamInv, [Next]_vars PROVE StreamInv'
  OBVIOUS
<1>1. /\ RecordInv /\ TypeInv /\ RecordsSeen /\ InFlightOnce
      /\ LatestRecorded /\ NothingSkipped /\ RecordsInOrder
  BY DEF StreamInv, RecordInv, ChatInv, AnswerInv
<1> QED
  BY <1>1, RecordInvNext, InFlightNext, LatestNext, SkippedNext, OrderNext
  DEF StreamInv

(* With no other author of sync.records: the inductive invariant of the     *)
(* records and the streams.  At most one message of a channel waits, behind *)
(* its stream's cursor and until its record is written, and the resume      *)
(* point of a channel is the time of a recorded message.                   *)
THEOREM StreamsAndRecords ==
    ASSUME CallersRecordNothing
    PROVE  Spec => []StreamInv
BY StreamInvInit, StreamInvNext, PTL DEF Spec

(* A stream never moves past a message of the lookback that is neither      *)
(* recorded nor waiting, ...                                               *)
THEOREM StreamsSkipNothing ==
    ASSUME CallersRecordNothing
    PROVE  Spec => []NothingSkipped
<1>1. StreamInv => NothingSkipped
  BY DEF StreamInv
<1> QED
  BY StreamInvInit, StreamInvNext, <1>1, PTL DEF Spec

(* ... and the messages of a channel are recorded in the order of the chat. *)
THEOREM RecordsAreInOrder ==
    ASSUME CallersRecordNothing
    PROVE  Spec => []RecordsInOrder
<1>1. StreamInv => RecordsInOrder
  BY DEF StreamInv
<1> QED
  BY StreamInvInit, StreamInvNext, <1>1, PTL DEF Spec

-----------------------------------------------------------------------------
(***************************************************************************)
(* The worker implements ChannelSync: each of its steps is a step of the   *)
(* abstract service or leaves its state as it is.                          *)
(***************************************************************************)
AbstractVars == <<requestsBar, messagesBar, answersBar, recordsBar>>

AbstractMessage == [channel_id: Channels, request_id: RequestIds \cup {None}]

(* The chat, without its senders, grows as the chat does.                  *)
LEMMA BarShape ==
    ASSUME NEW c \in Seq(ChatMessage), NEW b,
           b = [i \in DOMAIN c |-> [channel_id |-> c[i].channel_id,
                                    request_id |-> c[i].request_id]]
    PROVE  b \in Seq(AbstractMessage) /\ Len(b) = Len(c)
<1>1. Len(c) \in Nat /\ DOMAIN c = 1 .. Len(c)
  BY LenProperties
<1>2. \A i \in 1 .. Len(c) : c[i] \in ChatMessage
  BY ElementOfSeq
<1>3. \A i \in 1 .. Len(c) : [channel_id |-> c[i].channel_id,
                              request_id |-> c[i].request_id]
                                \in AbstractMessage
  BY <1>2 DEF ChatMessage, AbstractMessage
<1>4. b \in [1 .. Len(c) -> AbstractMessage]
  BY <1>1, <1>3
<1>5. b \in Seq(AbstractMessage)
  BY <1>1, <1>4
<1> QED
  BY <1>1, <1>4, <1>5, LenProperties

LEMMA MessagesBarAppend ==
    ASSUME TypeInv, NEW msg \in ChatMessage, chat' = Append(chat, msg)
    PROVE  messagesBar' = Append(messagesBar, [channel_id |-> msg.channel_id,
                                               request_id |-> msg.request_id])
<1> DEFINE m == [channel_id |-> msg.channel_id, request_id |-> msg.request_id]
<1>1. /\ chat \in Seq(ChatMessage) /\ chat' \in Seq(ChatMessage)
      /\ Len(chat) \in Nat
      /\ DOMAIN chat = 1 .. Len(chat)
      /\ DOMAIN chat' = 1 .. Len(chat) + 1 /\ Len(chat') = Len(chat) + 1
      /\ chat'[Len(chat) + 1] = msg
      /\ \A i \in 1 .. Len(chat) : chat'[i] = chat[i]
  BY LenProperties, AppendProperties DEF TypeInv, TypeOK
<1>2. messagesBar \in Seq(AbstractMessage) /\ Len(messagesBar) = Len(chat)
  BY <1>1, BarShape DEF messagesBar
<1>3. messagesBar' \in Seq(AbstractMessage) /\ Len(messagesBar') = Len(chat')
  BY <1>1, BarShape DEF messagesBar
<1>4. m \in AbstractMessage
  BY DEF ChatMessage, AbstractMessage
<1>5. \A i \in 1 .. Len(chat) :
        messagesBar[i] = [channel_id |-> chat[i].channel_id,
                          request_id |-> chat[i].request_id]
  BY <1>1 DEF messagesBar
<1>6. \A i \in 1 .. Len(chat) + 1 :
        messagesBar'[i] = [channel_id |-> chat'[i].channel_id,
                           request_id |-> chat'[i].request_id]
  BY <1>1 DEF messagesBar
<1> DEFINE left == messagesBar'
           right == Append(messagesBar, m)
<1>7. /\ right \in Seq(AbstractMessage) /\ Len(right) = Len(chat) + 1
      /\ \A i \in 1 .. Len(chat) : right[i] = messagesBar[i]
      /\ right[Len(chat) + 1] = m
  BY <1>2, <1>4, AppendProperties
<1>8. left[Len(chat) + 1] = m
  BY <1>1, <1>6
<1>9. ASSUME NEW i \in 1 .. Len(chat) PROVE left[i] = right[i]
  <2>1. i \in 1 .. Len(chat) + 1 /\ chat'[i] = chat[i]
    BY <1>1
  <2>2. messagesBar'[i] = messagesBar[i]
    BY <1>5, <1>6, <2>1
  <2> QED
    BY <1>7, <2>2
<1>10. left \in Seq(AbstractMessage) /\ Len(left) = Len(chat) + 1
  BY <1>1, <1>3
<1> HIDE DEF left, right, m
<1>11. \A i \in 1 .. Len(chat) + 1 : left[i] = right[i]
  BY <1>1, <1>7, <1>8, <1>9
<1>12. left = right
  BY <1>1, <1>7, <1>10, <1>11, SeqEqual
<1> QED
  BY <1>12 DEF left, right, m

-----------------------------------------------------------------------------
(* The requests, the answers and the records, read off a log that grows.   *)
LEMMA BarsKept ==
    ASSUME log' = log
    PROVE  UNCHANGED <<requestsBar, answersBar, recordsBar>>
<1>1. \A i : /\ FirstRequestAt(i)' <=> FirstRequestAt(i)
             /\ ResultAt(i)' <=> ResultAt(i)
             /\ RecordAt(i)' <=> RecordAt(i)
  BY DEF FirstRequestAt, RequestAt, ResultAt, RecordAt
<1> QED
  BY <1>1 DEF requestsBar, answersBar, recordsBar, RequestOf

LEMMA RequestsGrow ==
    ASSUME TypeInv, NEW m \in Message, log' = Append(log, m),
           NEW n, n = Len(log) + 1
    PROVE  requestsBar' =
             requestsBar \cup {[seq |-> i, channel_id |-> m.channel_id,
                                request_id |-> m.request_id] :
                                  i \in {j \in {n} : FirstRequestAt(j)'}}
<1>1. /\ DOMAIN log = 1 .. Len(log) /\ Len(log) \in Nat
      /\ DOMAIN log' = 1 .. Len(log) + 1 /\ log'[n] = m
      /\ \A i \in DOMAIN log : log'[i] = log[i]
      /\ \A i \in DOMAIN log : FirstRequestAt(i)' <=> FirstRequestAt(i)
  BY AppendKeeps DEF TypeInv, TypeOK
<1>2. \A i : i \in DOMAIN log' <=> i \in DOMAIN log \/ i = n
  BY <1>1
<1>3. \A i \in DOMAIN log : RequestOf(i)' = RequestOf(i)
  BY <1>1 DEF RequestOf
<1>4. RequestOf(n)' = [seq |-> n, channel_id |-> m.channel_id,
                       request_id |-> m.request_id]
  BY <1>1 DEF RequestOf
<1>5. \A q : q \in requestsBar' <=>
        \E i \in DOMAIN log' : FirstRequestAt(i)' /\ q = RequestOf(i)'
  BY DEF requestsBar
<1>6. \A q : q \in requestsBar <=>
        \E i \in DOMAIN log : FirstRequestAt(i) /\ q = RequestOf(i)
  BY DEF requestsBar
<1>7. \A q : q \in requestsBar' <=>
        \/ q \in requestsBar
        \/ FirstRequestAt(n)' /\ q = RequestOf(n)'
  BY <1>1, <1>2, <1>3, <1>5, <1>6
<1> QED
  BY <1>4, <1>7

LEMMA AnswersGrow ==
    ASSUME TypeInv, ResultsAnswerFirst, NEW m \in Message,
           log' = Append(log, m), NEW n, n = Len(log) + 1,
           ResultAt(n)' => m.prev_seq \in DOMAIN log
    PROVE  answersBar' =
             answersBar \cup {RequestOf(m.prev_seq) :
                                i \in {j \in {n} : ResultAt(j)'}}
<1>1. /\ DOMAIN log = 1 .. Len(log) /\ Len(log) \in Nat
      /\ DOMAIN log' = 1 .. Len(log) + 1 /\ log'[n] = m
      /\ \A i \in DOMAIN log : log'[i] = log[i]
      /\ \A i \in DOMAIN log : ResultAt(i)' <=> ResultAt(i)
  BY AppendKeeps DEF TypeInv, TypeOK
<1>2. \A i : i \in DOMAIN log' <=> i \in DOMAIN log \/ i = n
  BY <1>1
<1>3. \A i \in DOMAIN log : ResultAt(i) => log[i].prev_seq \in DOMAIN log
  BY DEF ResultsAnswerFirst, FirstRequestAt, RequestAt
<1> DEFINE Req(i) == [seq |-> i, channel_id |-> log[i].channel_id,
                      request_id |-> log[i].request_id]
           ReqN(i) == [seq |-> i, channel_id |-> log'[i].channel_id,
                       request_id |-> log'[i].request_id]
<1>4. \A i \in DOMAIN log : ReqN(i) = Req(i)
  BY <1>1
<1>5. \A q : q \in answersBar' <=>
        \E i \in DOMAIN log' : ResultAt(i)' /\ q = ReqN(log'[i].prev_seq)
  BY DEF answersBar, RequestOf
<1>6. \A q : q \in answersBar <=>
        \E i \in DOMAIN log : ResultAt(i) /\ q = Req(log[i].prev_seq)
  BY DEF answersBar, RequestOf
<1> HIDE DEF Req, ReqN
<1>7. \A i \in DOMAIN log : ResultAt(i) =>
        ReqN(log'[i].prev_seq) = Req(log[i].prev_seq)
  BY <1>1, <1>3, <1>4
<1>8. ResultAt(n)' => ReqN(log'[n].prev_seq) = Req(m.prev_seq)
  BY <1>1, <1>4
<1>9. \A q : q \in answersBar' <=>
        \/ q \in answersBar
        \/ ResultAt(n)' /\ q = Req(m.prev_seq)
  BY <1>1, <1>2, <1>5, <1>6, <1>7, <1>8
<1>10. Req(m.prev_seq) = RequestOf(m.prev_seq)
  BY DEF Req, RequestOf
<1> QED
  BY <1>9, <1>10

LEMMA RecordsGrow ==
    ASSUME TypeInv, RecordsLinked, NEW m \in Message, log' = Append(log, m),
           NEW n, n = Len(log) + 1,
           RecordAt(n)' => m.prev_seq = 0 \/ m.prev_seq \in DOMAIN log
    PROVE  recordsBar' =
             recordsBar \cup
               {[message |-> m.provider_message_id,
                 answers |-> IF m.prev_seq = 0 THEN None
                             ELSE log[m.prev_seq].request_id] :
                    i \in {j \in {n} : RecordAt(j)'}}
<1>1. /\ DOMAIN log = 1 .. Len(log) /\ Len(log) \in Nat
      /\ DOMAIN log' = 1 .. Len(log) + 1 /\ log'[n] = m
      /\ \A i \in DOMAIN log : log'[i] = log[i]
  BY AppendKeeps DEF TypeInv, TypeOK
<1>2. \A i : i \in DOMAIN log' <=> i \in DOMAIN log \/ i = n
  BY <1>1
<1>3. \A i \in DOMAIN log :
        /\ RecordAt(i)' <=> RecordAt(i)
        /\ RecordAt(i) =>
             log[i].prev_seq = 0 \/ log[i].prev_seq \in DOMAIN log
  BY <1>1 DEF RecordAt, RecordsLinked, ResultAt
<1> DEFINE Rec(i) == [message |-> log[i].provider_message_id,
                      answers |-> IF log[i].prev_seq = 0 THEN None
                                  ELSE log[log[i].prev_seq].request_id]
           RecN(i) == [message |-> log'[i].provider_message_id,
                       answers |-> IF log'[i].prev_seq = 0 THEN None
                                   ELSE log'[log'[i].prev_seq].request_id]
           New == [message |-> m.provider_message_id,
                   answers |-> IF m.prev_seq = 0 THEN None
                               ELSE log[m.prev_seq].request_id]
<1>4. ASSUME NEW i \in DOMAIN log, RecordAt(i) PROVE RecN(i) = Rec(i)
  <2>1. log'[i] = log[i]
    BY <1>1
  <2>2. CASE log[i].prev_seq = 0
    BY <2>1, <2>2
  <2>3. CASE log[i].prev_seq # 0
    <3>1. log'[log[i].prev_seq] = log[log[i].prev_seq]
      BY <1>1, <1>3, <1>4, <2>3
    <3> QED
      BY <2>1, <2>3, <3>1
  <2> QED
    BY <2>2, <2>3
<1>5. ASSUME RecordAt(n)' PROVE RecN(n) = New
  <2>1. CASE m.prev_seq = 0
    BY <1>1, <2>1
  <2>2. CASE m.prev_seq # 0
    <3>1. log'[m.prev_seq] = log[m.prev_seq]
      BY <1>1, <1>5, <2>2
    <3> QED
      BY <1>1, <2>2, <3>1
  <2> QED
    BY <2>1, <2>2
<1>6. \A q : q \in recordsBar' <=>
        \E i \in DOMAIN log' : RecordAt(i)' /\ q = RecN(i)
  BY DEF recordsBar
<1>7. \A q : q \in recordsBar <=>
        \E i \in DOMAIN log : RecordAt(i) /\ q = Rec(i)
  BY DEF recordsBar
<1> HIDE DEF Rec, RecN, New
<1>8. \A q : q \in recordsBar' <=>
        q \in recordsBar \/ (RecordAt(n)' /\ q = New)
  BY <1>2, <1>3, <1>4, <1>5, <1>6, <1>7
<1>9. recordsBar' = recordsBar \cup {New : i \in {j \in {n} : RecordAt(j)'}}
  BY <1>8
<1> QED
  BY <1>9 DEF New

-----------------------------------------------------------------------------
(* What the worker has in hand is the abstract service's next step.        *)

(* The task being executed is the oldest request without an answer.        *)
LEMMA TaskIsOldestRequest ==
    ASSUME AnswerInv, Busy, NEW q, q = RequestOf(task.seq)
    PROVE  /\ q \in requestsBar /\ Abstract!Oldest(q)
           /\ q.request_id = task.request_id /\ q.channel_id = task.channel_id
<1>1. /\ log \in Seq(Message) /\ DOMAIN log = 1 .. Len(log)
      /\ ResultsAnswerFirst
  BY LenProperties DEF AnswerInv, LogInv, TypeInv, TypeOK
<1>2. /\ task.seq \in DOMAIN log /\ FirstRequestAt(task.seq)
      /\ task = TaskOf(task.seq, log[task.seq])
      /\ log[task.seq].request_id = task.request_id
      /\ ~Answered(task.request_id)
      /\ \A s \in 1 .. task.seq - 1 :
           FirstRequestAt(s) => Answered(log[s].request_id)
  BY TaskFacts
<1>3. /\ q \in requestsBar /\ q.request_id = task.request_id
      /\ q.channel_id = task.channel_id /\ q.seq = task.seq
  BY <1>2 DEF requestsBar, RequestOf, TaskOf
<1>4. ASSUME q \in answersBar PROVE FALSE
  <2>1. PICK i \in DOMAIN log : ResultAt(i) /\ q = RequestOf(log[i].prev_seq)
    BY <1>4 DEF answersBar
  <2>2. log[i].request_id = task.request_id
    BY <1>1, <1>3, <2>1 DEF RequestOf, ResultsAnswerFirst
  <2> QED
    BY <1>2, <2>1, <2>2 DEF Answered
<1>5. ASSUME NEW p \in requestsBar, p \notin answersBar PROVE q.seq <= p.seq
  <2>1. PICK s \in DOMAIN log : FirstRequestAt(s) /\ p = RequestOf(s)
    BY <1>5 DEF requestsBar
  <2>2. ASSUME s < task.seq PROVE FALSE
    <3>1. Answered(log[s].request_id)
      BY <1>1, <1>2, <2>1, <2>2
    <3>2. PICK i \in DOMAIN log :
            ResultAt(i) /\ log[i].request_id = log[s].request_id
      BY <3>1 DEF Answered
    <3>3. log[i].prev_seq = s
      BY <1>1, <2>1, <3>2, FirstRequestUnique DEF ResultsAnswerFirst
    <3> QED
      BY <1>5, <2>1, <3>2, <3>3 DEF answersBar
  <2> QED
    BY <1>1, <1>2, <1>3, <2>1, <2>2 DEF RequestOf
<1> QED
  BY <1>3, <1>4, <1>5 DEF Abstract!Oldest

(* A message of the chat is, abstractly, at its place.                     *)
LEMMA MessageAt ==
    /\ DOMAIN messagesBar = DOMAIN chat
    /\ \A i \in DOMAIN chat :
         messagesBar[i] = [channel_id |-> chat[i].channel_id,
                           request_id |-> chat[i].request_id]
BY DEF messagesBar

LEMMA OneSideChanges ==
    ASSUME [Next]_vars
    PROVE  log' = log \/ chat' = chat
BY DEF Next, Environment, WorkerStep, Stream, FaultStep, CallerPublishes,
   UserPosts, Start, ScanMessage, ScanConflict, StartPullers, Poll,
   IngestMessage, IngestConflict, EndIngest, TakeTask, TakeUnmappedTask, SendRefused,
   TakeEvent, TakeUnmappedEvent, NothingToDo, SendMessage, PublishResult,
   PublishRecord, CollectMessage, CollectAgain, CollectNothing, Crash,
   SendUnanswered, PublishResultUnknown, PublishRecordUnknown, vars

(* A message is added to the chat: a user posts, or the oldest request is   *)
(* delivered for the first time.                                           *)
LEMMA ChatMaps ==
    ASSUME AnswerInv, NEW msg \in ChatMessage, Posted(msg),
           chat' = Append(chat, msg), log' = log
    PROVE  Abstract!AbstractNext
<1>1. UNCHANGED <<requestsBar, answersBar, recordsBar>>
  BY BarsKept
<1>2. messagesBar' = Append(messagesBar, [channel_id |-> msg.channel_id,
                                          request_id |-> msg.request_id])
  BY MessagesBarAppend DEF AnswerInv
<1>3. CASE msg.request_id = None
  <2>1. msg.channel_id \in Channels
    BY DEF ChatMessage
  <2>2. Abstract!Post
    BY <1>1, <1>2, <1>3, <2>1 DEF Abstract!Post
  <2> QED
    BY <2>2 DEF Abstract!AbstractNext
<1>4. CASE msg.request_id # None
  <2>1. /\ Busy /\ msg.request_id = task.request_id
        /\ msg.channel_id = task.channel_id
        /\ \A i \in DOMAIN chat : chat[i].request_id # task.request_id
    BY <1>4 DEF Posted, Busy
  <2>2. PICK q : q = RequestOf(task.seq)
    OBVIOUS
  <2>3. /\ q \in requestsBar /\ Abstract!Oldest(q)
        /\ q.request_id = task.request_id /\ q.channel_id = task.channel_id
    BY <2>1, <2>2, TaskIsOldestRequest
  <2>4. \A i \in DOMAIN messagesBar : ~Abstract!DeliveredAs(q, i)
    BY <2>1, <2>3, MessageAt DEF Abstract!DeliveredAs
  <2>5. Abstract!Deliver
    BY <1>1, <1>2, <2>1, <2>3, <2>4 DEF Abstract!Deliver
  <2> QED
    BY <2>5 DEF Abstract!AbstractNext
<1> QED
  BY <1>3, <1>4

(* A send.request is committed: a new request, or one that repeats another. *)
LEMMA RequestMaps ==
    ASSUME RecordInv, NEW m \in Message, log' = Append(log, m), chat' = chat,
           m.kind = "send.request"
    PROVE  Abstract!AbstractNext \/ UNCHANGED AbstractVars
<1>1. TypeInv /\ ResultsAnswerFirst /\ RecordsLinked /\ log \in Seq(Message)
  BY DEF RecordInv, ChatInv, AnswerInv, LogInv, TypeInv, TypeOK
<1>2. PICK n : n = Len(log) + 1
  OBVIOUS
<1>3. /\ DOMAIN log = 1 .. Len(log) /\ Len(log) \in Nat
      /\ DOMAIN log' = 1 .. Len(log) + 1 /\ log'[n] = m
      /\ \A i \in DOMAIN log : log'[i] = log[i]
      /\ \A i \in DOMAIN log : RequestAt(i)' <=> RequestAt(i)
  BY <1>1, <1>2, AppendKeeps
<1>4. ~ResultAt(n)' /\ ~RecordAt(n)'
  BY <1>3 DEF ResultAt, RecordAt
<1>5. answersBar' = answersBar /\ recordsBar' = recordsBar
  <2>1. answersBar' = answersBar \cup {RequestOf(m.prev_seq) :
                                         i \in {j \in {n} : ResultAt(j)'}}
    BY <1>1, <1>2, <1>4, AnswersGrow
  <2>2. recordsBar' = recordsBar \cup
               {[message |-> m.provider_message_id,
                 answers |-> IF m.prev_seq = 0 THEN None
                             ELSE log[m.prev_seq].request_id] :
                    i \in {j \in {n} : RecordAt(j)'}}
    BY <1>1, <1>2, <1>4, RecordsGrow
  <2> QED
    BY <1>4, <2>1, <2>2
<1>6. messagesBar' = messagesBar
  BY DEF messagesBar
<1> DEFINE q == [seq |-> n, channel_id |-> m.channel_id,
                 request_id |-> m.request_id]
<1>7. requestsBar' = requestsBar \cup {[seq |-> i, channel_id |-> m.channel_id,
                                        request_id |-> m.request_id] :
                                          i \in {j \in {n} : FirstRequestAt(j)'}}
  BY <1>1, <1>2, RequestsGrow
<1>8. CASE FirstRequestAt(n)'
  <2>1. requestsBar' = requestsBar \cup {q}
    BY <1>7, <1>8
  <2>2. ASSUME NEW p \in requestsBar
        PROVE  p.seq < q.seq /\ p.request_id # q.request_id
    <3>1. PICK s \in DOMAIN log : FirstRequestAt(s) /\ p = RequestOf(s)
      BY DEF requestsBar
    <3>2. s \in 1 .. n - 1 /\ RequestAt(s)' /\ log'[s] = log[s]
      BY <1>2, <1>3, <3>1 DEF FirstRequestAt
    <3>3. log[s].request_id # m.request_id
      BY <1>3, <1>8, <3>2 DEF FirstRequestAt
    <3> QED
      BY <3>1, <3>2, <3>3, <1>2, <1>3 DEF RequestOf
  <2>3. n \in Nat
    BY <1>2, <1>3
  <2>4. q \in requestsBar' \ requestsBar
    BY <2>1, <2>2, <2>3
  <2> HIDE DEF q
  <2>5. Abstract!Ask
    BY <1>5, <1>6, <2>1, <2>2, <2>4 DEF Abstract!Ask
  <2> QED
    BY <2>5 DEF Abstract!AbstractNext
<1>9. CASE ~FirstRequestAt(n)'
  <2>1. requestsBar' = requestsBar
    BY <1>7, <1>9
  <2> QED
    BY <1>5, <1>6, <2>1 DEF AbstractVars
<1> QED
  BY <1>8, <1>9

(* The result of the task in hand is committed: the oldest request, which   *)
(* was delivered, is answered.                                             *)
LEMMA ResultMaps ==
    ASSUME RecordInv, phase = "result", log' = Append(log, ResultMessage),
           chat' = chat
    PROVE  Abstract!AbstractNext
<1> DEFINE m == ResultMessage
<1>1. /\ TypeInv /\ AnswerInv /\ ResultsAnswerFirst /\ RecordsLinked
      /\ log \in Seq(Message) /\ Busy /\ SentFor(task.request_id, message_id)
  BY DEF RecordInv, ChatInv, AnswerInv, LogInv, TypeInv, TypeOK, Busy,
     ResultsNameMessages
<1>2. m \in Message /\ m.kind = "send.result" /\ m.prev_seq = task.seq
  BY <1>1, ResultMessageType DEF Message, ResultMessage
<1> HIDE DEF m
<1>3. log' = Append(log, m)
  BY DEF m
<1>4. PICK n : n = Len(log) + 1
  OBVIOUS
<1>5. /\ DOMAIN log' = 1 .. Len(log) + 1 /\ log'[n] = m /\ Len(log) \in Nat
  BY <1>1, <1>2, <1>3, <1>4, AppendKeeps
<1>6. /\ ResultAt(n)' /\ ~FirstRequestAt(n)' /\ ~RecordAt(n)'
  BY <1>2, <1>4, <1>5
  DEF ResultAt, RecordAt, FirstRequestAt, RequestAt, m, ResultMessage
<1>7. requestsBar' = requestsBar /\ recordsBar' = recordsBar
  <2>1. requestsBar' = requestsBar \cup
               {[seq |-> i, channel_id |-> m.channel_id,
                 request_id |-> m.request_id] :
                    i \in {j \in {n} : FirstRequestAt(j)'}}
    BY <1>1, <1>2, <1>3, <1>4, RequestsGrow
  <2>2. recordsBar' = recordsBar \cup
               {[message |-> m.provider_message_id,
                 answers |-> IF m.prev_seq = 0 THEN None
                             ELSE log[m.prev_seq].request_id] :
                    i \in {j \in {n} : RecordAt(j)'}}
    BY <1>1, <1>2, <1>3, <1>4, <1>6, RecordsGrow
  <2> QED
    BY <1>6, <2>1, <2>2
<1>8. messagesBar' = messagesBar
  BY DEF messagesBar
<1>9. PICK q : q = RequestOf(task.seq)
  OBVIOUS
<1>10. /\ q \in requestsBar /\ Abstract!Oldest(q)
       /\ q.request_id = task.request_id
  BY <1>1, <1>9, TaskIsOldestRequest
<1>11. task.seq \in DOMAIN log
  BY <1>1, TaskFacts
<1>12. answersBar' = answersBar \cup {q}
  BY <1>1, <1>2, <1>3, <1>4, <1>6, <1>9, <1>11, AnswersGrow
<1>13. message_id \in DOMAIN messagesBar /\ Abstract!DeliveredAs(q, message_id)
  BY <1>1, <1>10, MessageAt DEF SentFor, Abstract!DeliveredAs
<1>14. Abstract!Answer
  BY <1>7, <1>8, <1>10, <1>12, <1>13 DEF Abstract!Answer
<1> QED
  BY <1>14 DEF Abstract!AbstractNext

(* The message in hand is recorded: it was not recorded before, and if the  *)
(* bot sent it for a request, that request is answered and the record says  *)
(* so.                                                                     *)
LEMMA RecordMaps ==
    ASSUME RecordInv, phase = "record", log' = Append(log, RecordMessage),
           chat' = chat
    PROVE  Abstract!AbstractNext
<1> DEFINE m == RecordMessage
<1>1. /\ TypeInv /\ ChatInv /\ ResultsAnswerFirst /\ RecordsLinked
      /\ RecordReady /\ RecordsSeen
      /\ log \in Seq(Message) /\ message_id \in DOMAIN chat
  BY DEF RecordInv, ChatInv, AnswerInv, LogInv, TypeInv, TypeOK, WorkInHand
<1>2. /\ m \in Message /\ m.kind = "sync.record"
      /\ m.provider_message_id = message_id
      /\ m.prev_seq = send_result_by_provider_message[KeyOf(message_id)]
  BY <1>1, RecordMessageType DEF Message, RecordMessage, KeyOf
<1> HIDE DEF m
<1>3. log' = Append(log, m)
  BY DEF m
<1>4. PICK n : n = Len(log) + 1
  OBVIOUS
<1>5. /\ DOMAIN log = 1 .. Len(log) /\ Len(log) \in Nat
      /\ DOMAIN log' = 1 .. Len(log) + 1 /\ log'[n] = m
  BY <1>1, <1>2, <1>3, <1>4, AppendKeeps
<1>6. /\ RecordAt(n)' /\ ~FirstRequestAt(n)' /\ ~ResultAt(n)'
  BY <1>2, <1>4, <1>5 DEF ResultAt, RecordAt, FirstRequestAt, RequestAt
<1>7. IF chat[message_id].request_id = None THEN m.prev_seq = 0
      ELSE /\ m.prev_seq \in DOMAIN log /\ ResultAt(m.prev_seq)
           /\ log[m.prev_seq].request_id = chat[message_id].request_id
  BY <1>1, <1>2, LinkInHand
<1>8. requestsBar' = requestsBar /\ answersBar' = answersBar
  <2>1. requestsBar' = requestsBar \cup
               {[seq |-> i, channel_id |-> m.channel_id,
                 request_id |-> m.request_id] :
                    i \in {j \in {n} : FirstRequestAt(j)'}}
    BY <1>1, <1>2, <1>3, <1>4, RequestsGrow
  <2>2. answersBar' = answersBar \cup {RequestOf(m.prev_seq) :
                                         i \in {j \in {n} : ResultAt(j)'}}
    BY <1>1, <1>2, <1>3, <1>4, <1>6, AnswersGrow
  <2> QED
    BY <1>6, <2>1, <2>2
<1>9. recordsBar' = recordsBar \cup
          {[message |-> message_id,
            answers |-> messagesBar[message_id].request_id]}
  <2>1. recordsBar' = recordsBar \cup
               {[message |-> m.provider_message_id,
                 answers |-> IF m.prev_seq = 0 THEN None
                             ELSE log[m.prev_seq].request_id] :
                    i \in {j \in {n} : RecordAt(j)'}}
    BY <1>1, <1>2, <1>3, <1>4, <1>7, RecordsGrow
  <2>2. messagesBar[message_id].request_id =
          IF m.prev_seq = 0 THEN None ELSE log[m.prev_seq].request_id
    BY <1>1, <1>5, <1>7, MessageAt
  <2> QED
    BY <1>2, <1>6, <2>1, <2>2
<1>10. messagesBar' = messagesBar
  BY DEF messagesBar
<1>11. ASSUME NEW x \in recordsBar PROVE x.message # message_id
  <2>1. PICK j \in DOMAIN log :
          RecordAt(j) /\ x.message = log[j].provider_message_id
    BY DEF recordsBar
  <2>2. /\ KeyAt(j) \in inbound_seen /\ KeyOf(message_id) \notin inbound_seen
        /\ chat[log[j].provider_message_id].channel_id = log[j].channel_id
    BY <1>1, <2>1 DEF RecordsSeen, Running
  <2> QED
    BY <2>1, <2>2 DEF KeyAt, KeyOf
<1>12. ASSUME messagesBar[message_id].request_id # None
       PROVE  \E q \in answersBar : Abstract!DeliveredAs(q, message_id)
  <2>1. chat[message_id].request_id # None
    BY <1>1, <1>12, MessageAt
  <2>2. PICK p \in DOMAIN log : /\ p = m.prev_seq /\ ResultAt(p)
                                /\ log[p].request_id = chat[message_id].request_id
    BY <1>7, <2>1
  <2>3. RequestOf(log[p].prev_seq) \in answersBar
    BY <2>2 DEF answersBar
  <2>4. log[log[p].prev_seq].request_id = log[p].request_id
    BY <1>1, <2>2 DEF ResultsAnswerFirst
  <2>5. Abstract!DeliveredAs(RequestOf(log[p].prev_seq), message_id)
    BY <1>1, <2>2, <2>4, MessageAt DEF Abstract!DeliveredAs, RequestOf
  <2> QED
    BY <2>3, <2>5
<1>13. message_id \in DOMAIN messagesBar
  BY <1>1, MessageAt
<1>14. Abstract!Record
  BY <1>8, <1>9, <1>10, <1>11, <1>12, <1>13 DEF Abstract!Record
<1> QED
  BY <1>14 DEF Abstract!AbstractNext

(* What a caller that writes no records may write beside requests.         *)
LEMMA OtherMaps ==
    ASSUME CallersRecordNothing, RecordInv, NEW m \in CallerMessages,
           m.kind # "send.request", log' = Append(log, m), chat' = chat
    PROVE  UNCHANGED AbstractVars
<1>1. /\ TypeInv /\ ResultsAnswerFirst /\ RecordsLinked
      /\ log \in Seq(Message)
  BY DEF RecordInv, ChatInv, AnswerInv, LogInv, TypeInv, TypeOK
<1>2. m \in Message /\ m.principal # Worker /\ m.kind # "sync.record"
  BY P2PAssumption DEF CallersRecordNothing
<1>3. PICK n : n = Len(log) + 1
  OBVIOUS
<1>4. DOMAIN log' = 1 .. Len(log) + 1 /\ log'[n] = m
  BY <1>1, <1>2, <1>3, AppendKeeps
<1>5. ~FirstRequestAt(n)' /\ ~ResultAt(n)' /\ ~RecordAt(n)'
  BY <1>2, <1>4 DEF ResultAt, RecordAt, FirstRequestAt, RequestAt
<1>6. requestsBar' = requestsBar \cup
               {[seq |-> i, channel_id |-> m.channel_id,
                 request_id |-> m.request_id] :
                    i \in {j \in {n} : FirstRequestAt(j)'}}
  BY <1>1, <1>2, <1>3, RequestsGrow
<1>7. answersBar' = answersBar \cup {RequestOf(m.prev_seq) :
                                      i \in {j \in {n} : ResultAt(j)'}}
  BY <1>1, <1>2, <1>3, <1>5, AnswersGrow
<1>8. recordsBar' = recordsBar \cup
               {[message |-> m.provider_message_id,
                 answers |-> IF m.prev_seq = 0 THEN None
                             ELSE log[m.prev_seq].request_id] :
                    i \in {j \in {n} : RecordAt(j)'}}
  BY <1>1, <1>2, <1>3, <1>5, RecordsGrow
<1>9. messagesBar' = messagesBar
  BY DEF messagesBar
<1> QED
  BY <1>5, <1>6, <1>7, <1>8, <1>9 DEF AbstractVars

LEMMA StepMaps ==
    ASSUME CallersRecordNothing, RecordInv, [Next]_vars
    PROVE  [Abstract!AbstractNext]_AbstractVars
<1>1. TypeInv /\ AnswerInv
  BY DEF RecordInv, ChatInv, AnswerInv
<1>2. CASE log' = log /\ chat' = chat
  BY <1>2, BarsKept DEF messagesBar, AbstractVars
<1>3. ASSUME NEW msg \in ChatMessage, Posted(msg), log' = log,
             chat' = Append(chat, msg)
      PROVE  Abstract!AbstractNext
  BY <1>1, <1>3, ChatMaps
<1>4. ASSUME NEW m \in Message, Written(m), chat' = chat,
             log' = Append(log, m)
      PROVE  Abstract!AbstractNext \/ UNCHANGED AbstractVars
  BY <1>4, RequestMaps, OtherMaps, ResultMaps, RecordMaps DEF Written
<1> QED
  BY <1>1, <1>2, <1>3, <1>4, OneSideChanges, LogGrows, ChatGrows

(* The worker implements ChannelSync: through exits at any point, restarts, *)
(* lost answers, repeated requests and redelivered messages, requests are   *)
(* delivered and answered one at a time, oldest first, each once, and every *)
(* message is recorded once, after the answer it belongs to.               *)
THEOREM WorkerIsChannelSync ==
    ASSUME CallersRecordNothing
    PROVE  Spec => ImplementsChannelSync
<1>1. Init => Abstract!AbstractInit
  BY DEF Init, Abstract!AbstractInit, requestsBar, messagesBar, answersBar,
     recordsBar, RecordAt, ResultAt, FirstRequestAt, RequestAt
<1>2. RecordInv /\ [Next]_vars => [Abstract!AbstractNext]_AbstractVars
  BY StepMaps
<1>3. RecordInv /\ [Next]_vars => RecordInv'
  BY RecordInvNext
<1> QED
  BY <1>1, <1>2, <1>3, RecordInvInit, PTL
  DEF Spec, ImplementsChannelSync, Abstract!AbstractSpec, Abstract!avars,
      AbstractVars

=============================================================================
