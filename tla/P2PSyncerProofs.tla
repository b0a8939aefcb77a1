-------------------------- MODULE P2PSyncerProofs ---------------------------
(***************************************************************************)
(* Theorems about P2PSyncer, for every set of channels, callers' messages  *)
(* and bounds: types, the results of the worker, and the chat.             *)
(***************************************************************************)
EXTENDS P2PSyncerInv, SequenceTheorems, TLAPS

-----------------------------------------------------------------------------
(* Each operation of RuntimeState keeps the dictionaries well typed.         *)

LEMMA RuntimeInitType == RuntimeInit => RuntimeTypeOK
BY DEF RuntimeInit, RuntimeTypeOK

LEMMA RuntimeLostType == RuntimeLost => RuntimeTypeOK'
BY DEF RuntimeLost, RuntimeTypeOK

LEMMA TaskOfType ==
    ASSUME NEW seq \in Nat \ {0}, NEW m \in SendRequest
    PROVE  TaskOf(seq, m) \in OutboundTask
BY DEF TaskOf, OutboundTask, SendRequest

LEMMA AddSendRequestType ==
    ASSUME RuntimeTypeOK, NEW seq \in Nat \ {0}, NEW m \in SendRequest,
           AddSendRequest(seq, m)
    PROVE  RuntimeTypeOK'
<1>1. TaskOf(seq, m) \in OutboundTask
  BY TaskOfType
<1>2. m.request_id \in RequestIds
  BY DEF SendRequest
<1> QED
  BY <1>1, <1>2 DEF AddSendRequest, RuntimeTypeOK

LEMMA AddSendResultType ==
    ASSUME RuntimeTypeOK, NEW seq \in Nat \ {0}, NEW m \in SendResult,
           AddSendResult(seq, m)
    PROVE  RuntimeTypeOK'
<1>1. m.request_id \in RequestIds /\ m.channel_id \in Channels
  BY DEF SendResult
<1> QED
  BY <1>1 DEF AddSendResult, RuntimeTypeOK, runtime, Unblocked

LEMMA MarkSendResultSuccessType ==
    ASSUME RuntimeTypeOK, NEW t \in OutboundTask, NEW i \in MessageIds,
           NEW seq \in Nat \ {0}, MarkSendResultSuccess(t, i, seq)
    PROVE  RuntimeTypeOK'
<1>1. t.request_id \in RequestIds /\ t.channel_id \in Channels
  BY DEF OutboundTask
<1> QED
  BY <1>1 DEF MarkSendResultSuccess, RuntimeTypeOK, Unblocked

LEMMA MarkSyncRecordType ==
    ASSUME RuntimeTypeOK, NEW key \in InboundKey, NEW c \in Channels,
           NEW event_ms \in Nat, MarkSyncRecord(key, c, event_ms)
    PROVE  RuntimeTypeOK'
BY DEF MarkSyncRecord, RuntimeTypeOK

LEMMA AddSyncRecordType ==
    ASSUME RuntimeTypeOK, NEW m \in SyncRecord, AddSyncRecord(m)
    PROVE  RuntimeTypeOK'
<1>1. /\ <<m.channel_id, m.provider_message_id>> \in InboundKey
      /\ m.channel_id \in Channels /\ m.event_ms \in Nat
  BY DEF SyncRecord, InboundKey
<1> QED
  BY <1>1, MarkSyncRecordType DEF AddSyncRecord

LEMMA NextPendingTaskType ==
    ASSUME RuntimeTypeOK, NEW e \in pending_heap, NextPendingTask(e)
    PROVE  /\ RuntimeTypeOK'
           /\ requests_by_id[e[2]] \in OutboundTask
<1>1. e[2] \in RequestIds
  BY DEF RuntimeTypeOK
<1> QED
  BY <1>1 DEF NextPendingTask, FirstReady, Ready, Live, RuntimeTypeOK

LEMMA NoPendingTaskType ==
    ASSUME RuntimeTypeOK, NoPendingTask
    PROVE  RuntimeTypeOK'
BY DEF NoPendingTask, RuntimeTypeOK

(* Replaying any message keeps the types.                                   *)
LEMMA ReplayMessageType ==
    ASSUME RuntimeTypeOK, NEW seq \in Nat \ {0}, NEW m \in Message,
           ReplayMessage(seq, m)
    PROVE  RuntimeTypeOK'
<1>1. CASE m \in SendRequest
  <2>1. m.kind = "send.request"
    BY <1>1 DEF SendRequest
  <2> QED
    BY <1>1, <2>1, AddSendRequestType DEF ReplayMessage
<1>2. CASE m \in SendResult
  <2>1. m.kind = "send.result"
    BY <1>2 DEF SendResult
  <2> QED
    BY <1>2, <2>1, AddSendResultType DEF ReplayMessage
<1>3. CASE m \in SyncRecord
  <2>1. m.kind = "sync.record"
    BY <1>3 DEF SyncRecord
  <2> QED
    BY <1>3, <2>1, AddSyncRecordType DEF ReplayMessage
<1> QED
  BY <1>1, <1>2, <1>3 DEF Message

-----------------------------------------------------------------------------
(* What an entry of the log is, by its kind.                                *)
LEMMA MessageKinds ==
    ASSUME NEW m \in Message
    PROVE  /\ m.kind = "send.request" => m \in SendRequest
           /\ m.kind = "send.result" => m \in SendResult
           /\ m.kind = "sync.record" => m \in SyncRecord
BY DEF Message, SendRequest, SendResult, SyncRecord

(* Removing an entry keeps the others, in order.                            *)
LEMMA RemoveAtEntries ==
    ASSUME NEW S, NEW s \in Seq(S), NEW n \in DOMAIN s
    PROVE  /\ RemoveAt(s, n) \in Seq(S)
           /\ Len(RemoveAt(s, n)) = Len(s) - 1
           /\ \A k \in 1 .. Len(s) - 1 :
                RemoveAt(s, n)[k] = IF k < n THEN s[k] ELSE s[k + 1]
<1>1. /\ Len(s) \in Nat /\ n \in 1 .. Len(s) /\ n \in Int
      /\ \A k \in 1 .. Len(s) : s[k] \in S
  BY LenProperties, ElementOfSeq
<1> DEFINE left == SubSeq(s, 1, n - 1)
           right == SubSeq(s, n + 1, Len(s))
<1>2. /\ left \in Seq(S) /\ Len(left) = n - 1
      /\ \A k \in 1 .. n - 1 : left[k] = s[k]
  <2>1. \A k \in 1 .. n - 1 : s[k] \in S
    BY <1>1
  <2>2. /\ SubSeq(s, 1, n - 1) \in Seq(S)
        /\ Len(SubSeq(s, 1, n - 1))
             = IF 1 <= n - 1 THEN n - 1 - 1 + 1 ELSE 0
        /\ \A k \in 1 .. n - 1 - 1 + 1 : SubSeq(s, 1, n - 1)[k] = s[1 + k - 1]
    BY <1>1, <2>1, SubSeqProperties
  <2> QED
    BY <1>1, <2>2
<1>3. /\ right \in Seq(S) /\ Len(right) = Len(s) - n
      /\ \A k \in 1 .. Len(s) - n : right[k] = s[n + k]
  <2>1. \A k \in n + 1 .. Len(s) : s[k] \in S
    BY <1>1
  <2>2. /\ SubSeq(s, n + 1, Len(s)) \in Seq(S)
        /\ Len(SubSeq(s, n + 1, Len(s)))
             = IF n + 1 <= Len(s) THEN Len(s) - (n + 1) + 1 ELSE 0
        /\ \A k \in 1 .. Len(s) - (n + 1) + 1 :
             SubSeq(s, n + 1, Len(s))[k] = s[n + 1 + k - 1]
    BY <1>1, <2>1, SubSeqProperties
  <2> QED
    BY <1>1, <2>2
<1>4. RemoveAt(s, n) = left \o right
  BY DEF RemoveAt
<1> HIDE DEF left, right
<1>5. /\ left \o right \in Seq(S)
      /\ Len(left \o right) = Len(left) + Len(right)
      /\ \A k \in 1 .. Len(left) + Len(right) : (left \o right)[k] =
           IF k <= Len(left) THEN left[k] ELSE right[k - Len(left)]
  BY <1>2, <1>3, ConcatProperties
<1>a. Len(s) \in Nat /\ n \in 1 .. Len(s)
  BY <1>1
<1>b. Len(left) = n - 1 /\ Len(right) = Len(s) - n
  BY <1>2, <1>3
<1>c. Len(left) + Len(right) = Len(s) - 1
  BY <1>a, <1>b
<1>6. ASSUME NEW k \in 1 .. Len(s) - 1, k < n
      PROVE  RemoveAt(s, n)[k] = s[k]
  <2>1. k \in 1 .. n - 1 /\ k <= n - 1
    BY <1>a, <1>6
  <2>2. RemoveAt(s, n)[k] = left[k]
    BY <1>4, <1>5, <1>b, <1>c, <2>1
  <2> QED
    BY <1>2, <2>1, <2>2
<1>7. ASSUME NEW k \in 1 .. Len(s) - 1, ~(k < n)
      PROVE  RemoveAt(s, n)[k] = s[k + 1]
  <2>a. ~(k <= n - 1) /\ k - n + 1 \in 1 .. Len(s) - n
        /\ k - (n - 1) = k - n + 1
    BY <1>a, <1>7
  <2>1. /\ k \in 1 .. Len(left) + Len(right) /\ ~(k <= Len(left))
        /\ k - Len(left) = k - n + 1 /\ k - n + 1 \in 1 .. Len(s) - n
    BY <1>b, <1>c, <2>a
  <2>2. RemoveAt(s, n)[k] = right[k - n + 1]
    BY <1>4, <1>5, <2>1
  <2>3. right[k - n + 1] = s[n + (k - n + 1)]
    BY <1>3, <2>1
  <2>4. n + (k - n + 1) = k + 1
    BY <1>1
  <2> QED
    BY <2>2, <2>3, <2>4
<1>8. RemoveAt(s, n) \in Seq(S) /\ Len(RemoveAt(s, n)) = Len(s) - 1
  BY <1>4, <1>5, <1>c
<1> QED
  BY <1>6, <1>7, <1>8

LEMMA PendingWithout ==
    ASSUME TypeInv, NEW n \in DOMAIN pending_events
    PROVE  /\ RemoveAt(pending_events, n) \in Seq(MessageIds)
           /\ \A k \in DOMAIN RemoveAt(pending_events, n) :
                RemoveAt(pending_events, n)[k] \in DOMAIN chat
<1> DEFINE rest == RemoveAt(pending_events, n)
<1>1. pending_events \in Seq(MessageIds)
  BY DEF TypeInv, TypeOK
<1>2. /\ rest \in Seq(MessageIds)
      /\ Len(rest) = Len(pending_events) - 1
      /\ \A k \in 1 .. Len(pending_events) - 1 : rest[k] =
           IF k < n THEN pending_events[k] ELSE pending_events[k + 1]
  BY <1>1, RemoveAtEntries
<1> HIDE DEF rest
<1>3. ASSUME NEW k \in DOMAIN rest PROVE rest[k] \in DOMAIN chat
  <2>1. k \in 1 .. Len(pending_events) - 1
    BY <1>2
  <2>2. k \in DOMAIN pending_events /\ k + 1 \in DOMAIN pending_events
    BY <1>1, <2>1
  <2> QED
    BY <1>2, <2>1, <2>2 DEF TypeInv, WorkInHand
<1> QED
  BY <1>2, <1>3 DEF rest

(* The process exits: every variable of the worker is reset.                *)
LEMMA ExitType ==
    ASSUME TypeInv, ExitWorker, log' \in Seq(Message),
           chat' \in Seq(ChatMessage), DOMAIN chat' \subseteq MessageIds,
           faults' \in Nat
    PROVE  TypeInv'
<1>1. RuntimeTypeOK'
  BY RuntimeLostType DEF ExitWorker
<1> QED
  BY <1>1 DEF ExitWorker, TypeInv, TypeOK, WorkInHand, Phases

LEMMA ResultMessageType ==
    ASSUME TypeInv, phase = "result"
    PROVE  ResultMessage \in SendResult /\ task \in OutboundTask
<1>1. task \in OutboundTask /\ message_id \in MessageIds
  BY DEF TypeInv, TypeOK, WorkInHand
<1>2. Worker \in Principals
  BY P2PAssumption
<1> QED
  BY <1>1, <1>2 DEF ResultMessage, SendResult, OutboundTask

LEMMA RecordMessageType ==
    ASSUME TypeInv, phase = "record"
    PROVE  /\ RecordMessage \in SyncRecord
           /\ KeyOf(message_id) \in InboundKey
           /\ chat[message_id].channel_id \in Channels
           /\ message_id \in Nat
<1>1. message_id \in MessageIds /\ message_id \in Nat
  BY RuntimeAssumption DEF TypeInv, TypeOK, WorkInHand
<1>2. chat[message_id] \in ChatMessage
  BY DEF TypeInv, TypeOK, WorkInHand
<1>3. /\ chat[message_id].channel_id \in Channels
      /\ chat[message_id].sender \in Principals
  BY <1>2 DEF ChatMessage
<1>4. <<chat[message_id].channel_id, message_id>> \in InboundKey
  BY <1>1, <1>3 DEF InboundKey
<1>5. send_result_by_provider_message
        [<<chat[message_id].channel_id, message_id>>] \in Nat
  BY <1>4 DEF TypeInv, TypeOK, RuntimeTypeOK
<1>6. OtherParticipant(chat[message_id].channel_id, chat[message_id].sender)
        \in SUBSET Principals
  BY <1>3, P2PAssumption DEF OtherParticipant
<1> QED
  BY <1>1, <1>3, <1>4, <1>5, <1>6 DEF RecordMessage, SyncRecord, KeyOf

(* The provider's side of a send.                                           *)
LEMMA AcceptSendType ==
    ASSUME TypeInv, phase = "send", AcceptSend
    PROVE  /\ chat' \in Seq(ChatMessage) /\ DOMAIN chat' \subseteq MessageIds
           /\ DOMAIN chat \subseteq DOMAIN chat'
           /\ \E i \in DOMAIN chat' : chat'[i].request_id = task.request_id
<1>1. task \in OutboundTask
  BY DEF TypeInv, TypeOK, WorkInHand
<1>2. CASE \E i \in DOMAIN chat : SentFor(task.request_id, i)
  BY <1>2 DEF AcceptSend, SentFor, TypeInv, TypeOK
<1>3. CASE ~ \E i \in DOMAIN chat : SentFor(task.request_id, i)
  <2> DEFINE msg == [channel_id |-> task.channel_id,
                     sender |-> task.principal,
                     request_id |-> task.request_id]
  <2>1. msg \in ChatMessage
    BY <1>1 DEF ChatMessage, OutboundTask
  <2>2. chat' = Append(chat, msg) /\ Len(chat) + 1 \in MessageIds
    BY <1>3 DEF AcceptSend
  <2>3. chat \in Seq(ChatMessage) /\ DOMAIN chat \subseteq MessageIds
    BY DEF TypeInv, TypeOK
  <2>4. chat'[Len(chat) + 1] = msg /\ Len(chat) + 1 \in DOMAIN chat'
    BY <2>1, <2>2, <2>3
  <2> HIDE DEF msg
  <2>5. /\ chat' \in Seq(ChatMessage) /\ DOMAIN chat' \subseteq MessageIds
        /\ DOMAIN chat \subseteq DOMAIN chat'
    BY <2>1, <2>2, <2>3
  <2> QED
    BY <2>4, <2>5 DEF msg
<1> QED
  BY <1>2, <1>3

-----------------------------------------------------------------------------
LEMMA TypeInvInit == Init => TypeInv
<1> SUFFICES ASSUME Init PROVE TypeInv
  OBVIOUS
<1>1. RuntimeTypeOK
  BY RuntimeInitType DEF Init
<1> QED
  BY <1>1 DEF Init, TypeInv, TypeOK, WorkInHand, Phases

LEMMA TypeInvNext == TypeInv /\ [Next]_vars => TypeInv'
<1> SUFFICES ASSUME TypeInv, [Next]_vars PROVE TypeInv'
  OBVIOUS
<1> USE DEF Phases
<1>1. CASE Environment
  <2>1. ASSUME NEW m \in CallerMessages, CallerPublishes(m) PROVE TypeInv'
    <3>1. m \in Message
      BY P2PAssumption
    <3> QED
      BY <2>1, <3>1 DEF CallerPublishes, TypeInv, TypeOK, RuntimeTypeOK,
                        WorkInHand, runtime, worker
  <2>2. ASSUME NEW c \in Channels, NEW user \in Principals, UserPosts(c, user)
             PROVE TypeInv'
    <3> DEFINE msg == [channel_id |-> c, sender |-> user,
                       request_id |-> None]
    <3>1. msg \in ChatMessage
      BY P2PAssumption DEF ChatMessage
    <3>2. chat' = Append(chat, msg) /\ Len(chat) + 1 \in MessageIds
      BY <2>2 DEF UserPosts
    <3> HIDE DEF msg
    <3> QED
      BY <2>2, <3>1, <3>2 DEF UserPosts, TypeInv, TypeOK, RuntimeTypeOK,
                              WorkInHand, runtime, worker
  <2> QED
    BY <1>1, <2>1, <2>2 DEF Environment
<1>2. CASE Start \/ StartPullers \/ Poll \/ EndIngest \/ CollectNothing
  <2>1. ASSUME NEW c \in Channels PROVE ResumeAt(c) \in Nat \ {0}
    <3>1. latest_event_ms_by_channel[c] \in Nat /\ Len(chat) \in Nat
      BY LenProperties DEF TypeInv, TypeOK, RuntimeTypeOK
    <3> QED
      BY <3>1, P2PAssumption DEF ResumeAt
  <2> QED
    BY <1>2, <2>1 DEF Start, StartPullers, Poll, EndIngest, CollectNothing,
         TypeInv, TypeOK, RuntimeTypeOK, WorkInHand, runtime
<1>3. CASE ScanMessage
  <2>1. log[next_seq] \in Message /\ next_seq \in Nat \ {0}
    BY <1>3 DEF ScanMessage, TypeInv, TypeOK, WorkInHand
  <2>2. RuntimeTypeOK'
    BY <1>3, <2>1, ReplayMessageType DEF ScanMessage, TypeInv, TypeOK
  <2> QED
    BY <1>3, <2>2 DEF ScanMessage, TypeInv, TypeOK, WorkInHand
<1>4. CASE IngestMessage
  <2>1. log[next_seq] \in Message /\ next_seq \in Nat \ {0}
    BY <1>4 DEF IngestMessage, TypeInv, TypeOK, WorkInHand
  <2>2. RuntimeTypeOK'
    <3>1. CASE log[next_seq].kind = "send.request"
      BY <1>4, <2>1, <3>1, MessageKinds, AddSendRequestType
      DEF IngestMessage, TypeInv, TypeOK
    <3>2. CASE log[next_seq].kind # "send.request"
      BY <1>4, <3>2 DEF IngestMessage, TypeInv, TypeOK, RuntimeTypeOK, runtime
    <3> QED
      BY <3>1, <3>2
  <2> QED
    BY <1>4, <2>2 DEF IngestMessage, TypeInv, TypeOK, WorkInHand
<1>5. CASE ScanConflict \/ IngestConflict \/ TakeUnmappedTask \/ SendRefused
           \/ TakeUnmappedEvent \/ Crash
  <2>1. ExitWorker /\ log' = log /\ chat' = chat /\ faults' \in Nat
    BY <1>5 DEF ScanConflict, IngestConflict, TakeUnmappedTask, SendRefused,
                TakeUnmappedEvent, Crash, Fault, TypeInv, TypeOK
  <2> QED
    BY <2>1, ExitType DEF TypeInv, TypeOK
<1>6. ASSUME NEW c \in Channels, CollectMessage(c) PROVE TypeInv'
  <2>1. PICK i \in DOMAIN chat :
          /\ pending_events' = Append(pending_events, i)
          /\ cursor' = [cursor EXCEPT ![c] = i + 1]
    BY <1>6 DEF CollectMessage
  <2>2. i \in MessageIds /\ i + 1 \in Nat \ {0}
    BY DEF TypeInv, TypeOK
  <2>3. /\ cursor' \in [Channels -> Nat \ {0}]
        /\ pending_events' \in Seq(MessageIds)
        /\ \A n \in DOMAIN pending_events' : pending_events'[n] \in DOMAIN chat
    BY <2>1, <2>2 DEF TypeInv, TypeOK, WorkInHand
  <2> QED
    BY <1>6, <2>3 DEF CollectMessage, TypeInv, TypeOK, RuntimeTypeOK,
                      WorkInHand, runtime
<1>7. ASSUME NEW c \in Channels, CollectAgain(c) PROVE TypeInv'
  <2>1. PICK i \in DOMAIN chat : pending_events' = Append(pending_events, i)
    BY <1>7 DEF CollectAgain
  <2>2. i \in MessageIds
    BY DEF TypeInv, TypeOK
  <2>3. /\ pending_events' \in Seq(MessageIds)
        /\ \A n \in DOMAIN pending_events' : pending_events'[n] \in DOMAIN chat
    BY <2>1, <2>2 DEF TypeInv, TypeOK, WorkInHand
  <2> QED
    BY <1>7, <2>3 DEF CollectAgain, TypeInv, TypeOK, RuntimeTypeOK,
                      WorkInHand, runtime
<1>8. CASE TakeTask
  <2>1. PICK e \in pending_heap :
          NextPendingTask(e) /\ task' = requests_by_id[e[2]]
    BY <1>8 DEF TakeTask
  <2>2. RuntimeTypeOK' /\ task' \in OutboundTask
    BY <2>1, NextPendingTaskType DEF TypeInv, TypeOK
  <2>3. task' # None
    BY <2>2, RuntimeAssumption
  <2> QED
    BY <1>8, <2>2, <2>3 DEF TakeTask, TypeInv, TypeOK, WorkInHand
<1>9. CASE TakeEvent
  <2>1. RuntimeTypeOK'
    BY <1>9, NoPendingTaskType
    DEF TakeEvent, TypeInv, TypeOK, RuntimeTypeOK, runtime
  <2>2. PICK n \in DOMAIN pending_events :
          IF KeyOf(pending_events[n]) \in inbound_seen
            THEN /\ pending_events' = RemoveAt(pending_events, n)
                 /\ phase' = "poll"
                 /\ UNCHANGED message_id
            ELSE /\ SenderMapped(pending_events[n])
                 /\ message_id' = pending_events[n]
                 /\ phase' = "record"
                 /\ UNCHANGED pending_events
    BY <1>9 DEF TakeEvent
  <2>3. pending_events \in Seq(MessageIds)
    BY DEF TypeInv, TypeOK
  <2>4. pending_events[n] \in MessageIds /\ pending_events[n] \in DOMAIN chat
    BY <2>3 DEF TypeInv, WorkInHand
  <2>5. /\ pending_events' \in Seq(MessageIds)
        /\ \A k \in DOMAIN pending_events' : pending_events'[k] \in DOMAIN chat
    BY <2>2, <2>3, PendingWithout DEF TypeInv, WorkInHand
  <2> QED
    BY <1>9, <2>1, <2>2, <2>4, <2>5
    DEF TakeEvent, TypeInv, TypeOK, WorkInHand
<1>10. CASE NothingToDo
  <2>1. RuntimeTypeOK'
    BY <1>10, NoPendingTaskType DEF NothingToDo, TypeInv, TypeOK
  <2> QED
    BY <1>10, <2>1 DEF NothingToDo, TypeInv, TypeOK, WorkInHand
<1>11. CASE SendMessage
  <2>1. /\ chat' \in Seq(ChatMessage) /\ DOMAIN chat' \subseteq MessageIds
        /\ DOMAIN chat \subseteq DOMAIN chat'
        /\ \E i \in DOMAIN chat' : chat'[i].request_id = task.request_id
    BY <1>11, AcceptSendType DEF SendMessage
  <2>2. message_id' \in DOMAIN chat'
    BY <1>11, <2>1 DEF SendMessage
  <2> QED
    BY <1>11, <2>1, <2>2 DEF SendMessage, TypeInv, TypeOK, RuntimeTypeOK,
                             WorkInHand, runtime
<1>12. CASE SendUnanswered
  <2>1. phase = "send" /\ AcceptSend /\ ExitWorker /\ log' = log
        /\ faults' \in Nat
    BY <1>12 DEF SendUnanswered, Fault, TypeInv, TypeOK
  <2> QED
    BY <2>1, AcceptSendType, ExitType DEF TypeInv, TypeOK
<1>13. CASE PublishResult
  <2>1. ResultMessage \in SendResult /\ task \in OutboundTask
    BY <1>13, ResultMessageType DEF PublishResult
  <2>2. message_id \in MessageIds
    BY <1>13 DEF PublishResult, TypeInv, TypeOK, WorkInHand
  <2>3. log' = Append(log, ResultMessage) /\ log' \in Seq(Message)
        /\ Len(log) + 1 \in Nat \ {0}
    BY <1>13, <2>1 DEF PublishResult, Message, TypeInv, TypeOK
  <2>4. RuntimeTypeOK'
    BY <1>13, <2>1, <2>2, <2>3, MarkSendResultSuccessType
    DEF PublishResult, TypeInv, TypeOK
  <2> QED
    BY <1>13, <2>3, <2>4 DEF PublishResult, TypeInv, TypeOK, WorkInHand
<1>14. CASE PublishRecord
  <2>1. /\ RecordMessage \in SyncRecord
        /\ KeyOf(message_id) \in InboundKey
        /\ chat[message_id].channel_id \in Channels
        /\ message_id \in Nat
    BY <1>14, RecordMessageType DEF PublishRecord
  <2>2. log' \in Seq(Message)
    BY <1>14, <2>1 DEF PublishRecord, Message, TypeInv, TypeOK
  <2>3. RuntimeTypeOK'
    BY <1>14, <2>1, MarkSyncRecordType DEF PublishRecord, TypeInv, TypeOK
  <2>4. PICK n \in DOMAIN pending_events :
          pending_events' = RemoveAt(pending_events, n)
    BY <1>14 DEF PublishRecord
  <2>6. /\ pending_events' \in Seq(MessageIds)
        /\ \A k \in DOMAIN pending_events' : pending_events'[k] \in DOMAIN chat
    BY <2>4, PendingWithout
  <2> QED
    BY <1>14, <2>2, <2>3, <2>6 DEF PublishRecord, TypeInv, TypeOK, WorkInHand
<1>15. CASE PublishResultUnknown \/ PublishRecordUnknown
  <2>1. ExitWorker /\ chat' = chat /\ faults' \in Nat
    BY <1>15 DEF PublishResultUnknown, PublishRecordUnknown, Fault,
                 TypeInv, TypeOK
  <2>2. CASE PublishResultUnknown
    <3>1. log' = Append(log, ResultMessage) /\ ResultMessage \in Message
      BY <2>2, ResultMessageType DEF PublishResultUnknown, Message
    <3> QED
      BY <2>1, <3>1, ExitType DEF TypeInv, TypeOK
  <2>3. CASE PublishRecordUnknown
    <3>1. log' = Append(log, RecordMessage) /\ RecordMessage \in Message
      BY <2>3, RecordMessageType DEF PublishRecordUnknown, Message
    <3> QED
      BY <2>1, <3>1, ExitType DEF TypeInv, TypeOK
  <2> QED
    BY <1>15, <2>2, <2>3
<1>16. CASE UNCHANGED vars
  BY <1>16 DEF vars, runtime, worker, TypeInv, TypeOK, RuntimeTypeOK,
               WorkInHand
<1> QED
  BY <1>1, <1>2, <1>3, <1>4, <1>5, <1>6, <1>7, <1>8, <1>9, <1>10, <1>11,
     <1>12, <1>13, <1>14, <1>15, <1>16
  DEF Next, WorkerStep, Stream, FaultStep

(* Every variable keeps its type, and the worker has in hand what the call  *)
(* it is in needs: messages to read, a task, a chat message (loop.py takes   *)
(* them before the call and clears them after it).                          *)
THEOREM TypeCorrect == Spec => [](TypeOK /\ WorkInHand)
<1>1. TypeInv => TypeOK /\ WorkInHand
  BY DEF TypeInv
<1> QED
  BY TypeInvInit, TypeInvNext, <1>1, PTL DEF Spec

-----------------------------------------------------------------------------
(***************************************************************************)
(* The results of the worker answer the requests in order, one each, for   *)
(* any callers, any number of faults and any number of restarts.           *)
(***************************************************************************)
-----------------------------------------------------------------------------
(* An append changes nothing that was said about the entries before it.     *)

LEMMA AppendKeeps ==
    ASSUME log \in Seq(Message), NEW m \in Message, log' = Append(log, m)
    PROVE  /\ DOMAIN log = 1 .. Len(log) /\ Len(log) \in Nat
           /\ DOMAIN log' = 1 .. Len(log) + 1
           /\ Len(log') = Len(log) + 1
           /\ log'[Len(log) + 1] = m
           /\ \A i \in DOMAIN log : log'[i] = log[i]
           /\ \A i \in DOMAIN log : RequestAt(i)' <=> RequestAt(i)
           /\ \A i \in DOMAIN log : ResultAt(i)' <=> ResultAt(i)
           /\ \A i \in DOMAIN log : FirstRequestAt(i)' <=> FirstRequestAt(i)
           /\ \A r \in RequestIds : Answered(r) => Answered(r)'
<1>1. /\ DOMAIN log = 1 .. Len(log) /\ Len(log) \in Nat
      /\ DOMAIN log' = 1 .. Len(log) + 1
      /\ Len(log') = Len(log) + 1
      /\ log'[Len(log) + 1] = m
      /\ \A i \in DOMAIN log : log'[i] = log[i]
  BY LenProperties, AppendProperties
<1>2. \A i \in DOMAIN log : RequestAt(i)' <=> RequestAt(i)
  BY <1>1 DEF RequestAt
<1>3. \A i \in DOMAIN log : ResultAt(i)' <=> ResultAt(i)
  BY <1>1 DEF ResultAt
<1>4. \A i \in DOMAIN log : FirstRequestAt(i)' <=> FirstRequestAt(i)
  <2> SUFFICES ASSUME NEW i \in DOMAIN log
               PROVE  FirstRequestAt(i)' <=> FirstRequestAt(i)
    OBVIOUS
  <2>1. \A j \in 1 .. i - 1 : j \in DOMAIN log
    BY <1>1
  <2> QED
    BY <1>1, <1>2, <2>1 DEF FirstRequestAt
<1>5. \A r \in RequestIds : Answered(r) => Answered(r)'
  BY <1>1, <1>3 DEF Answered
<1> QED
  BY <1>1, <1>2, <1>3, <1>4, <1>5

(* Two first requests of one request_id are the same message.               *)
LEMMA FirstRequestUnique ==
    ASSUME log \in Seq(Message), NEW i, NEW j,
           FirstRequestAt(i), FirstRequestAt(j),
           log[i].request_id = log[j].request_id
    PROVE  i = j
<1>1. i \in Nat /\ j \in Nat /\ i >= 1 /\ j >= 1
  BY LenProperties DEF FirstRequestAt, RequestAt
<1>2. ~(i < j)
  BY <1>1 DEF FirstRequestAt
<1>3. ~(j < i)
  BY <1>1 DEF FirstRequestAt
<1> QED
  BY <1>1, <1>2, <1>3

(* An entry that is not a result of the worker keeps the facts about the log.*)
LEMMA AppendOther ==
    ASSUME log \in Seq(Message), LogInv, NEW m \in Message,
           log' = Append(log, m), ~(m.kind = "send.result" /\ m.principal = Worker)
    PROVE  LogInv'
<1>1. /\ DOMAIN log = 1 .. Len(log) /\ Len(log) \in Nat
      /\ DOMAIN log' = 1 .. Len(log) + 1
      /\ log'[Len(log) + 1] = m
      /\ \A i \in DOMAIN log : log'[i] = log[i]
      /\ \A i \in DOMAIN log : ResultAt(i)' <=> ResultAt(i)
      /\ \A i \in DOMAIN log : FirstRequestAt(i)' <=> FirstRequestAt(i)
      /\ \A r \in RequestIds : Answered(r) => Answered(r)'
  BY AppendKeeps
<1>2. \A i \in DOMAIN log' : ResultAt(i)' => i \in DOMAIN log /\ ResultAt(i)
  BY <1>1 DEF ResultAt
<1>4. ASSUME NEW i \in DOMAIN log, ResultAt(i)
      PROVE  /\ log[i].prev_seq \in DOMAIN log /\ log[i].prev_seq < i
             /\ FirstRequestAt(log[i].prev_seq)
  BY <1>1, <1>4 DEF LogInv, ResultsAnswerFirst, FirstRequestAt, RequestAt
<1>5. ResultsAnswerFirst'
  BY <1>1, <1>2, <1>4 DEF LogInv, ResultsAnswerFirst
<1>6. AnswersArePrefix'
  <2> SUFFICES ASSUME NEW i \in DOMAIN log', ResultAt(i)',
                      NEW s \in 1 .. log'[i].prev_seq - 1, FirstRequestAt(s)'
               PROVE  \E k \in DOMAIN log' :
                        ResultAt(k)' /\ log'[k].request_id = log'[s].request_id
    BY DEF AnswersArePrefix, Answered
  <2>1. i \in DOMAIN log /\ ResultAt(i) /\ log'[i] = log[i]
    BY <1>1, <1>2
  <2>2. s \in DOMAIN log /\ log'[s] = log[s] /\ FirstRequestAt(s)
    BY <1>1, <1>4, <2>1
  <2>3. PICK k \in DOMAIN log :
          ResultAt(k) /\ log[k].request_id = log[s].request_id
    BY <2>1, <2>2 DEF LogInv, AnswersArePrefix, Answered
  <2> QED
    BY <1>1, <2>2, <2>3
<1>7. ResultsInRequestOrder'
  BY <1>1, <1>2 DEF LogInv, ResultsInRequestOrder
<1> QED
  BY <1>5, <1>6, <1>7 DEF LogInv

-----------------------------------------------------------------------------
(* What is known of the task while it is sent and its result published: it  *)
(* is the first request of its id, it has no result yet, and every request  *)
(* before it has one.                                                       *)
LEMMA TaskFacts ==
    ASSUME AnswerInv, Busy
    PROVE  /\ task \in OutboundTask
           /\ task.seq \in DOMAIN log /\ FirstRequestAt(task.seq)
           /\ task = TaskOf(task.seq, log[task.seq])
           /\ log[task.seq].request_id = task.request_id
           /\ ~Answered(task.request_id)
           /\ \A s \in 1 .. task.seq - 1 :
                FirstRequestAt(s) => Answered(log[s].request_id)
<1> DEFINE r == task.request_id
<1>1. /\ log \in Seq(Message) /\ next_seq \in Nat
      /\ RuntimeTypeOK /\ Running
      /\ ReadBounds /\ CanonicalIsFirst /\ CompletedAreAnswered
      /\ PendingIsUnanswered /\ TaskIsOldest
  BY DEF AnswerInv, TypeInv, TypeOK, MemoryInv, Busy, Running
<1>2. task \in OutboundTask /\ r \in RequestIds /\ requests_by_id[r] = task
  BY DEF AnswerInv, TypeInv, TypeOK, MemoryInv, TaskIsOldest, OutboundTask
<1>3. task # None
  BY <1>2, RuntimeAssumption
<1>4. r \notin completed_request_ids /\ canonical_requests_by_id[r] = task
  BY <1>1, <1>2, <1>3 DEF PendingIsUnanswered
<1>5. /\ task.seq < next_seq /\ FirstRequestAt(task.seq)
      /\ log[task.seq].request_id = r
      /\ task = TaskOf(task.seq, log[task.seq])
  BY <1>1, <1>2, <1>3, <1>4 DEF CanonicalIsFirst
<1>6. \A q \in RequestIds : q \in completed_request_ids <=> Answered(q)
  BY <1>1 DEF CompletedAreAnswered, Completed, KnownResult, Answered
<1>7. ASSUME NEW s \in 1 .. task.seq - 1, FirstRequestAt(s)
      PROVE  Answered(log[s].request_id)
  <2> DEFINE q == log[s].request_id
  <2>1. s \in 1 .. next_seq - 1 /\ RequestAt(s) /\ s < task.seq
    BY <1>1, <1>2, <1>5, <1>7 DEF OutboundTask, FirstRequestAt
  <2>2. q \in RequestIds
    BY <1>1, <2>1, MessageKinds, ElementOfSeq DEF RequestAt, SendRequest
  <2>3. canonical_requests_by_id[q] # None
    BY <1>1, <2>1 DEF CanonicalIsFirst
  <2>4. canonical_requests_by_id[q].seq = s
    BY <1>1, <1>7, <2>2, <2>3, FirstRequestUnique DEF CanonicalIsFirst
  <2>5. ASSUME q \notin completed_request_ids PROVE FALSE
    <3>1. requests_by_id[q] = canonical_requests_by_id[q]
      BY <1>1, <2>2, <2>5 DEF PendingIsUnanswered
    <3>2. task.seq <= s
      BY <1>1, <2>2, <2>3, <2>4, <3>1 DEF TaskIsOldest
    <3> QED
      BY <1>2, <2>1, <3>2 DEF OutboundTask
  <2> QED
    BY <1>6, <2>2, <2>5
<1> QED
  BY <1>2, <1>4, <1>5, <1>6, <1>7 DEF FirstRequestAt, RequestAt

LEMMA AppendResult ==
    ASSUME AnswerInv, phase = "result", log' = Append(log, ResultMessage)
    PROVE  LogInv'
<1> DEFINE n == Len(log) + 1
<1>1. /\ task \in OutboundTask
      /\ task.seq \in DOMAIN log /\ FirstRequestAt(task.seq)
      /\ task = TaskOf(task.seq, log[task.seq])
      /\ log[task.seq].request_id = task.request_id
      /\ ~Answered(task.request_id)
      /\ \A s \in 1 .. task.seq - 1 :
           FirstRequestAt(s) => Answered(log[s].request_id)
  BY TaskFacts DEF Busy
<1>2. log \in Seq(Message) /\ ResultMessage \in Message /\ LogInv
  BY ResultMessageType DEF AnswerInv, TypeInv, TypeOK, Message
<1>3. /\ DOMAIN log = 1 .. Len(log) /\ Len(log) \in Nat
      /\ DOMAIN log' = 1 .. n
      /\ log'[n] = ResultMessage
      /\ \A i \in DOMAIN log : log'[i] = log[i]
      /\ \A i \in DOMAIN log : ResultAt(i)' <=> ResultAt(i)
      /\ \A i \in DOMAIN log : FirstRequestAt(i)' <=> FirstRequestAt(i)
  BY <1>2, AppendKeeps
<1>4. /\ log'[n].prev_seq = task.seq
      /\ log'[n].request_id = task.request_id
      /\ log'[n].channel_id = log[task.seq].channel_id
      /\ log'[n].recipients = {log[task.seq].principal}
  <2>1. /\ task.channel_id = log[task.seq].channel_id
        /\ task.principal = log[task.seq].principal
    BY <1>1 DEF TaskOf
  <2> QED
    BY <1>3, <2>1 DEF ResultMessage
<1>5. ASSUME NEW i \in DOMAIN log, ResultAt(i)
      PROVE  /\ log[i].prev_seq \in DOMAIN log /\ log[i].prev_seq < i
             /\ FirstRequestAt(log[i].prev_seq)
             /\ log[log[i].prev_seq].request_id = log[i].request_id
             /\ log[i].prev_seq < task.seq
  <2>1. /\ log[i].prev_seq \in DOMAIN log /\ log[i].prev_seq < i
        /\ FirstRequestAt(log[i].prev_seq)
        /\ log[log[i].prev_seq].request_id = log[i].request_id
    BY <1>2, <1>5 DEF LogInv, ResultsAnswerFirst, FirstRequestAt, RequestAt
  <2>2. CASE log[i].prev_seq = task.seq
    BY <1>1, <1>5, <2>1, <2>2 DEF Answered
  <2>3. CASE log[i].prev_seq > task.seq
    <3>1. task.seq \in 1 .. log[i].prev_seq - 1
      BY <1>3, <1>1, <2>1, <2>3
    <3>2. Answered(log[task.seq].request_id)
      BY <1>1, <1>2, <1>5, <3>1 DEF LogInv, AnswersArePrefix
    <3> QED
      BY <1>1, <3>2
  <2> QED
    BY <1>1, <1>3, <2>1, <2>2, <2>3
<1>6. ASSUME NEW i \in DOMAIN log', ResultAt(i)', i # n
      PROVE  i \in DOMAIN log /\ ResultAt(i) /\ log'[i] = log[i]
  BY <1>3, <1>6
<1>7. ResultsAnswerFirst'
  <2>1. ASSUME NEW i \in DOMAIN log', ResultAt(i)',
               NEW q, q = log'[i].prev_seq
        PROVE  /\ q < i /\ FirstRequestAt(q)'
               /\ log'[q].request_id = log'[i].request_id
               /\ log'[q].channel_id = log'[i].channel_id
               /\ log'[i].recipients = {log'[q].principal}
    <3>1. CASE i = n
      <4>1. q = task.seq /\ q \in DOMAIN log /\ log'[q] = log[q] /\ q < i
        BY <1>1, <1>3, <1>4, <2>1, <3>1
      <4> QED
        BY <1>1, <1>3, <1>4, <3>1, <4>1
    <3>2. CASE i # n
      <4>1. /\ i \in DOMAIN log /\ ResultAt(i) /\ log'[i] = log[i]
            /\ q \in DOMAIN log /\ log'[q] = log[q] /\ q = log[i].prev_seq
        BY <1>3, <1>5, <1>6, <2>1, <3>2
      <4> QED
        BY <1>2, <1>3, <4>1 DEF LogInv, ResultsAnswerFirst
    <3> QED
      BY <3>1, <3>2
  <2> QED
    BY <2>1 DEF ResultsAnswerFirst
<1>8. AnswersArePrefix'
  <2> SUFFICES ASSUME NEW i \in DOMAIN log', ResultAt(i)',
                      NEW s \in 1 .. log'[i].prev_seq - 1, FirstRequestAt(s)'
               PROVE  \E k \in DOMAIN log' :
                        ResultAt(k)' /\ log'[k].request_id = log'[s].request_id
    BY DEF AnswersArePrefix, Answered
  <2>1. /\ s \in DOMAIN log /\ log'[s] = log[s] /\ FirstRequestAt(s)
        /\ Answered(log[s].request_id)
    <3>1. CASE i = n
      BY <1>1, <1>3, <1>4, <3>1
    <3>2. CASE i # n
      BY <1>2, <1>3, <1>5, <1>6, <3>2 DEF LogInv, AnswersArePrefix
    <3> QED
      BY <3>1, <3>2
  <2>2. PICK k \in DOMAIN log :
          ResultAt(k) /\ log[k].request_id = log[s].request_id
    BY <2>1 DEF Answered
  <2> QED
    BY <1>3, <2>1, <2>2
<1>9. ResultsInRequestOrder'
  <2> SUFFICES ASSUME NEW i \in DOMAIN log', NEW j \in DOMAIN log',
                      ResultAt(i)', ResultAt(j)', i < j
               PROVE  log'[i].prev_seq < log'[j].prev_seq
    BY DEF ResultsInRequestOrder
  <2>1. i # n /\ i \in DOMAIN log /\ ResultAt(i) /\ log'[i] = log[i]
    BY <1>3, <1>6
  <2>2. CASE j = n
    BY <1>4, <1>5, <2>1, <2>2
  <2>3. CASE j # n
    BY <1>2, <1>6, <2>1, <2>3 DEF LogInv, ResultsInRequestOrder
  <2> QED
    BY <2>2, <2>3
<1> QED
  BY <1>7, <1>8, <1>9 DEF LogInv

(* After an exit only the facts about the log are left to check.            *)
LEMMA ExitMemory ==
    ASSUME TypeInv', ExitWorker, LogInv'
    PROVE  AnswerInv'
<1>1. /\ phase' = "down" /\ next_seq' = 1 /\ task' = None
      /\ canonical_requests_by_id' = [r \in RequestIds |-> None]
      /\ terminal_results_by_id' = [r \in RequestIds |-> None]
      /\ requests_by_id' = [r \in RequestIds |-> None]
      /\ completed_request_ids' = {}
      /\ blocked_by_channel' = [c \in Channels |-> None]
  BY DEF ExitWorker, RuntimeLost
<1>2. log' \in Seq(Message)
  BY DEF TypeInv, TypeOK
<1>3. ReadBounds' /\ CanonicalIsFirst'
  BY <1>1, <1>2, LenProperties DEF ReadBounds, CanonicalIsFirst
<1>4. CompletedAreAnswered'
  <2>1. \A i \in DOMAIN log' : ~(i < 1)
    BY <1>2, LenProperties
  <2> QED
    BY <1>1, <2>1
    DEF CompletedAreAnswered, Completed, KnownResult, Running
<1>5. PendingIsUnanswered' /\ TaskIsOldest'
  BY <1>1 DEF PendingIsUnanswered, TaskIsOldest, Busy
<1> QED
  BY <1>3, <1>4, <1>5 DEF AnswerInv, MemoryInv

-----------------------------------------------------------------------------
(* The worker's memory, step by step.                                       *)

(* Reading a message at next_seq: what stays true of what was read before.  *)
LEMMA ReadOneMore ==
    ASSUME AnswerInv, next_seq \in DOMAIN log, next_seq' = next_seq + 1,
           log' = log
    PROVE  /\ next_seq \in Nat /\ next_seq >= 1
           /\ \A i : i \in 1 .. next_seq' - 1 <=>
                     i \in 1 .. next_seq - 1 \/ i = next_seq
           /\ \A i : /\ RequestAt(i)' <=> RequestAt(i)
                     /\ ResultAt(i)' <=> ResultAt(i)
                     /\ FirstRequestAt(i)' <=> FirstRequestAt(i)
BY DEF AnswerInv, TypeInv, TypeOK, RequestAt, ResultAt, FirstRequestAt

LEMMA RequestMemory ==
    ASSUME AnswerInv, next_seq \in DOMAIN log, next_seq <= snapshot,
           phase \in {"scan", "ingest"}, log[next_seq].kind = "send.request",
           AddSendRequest(next_seq, log[next_seq]),
           next_seq' = next_seq + 1,
           UNCHANGED <<log, phase, snapshot, task>>
    PROVE  MemoryInv'
<1> DEFINE n == next_seq
           m == log[n]
           r == m.request_id
<1>1. /\ log \in Seq(Message) /\ n \in Nat /\ n >= 1 /\ RuntimeTypeOK
      /\ ReadBounds /\ CanonicalIsFirst /\ CompletedAreAnswered
      /\ PendingIsUnanswered /\ TaskIsOldest /\ ~Busy /\ snapshot \in Nat
  BY DEF AnswerInv, TypeInv, TypeOK, MemoryInv, Busy
<1>2. m \in SendRequest /\ RequestAt(n) /\ r \in RequestIds
  BY <1>1, MessageKinds, ElementOfSeq DEF RequestAt, SendRequest
<1>3. /\ \A i : i \in 1 .. next_seq' - 1 <=> i \in 1 .. n - 1 \/ i = n
      /\ \A i : /\ RequestAt(i)' <=> RequestAt(i)
                /\ ResultAt(i)' <=> ResultAt(i)
                /\ FirstRequestAt(i)' <=> FirstRequestAt(i)
  BY ReadOneMore
<1>4. /\ TaskOf(n, m) \in OutboundTask /\ TaskOf(n, m) # None
      /\ TaskOf(n, m).seq = n /\ TaskOf(n, m).request_id = r
  BY <1>1, <1>2, TaskOfType, RuntimeAssumption DEF TaskOf
<1>5. CASE canonical_requests_by_id[r] = None
  <2>1. FirstRequestAt(n)
    BY <1>1, <1>2, <1>5 DEF FirstRequestAt, CanonicalIsFirst
  <2>2. r \notin completed_request_ids
    BY <1>1, <1>5 DEF CompletedAreAnswered
  <2>3. /\ canonical_requests_by_id' =
             [canonical_requests_by_id EXCEPT ![r] = TaskOf(n, m)]
        /\ requests_by_id' = [requests_by_id EXCEPT ![r] = TaskOf(n, m)]
        /\ pending_heap' = pending_heap \cup {<<n, r>>}
        /\ UNCHANGED <<completed_request_ids, terminal_results_by_id,
                       blocked_by_channel>>
    BY <1>5, <2>2 DEF AddSendRequest
  <2>4. /\ canonical_requests_by_id'[r] = TaskOf(n, m)
        /\ requests_by_id'[r] = TaskOf(n, m)
        /\ \A q \in RequestIds : q # r =>
             /\ canonical_requests_by_id'[q] = canonical_requests_by_id[q]
             /\ requests_by_id'[q] = requests_by_id[q]
    BY <1>1, <1>2, <2>3 DEF RuntimeTypeOK
  <2>5. CanonicalIsFirst'
    <3>1. ASSUME NEW q \in RequestIds, canonical_requests_by_id'[q] # None
          PROVE  LET s == canonical_requests_by_id'[q].seq
                 IN  /\ s < next_seq' /\ FirstRequestAt(s)
                     /\ log[s].request_id = q
                     /\ canonical_requests_by_id'[q] = TaskOf(s, log[s])
      <4>1. CASE q = r
        BY <1>1, <1>4, <2>1, <2>4, <4>1
      <4>2. CASE q # r
        <5>1. canonical_requests_by_id[q] # None
          BY <2>4, <3>1, <4>2
        <5>2. canonical_requests_by_id[q].seq \in Nat
          BY <1>1, <5>1 DEF RuntimeTypeOK, OutboundTask
        <5> QED
          BY <1>1, <2>4, <4>2, <5>1, <5>2 DEF CanonicalIsFirst
      <4> QED
        BY <4>1, <4>2
    <3>2. ASSUME NEW i \in 1 .. next_seq' - 1, RequestAt(i)
          PROVE  /\ canonical_requests_by_id'[log[i].request_id] # None
                 /\ SameSendRequest(
                      canonical_requests_by_id'[log[i].request_id],
                      TaskOf(i, log[i]))
      <4>1. CASE i = n
        BY <1>4, <2>4, <4>1 DEF SameSendRequest, TaskOf
      <4>2. CASE i # n
        <5>1. i \in 1 .. n - 1
          BY <1>3, <4>2
        <5>2. canonical_requests_by_id[log[i].request_id] # None
          BY <1>1, <3>2, <5>1 DEF CanonicalIsFirst
        <5>3. log[i].request_id # r /\ log[i].request_id \in RequestIds
          BY <1>1, <1>5, <3>2, <5>2, MessageKinds, ElementOfSeq
          DEF RequestAt, SendRequest
        <5> QED
          BY <1>1, <2>4, <3>2, <5>1, <5>3 DEF CanonicalIsFirst
      <4> QED
        BY <4>1, <4>2
    <3> QED
      BY <1>3, <3>1, <3>2 DEF CanonicalIsFirst
  <2>6. CompletedAreAnswered'
    <3>1. ~ResultAt(n)
      BY DEF ResultAt
    <3>2. \A q \in RequestIds : Completed(q)' <=> Completed(q)
      BY <1>1, <1>3, <3>1 DEF Completed, KnownResult, Running
    <3>3. \A q \in completed_request_ids : q \in RequestIds
      BY <1>1 DEF RuntimeTypeOK
    <3>4. \A q \in completed_request_ids' : canonical_requests_by_id'[q] # None
      BY <1>1, <1>4, <2>3, <2>4, <3>3 DEF CompletedAreAnswered
    <3> QED
      BY <1>1, <2>3, <3>2, <3>4 DEF CompletedAreAnswered
  <2>7. PendingIsUnanswered'
    BY <1>1, <1>4, <2>2, <2>3, <2>4 DEF PendingIsUnanswered, Busy
  <2>8. ReadBounds' /\ TaskIsOldest'
    BY <1>1, <1>3, <2>3 DEF ReadBounds, TaskIsOldest, Busy
  <2> QED
    BY <2>5, <2>6, <2>7, <2>8 DEF MemoryInv
<1>6. CASE canonical_requests_by_id[r] # None
  <2>1. /\ UNCHANGED <<canonical_requests_by_id, requests_by_id, pending_heap,
                       completed_request_ids, terminal_results_by_id,
                       blocked_by_channel>>
        /\ SameSendRequest(canonical_requests_by_id[r], TaskOf(n, m))
    BY <1>6 DEF AddSendRequest, SendRequestConflicts
  <2>2. CanonicalIsFirst'
    <3>1. ASSUME NEW q \in RequestIds, canonical_requests_by_id[q] # None
          PROVE  canonical_requests_by_id[q].seq \in Nat
      BY <1>1, <3>1 DEF RuntimeTypeOK, OutboundTask
    <3> QED
      BY <1>1, <1>3, <1>6, <2>1, <3>1 DEF CanonicalIsFirst
  <2>3. CompletedAreAnswered'
    <3>1. ~ResultAt(n)
      BY DEF ResultAt
    <3>2. \A q \in RequestIds : Completed(q)' <=> Completed(q)
      BY <1>1, <1>3, <3>1 DEF Completed, KnownResult, Running
    <3> QED
      BY <1>1, <2>1, <3>2 DEF CompletedAreAnswered
  <2>4. ReadBounds' /\ PendingIsUnanswered' /\ TaskIsOldest'
    BY <1>1, <1>3, <2>1
    DEF ReadBounds, PendingIsUnanswered, TaskIsOldest, Busy
  <2> QED
    BY <2>2, <2>3, <2>4 DEF MemoryInv
<1> QED
  BY <1>5, <1>6

LEMMA ResultMemory ==
    ASSUME AnswerInv, next_seq \in DOMAIN log, next_seq <= snapshot,
           phase = "scan", log[next_seq].kind = "send.result",
           log[next_seq].principal = Worker,
           AddSendResult(next_seq, log[next_seq]),
           next_seq' = next_seq + 1,
           UNCHANGED <<log, phase, snapshot, task>>
    PROVE  MemoryInv'
<1> DEFINE n == next_seq
           m == log[n]
           r == m.request_id
<1>1. /\ log \in Seq(Message) /\ n \in Nat /\ n >= 1 /\ RuntimeTypeOK
      /\ ReadBounds /\ CanonicalIsFirst /\ CompletedAreAnswered
      /\ PendingIsUnanswered /\ TaskIsOldest /\ ~Busy /\ snapshot \in Nat
  BY DEF AnswerInv, TypeInv, TypeOK, MemoryInv, Busy
<1>2. m \in SendResult /\ ResultAt(n) /\ ~RequestAt(n) /\ r \in RequestIds
      /\ m # None
  BY <1>1, MessageKinds, ElementOfSeq, RuntimeAssumption
  DEF RequestAt, ResultAt, SendResult
<1>3. /\ \A i : i \in 1 .. next_seq' - 1 <=> i \in 1 .. n - 1 \/ i = n
      /\ \A i : /\ RequestAt(i)' <=> RequestAt(i)
                /\ ResultAt(i)' <=> ResultAt(i)
                /\ FirstRequestAt(i)' <=> FirstRequestAt(i)
  BY ReadOneMore
<1>4. /\ completed_request_ids' = completed_request_ids \cup {r}
      /\ \A q \in RequestIds : terminal_results_by_id'[q] # None =>
           terminal_results_by_id[q] # None \/ q = r
      /\ requests_by_id' = [requests_by_id EXCEPT ![r] = None]
      /\ blocked_by_channel' = blocked_by_channel
      /\ canonical_requests_by_id[r] # None
      /\ UNCHANGED <<canonical_requests_by_id, pending_heap>>
  <2>1. CASE terminal_results_by_id[r] # None
    <3>1. r \in completed_request_ids
      BY <1>1, <1>2, <2>1 DEF CompletedAreAnswered
    <3>2. requests_by_id[r] = None
      BY <1>1, <1>2, <3>1 DEF PendingIsUnanswered
    <3>3. UNCHANGED runtime
      BY <2>1 DEF AddSendResult
    <3> QED
      BY <1>1, <3>1, <3>2, <3>3
      DEF runtime, CompletedAreAnswered, RuntimeTypeOK
  <2>2. CASE terminal_results_by_id[r] = None
    <3>1. \A c \in Channels : blocked_by_channel[c] # r
      BY <1>1, <1>2, RuntimeAssumption DEF TaskIsOldest
    <3>2. m.channel_id \in Channels
      BY <1>2 DEF SendResult
    <3>3. Unblocked(m.channel_id, r) = blocked_by_channel
      BY <3>1, <3>2 DEF Unblocked
    <3>4. canonical_requests_by_id[r] # None
      BY <2>2 DEF AddSendResult, SendResultConflicts
    <3>5. terminal_results_by_id' = [terminal_results_by_id EXCEPT ![r] = m]
      BY <2>2 DEF AddSendResult
    <3> QED
      BY <1>1, <2>2, <3>3, <3>4, <3>5 DEF AddSendResult, RuntimeTypeOK
  <2> QED
    BY <2>1, <2>2
<1>5. CanonicalIsFirst'
  <2>1. ASSUME NEW q \in RequestIds, canonical_requests_by_id[q] # None
        PROVE  canonical_requests_by_id[q].seq \in Nat
    BY <1>1, <2>1 DEF RuntimeTypeOK, OutboundTask
  <2> QED
    BY <1>1, <1>2, <1>3, <1>4, <2>1 DEF CanonicalIsFirst
<1>6. CompletedAreAnswered'
  <2>1. \A q \in RequestIds : Completed(q)' <=> Completed(q) \/ q = r
    <3>1. \A i : KnownResult(i)' <=> KnownResult(i) \/ i = n
      BY <1>1, <1>2, <1>3 DEF KnownResult, Running, ResultAt
    <3> QED
      BY <1>2, <3>1 DEF Completed, ResultAt
  <2> QED
    BY <1>1, <1>4, <2>1 DEF CompletedAreAnswered
<1>7. PendingIsUnanswered'
  <2>1. \A q \in RequestIds : requests_by_id'[q] =
          IF q = r THEN None ELSE requests_by_id[q]
    BY <1>1, <1>4 DEF RuntimeTypeOK
  <2> QED
    BY <1>1, <1>4, <2>1 DEF PendingIsUnanswered, Busy
<1>8. ReadBounds' /\ TaskIsOldest'
  BY <1>1, <1>3, <1>4 DEF ReadBounds, TaskIsOldest, Busy
<1> QED
  BY <1>5, <1>6, <1>7, <1>8 DEF MemoryInv

(* A message read that is neither a request nor a result to complete.       *)
LEMMA SkipMemory ==
    ASSUME AnswerInv, next_seq \in DOMAIN log, next_seq <= snapshot,
           phase \in {"scan", "ingest"}, ~RequestAt(next_seq),
           phase = "scan" => ~ResultAt(next_seq),
           next_seq' = next_seq + 1,
           UNCHANGED <<log, phase, snapshot, task, canonical_requests_by_id,
                       requests_by_id, completed_request_ids,
                       terminal_results_by_id, pending_heap,
                       blocked_by_channel>>
    PROVE  MemoryInv'
<1>1. /\ log \in Seq(Message) /\ next_seq \in Nat /\ next_seq >= 1
      /\ RuntimeTypeOK
      /\ ReadBounds /\ CanonicalIsFirst /\ CompletedAreAnswered
      /\ PendingIsUnanswered /\ TaskIsOldest /\ ~Busy /\ snapshot \in Nat
  BY DEF AnswerInv, TypeInv, TypeOK, MemoryInv, Busy
<1>2. /\ \A i : i \in 1 .. next_seq' - 1 <=>
                i \in 1 .. next_seq - 1 \/ i = next_seq
      /\ \A i : /\ RequestAt(i)' <=> RequestAt(i)
                /\ ResultAt(i)' <=> ResultAt(i)
                /\ FirstRequestAt(i)' <=> FirstRequestAt(i)
  BY ReadOneMore
<1>3. CanonicalIsFirst'
  <2>1. ASSUME NEW q \in RequestIds, canonical_requests_by_id[q] # None
        PROVE  canonical_requests_by_id[q].seq \in Nat
    BY <1>1, <2>1 DEF RuntimeTypeOK, OutboundTask
  <2> QED
    BY <1>1, <1>2, <2>1 DEF CanonicalIsFirst
<1>4. CompletedAreAnswered'
  <2>1. \A i \in DOMAIN log : KnownResult(i)' <=> KnownResult(i)
    BY <1>1, <1>2, LenProperties DEF KnownResult, Running
  <2>2. \A q \in RequestIds : Completed(q)' <=> Completed(q)
    BY <2>1 DEF Completed
  <2> QED
    BY <1>1, <2>2 DEF CompletedAreAnswered
<1>5. ReadBounds' /\ PendingIsUnanswered' /\ TaskIsOldest'
  BY <1>1, <1>2 DEF ReadBounds, PendingIsUnanswered, TaskIsOldest, Busy
<1> QED
  BY <1>3, <1>4, <1>5 DEF MemoryInv

(* An append leaves the canonical requests the first ones.                  *)
LEMMA AppendCanonical ==
    ASSUME log \in Seq(Message), next_seq \in Nat, ReadBounds, CanonicalIsFirst,
           NEW m \in Message, log' = Append(log, m),
           UNCHANGED <<next_seq, canonical_requests_by_id>>
    PROVE  CanonicalIsFirst'
<1>1. /\ DOMAIN log = 1 .. Len(log) /\ Len(log) \in Nat
      /\ \A i \in DOMAIN log : log'[i] = log[i]
      /\ \A i \in DOMAIN log : RequestAt(i)' <=> RequestAt(i)
      /\ \A i \in DOMAIN log : FirstRequestAt(i)' <=> FirstRequestAt(i)
  BY AppendKeeps
<1>2. \A i \in 1 .. next_seq - 1 : i \in DOMAIN log
  BY <1>1 DEF ReadBounds
<1>3. ASSUME NEW q \in RequestIds, canonical_requests_by_id[q] # None
      PROVE  canonical_requests_by_id[q].seq \in DOMAIN log
  BY <1>3 DEF CanonicalIsFirst, FirstRequestAt, RequestAt
<1> QED
  BY <1>1, <1>2, <1>3 DEF CanonicalIsFirst

(* A message another principal, or a sync.record, is appended.              *)
LEMMA AppendMemory ==
    ASSUME AnswerInv, NEW m \in Message, log' = Append(log, m),
           ~(m.kind = "send.result" /\ m.principal = Worker),
           phase' = phase \/ (phase = "record" /\ phase' = "poll"),
           UNCHANGED <<next_seq, snapshot, task, canonical_requests_by_id,
                       requests_by_id, completed_request_ids,
                       terminal_results_by_id, pending_heap,
                       blocked_by_channel>>
    PROVE  MemoryInv'
<1>1. /\ log \in Seq(Message) /\ next_seq \in Nat /\ RuntimeTypeOK
      /\ ReadBounds /\ CanonicalIsFirst /\ CompletedAreAnswered
      /\ PendingIsUnanswered /\ TaskIsOldest /\ snapshot \in Nat
  BY DEF AnswerInv, TypeInv, TypeOK, MemoryInv
<1>2. /\ DOMAIN log = 1 .. Len(log) /\ Len(log) \in Nat
      /\ DOMAIN log' = 1 .. Len(log) + 1
      /\ Len(log') = Len(log) + 1
      /\ log'[Len(log) + 1] = m
      /\ \A i \in DOMAIN log : log'[i] = log[i]
      /\ \A i \in DOMAIN log : RequestAt(i)' <=> RequestAt(i)
      /\ \A i \in DOMAIN log : ResultAt(i)' <=> ResultAt(i)
      /\ \A i \in DOMAIN log : FirstRequestAt(i)' <=> FirstRequestAt(i)
  BY <1>1, AppendKeeps
<1>3. \A i \in DOMAIN log' : ResultAt(i)' => i \in DOMAIN log /\ ResultAt(i)
  BY <1>2 DEF ResultAt
<1>4. Busy' <=> Busy
  BY DEF Busy
<1>5. Running' <=> Running
  BY DEF Running
<1>6. ReadBounds'
  BY <1>1, <1>2, <1>3 DEF ReadBounds
<1>7. CanonicalIsFirst'
  BY <1>1, AppendCanonical
<1>8. CompletedAreAnswered'
  <2>1. \A i \in DOMAIN log' :
          KnownResult(i)' <=> i \in DOMAIN log /\ KnownResult(i)
    BY <1>2, <1>3, <1>5 DEF KnownResult
  <2>2. \A q \in RequestIds : Completed(q)' <=> Completed(q)
    BY <1>2, <2>1 DEF Completed
  <2> QED
    BY <1>1, <2>2 DEF CompletedAreAnswered
<1>9. PendingIsUnanswered' /\ TaskIsOldest'
  BY <1>1, <1>4 DEF PendingIsUnanswered, TaskIsOldest
<1> QED
  BY <1>6, <1>7, <1>8, <1>9 DEF MemoryInv

(* Steps that read and write nothing of the log: the phase moves on, and    *)
(* next_pending_task may drop heap entries of finished requests.            *)
LEMMA QuietMemory ==
    ASSUME AnswerInv, log' = log, Busy' <=> Busy, ReadBounds',
           \A i \in DOMAIN log : KnownResult(i)' <=> KnownResult(i),
           \A f \in pending_heap : Live(f) => f \in pending_heap',
           UNCHANGED <<next_seq, task, canonical_requests_by_id,
                       requests_by_id, completed_request_ids,
                       terminal_results_by_id, blocked_by_channel>>
    PROVE  MemoryInv'
<1>1. /\ log \in Seq(Message) /\ next_seq \in Nat /\ RuntimeTypeOK
      /\ CanonicalIsFirst /\ CompletedAreAnswered
      /\ PendingIsUnanswered /\ TaskIsOldest
  BY DEF AnswerInv, TypeInv, TypeOK, MemoryInv
<1>2. \A i : /\ RequestAt(i)' <=> RequestAt(i)
             /\ FirstRequestAt(i)' <=> FirstRequestAt(i)
  BY DEF RequestAt, FirstRequestAt
<1>4. CanonicalIsFirst'
  <2>1. ASSUME NEW q \in RequestIds, canonical_requests_by_id[q] # None
        PROVE  canonical_requests_by_id[q].seq \in Nat
    BY <1>1, <2>1 DEF RuntimeTypeOK, OutboundTask
  <2> QED
    BY <1>1, <1>2, <2>1 DEF CanonicalIsFirst
<1>5. CompletedAreAnswered'
  <2>1. \A q \in RequestIds : Completed(q)' <=> Completed(q)
    BY DEF Completed
  <2> QED
    BY <1>1, <2>1 DEF CompletedAreAnswered
<1>6. PendingIsUnanswered'
  <2>1. ASSUME NEW q \in RequestIds, requests_by_id[q] # None,
               <<requests_by_id[q].seq, q>> \in pending_heap
        PROVE  <<requests_by_id[q].seq, q>> \in pending_heap'
    <3>1. q \notin completed_request_ids
      BY <1>1, <2>1 DEF PendingIsUnanswered
    <3> QED
      BY <2>1, <3>1 DEF Live
  <2> QED
    BY <1>1, <2>1 DEF PendingIsUnanswered
<1>7. TaskIsOldest'
  BY <1>1 DEF TaskIsOldest
<1> QED
  BY <1>4, <1>5, <1>6, <1>7 DEF MemoryInv

(* The oldest live heap entry becomes the task.                             *)
LEMMA TakeTaskMemory ==
    ASSUME AnswerInv, NEW e \in pending_heap, NextPendingTask(e),
           task' = requests_by_id[e[2]], phase = "work", phase' = "send",
           UNCHANGED <<log, next_seq, snapshot>>
    PROVE  MemoryInv'
<1> DEFINE r == e[2]
<1>1. /\ log \in Seq(Message) /\ next_seq \in Nat /\ RuntimeTypeOK
      /\ ReadBounds /\ CanonicalIsFirst /\ CompletedAreAnswered
      /\ PendingIsUnanswered /\ TaskIsOldest /\ ~Busy /\ Busy' /\ Running
      /\ Running'
  BY DEF AnswerInv, TypeInv, TypeOK, MemoryInv, Busy, Running
<1>2. /\ \A f \in pending_heap : /\ f[2] \in RequestIds /\ f[1] \in Nat
                                 /\ f = <<f[1], f[2]>>
      /\ \A q \in RequestIds : requests_by_id[q] # None =>
           /\ requests_by_id[q] \in OutboundTask
           /\ requests_by_id[q].seq \in Nat
           /\ requests_by_id[q].channel_id \in Channels
  BY <1>1 DEF RuntimeTypeOK, OutboundTask
<1>3. \A f \in pending_heap : Ready(f) <=> Live(f)
  BY <1>1, <1>2 DEF Ready, Live, TaskIsOldest
<1>4. /\ requests_by_id[r] # None /\ requests_by_id[r].seq = e[1]
      /\ \A f \in pending_heap : Live(f) => e[1] <= f[1]
      /\ pending_heap' = {f \in pending_heap : f[1] > e[1] \/ (Live(f) /\ f # e)}
      /\ blocked_by_channel' =
           [blocked_by_channel EXCEPT ![requests_by_id[r].channel_id] = r]
      /\ UNCHANGED <<canonical_requests_by_id, requests_by_id,
                     completed_request_ids, terminal_results_by_id>>
  BY <1>3 DEF NextPendingTask, FirstReady, Ready, Live
<1>5. ASSUME NEW q \in RequestIds, requests_by_id[q] # None
      PROVE  /\ canonical_requests_by_id[q] = requests_by_id[q]
             /\ requests_by_id[q].request_id = q
             /\ <<requests_by_id[q].seq, q>> \in pending_heap
             /\ Live(<<requests_by_id[q].seq, q>>)
  <2>1. /\ q \notin completed_request_ids
        /\ canonical_requests_by_id[q] = requests_by_id[q]
        /\ <<requests_by_id[q].seq, q>> \in pending_heap
    BY <1>1, <1>5 DEF PendingIsUnanswered
  <2>2. PICK s : canonical_requests_by_id[q] = TaskOf(s, log[s])
                 /\ log[s].request_id = q
    BY <1>1, <1>5, <2>1 DEF CanonicalIsFirst
  <2>3. requests_by_id[q].request_id = q
    BY <2>1, <2>2 DEF TaskOf
  <2> QED
    BY <1>5, <2>1, <2>3 DEF Live
<1>6. ReadBounds' /\ CanonicalIsFirst' /\ CompletedAreAnswered'
  <2>1. \A i : /\ RequestAt(i)' <=> RequestAt(i)
               /\ ResultAt(i)' <=> ResultAt(i)
               /\ FirstRequestAt(i)' <=> FirstRequestAt(i)
    BY DEF RequestAt, ResultAt, FirstRequestAt
  <2>2. ReadBounds'
    BY <1>1 DEF ReadBounds
  <2>3. CanonicalIsFirst'
    <3>1. ASSUME NEW q \in RequestIds, canonical_requests_by_id[q] # None
          PROVE  canonical_requests_by_id[q].seq \in Nat
      BY <1>1, <3>1 DEF RuntimeTypeOK, OutboundTask
    <3> QED
      BY <1>1, <1>4, <2>1, <3>1 DEF CanonicalIsFirst
  <2>4. \A q \in RequestIds : Completed(q)' <=> Completed(q)
    BY <1>1, <2>1 DEF Completed, KnownResult
  <2>5. CompletedAreAnswered'
    BY <1>1, <1>4, <2>4 DEF CompletedAreAnswered
  <2> QED
    BY <2>2, <2>3, <2>5
<1>7. r \in RequestIds /\ task'.request_id = r /\ task' # None
      /\ task'.channel_id \in Channels
  BY <1>2, <1>4, <1>5
<1>8. PendingIsUnanswered'
  <2>1. ASSUME NEW q \in RequestIds, requests_by_id[q] # None, q # r
        PROVE  <<requests_by_id[q].seq, q>> \in pending_heap'
    <3> DEFINE f == <<requests_by_id[q].seq, q>>
    <3>1. f \in pending_heap /\ Live(f) /\ f # e
      BY <1>5, <2>1
    <3> QED
      BY <1>4, <3>1
  <2> QED
    BY <1>1, <1>4, <1>7, <2>1 DEF PendingIsUnanswered
<1>9. TaskIsOldest'
  <2>1. \A q \in RequestIds : requests_by_id[q] # None =>
          task'.seq <= requests_by_id[q].seq
    <3> SUFFICES ASSUME NEW q \in RequestIds, requests_by_id[q] # None
                 PROVE  e[1] <= requests_by_id[q].seq
      BY <1>4
    <3>1. /\ <<requests_by_id[q].seq, q>> \in pending_heap
          /\ Live(<<requests_by_id[q].seq, q>>)
      BY <1>5
    <3> QED
      BY <1>4, <3>1
  <2>2. \A c \in Channels : blocked_by_channel'[c] =
          IF c = task'.channel_id THEN r ELSE None
    BY <1>1, <1>4, <1>7 DEF TaskIsOldest, RuntimeTypeOK
  <2> QED
    BY <1>1, <1>4, <1>7, <2>1, <2>2 DEF TaskIsOldest
<1> QED
  BY <1>6, <1>8, <1>9 DEF MemoryInv

(* The result is committed and the request marked finished.                 *)
LEMMA PublishResultMemory ==
    ASSUME AnswerInv, phase = "result", log' = Append(log, ResultMessage),
           MarkSendResultSuccess(task, message_id, Len(log) + 1),
           phase' = "poll", task' = None, UNCHANGED <<next_seq, snapshot>>
    PROVE  MemoryInv'
<1> DEFINE r == task.request_id
<1>0. PICK n : n = Len(log) + 1
  OBVIOUS
<1>1. /\ log \in Seq(Message) /\ next_seq \in Nat /\ RuntimeTypeOK
      /\ ReadBounds /\ CanonicalIsFirst /\ CompletedAreAnswered
      /\ PendingIsUnanswered /\ TaskIsOldest /\ Busy /\ ~Busy' /\ Running
      /\ Running' /\ snapshot \in Nat
  BY DEF AnswerInv, TypeInv, TypeOK, MemoryInv, Busy, Running
<1>2. ResultMessage \in Message /\ task \in OutboundTask /\ task # None
  BY ResultMessageType, RuntimeAssumption DEF AnswerInv, Message
<1>3. r \in RequestIds /\ task.channel_id \in Channels /\ r # None
  BY <1>2, RuntimeAssumption DEF OutboundTask
<1>4. requests_by_id[r] = task /\ canonical_requests_by_id[r] # None
  BY <1>1, <1>2, <1>3 DEF TaskIsOldest, PendingIsUnanswered
<1>5. /\ DOMAIN log = 1 .. Len(log) /\ Len(log) \in Nat
      /\ DOMAIN log' = 1 .. n /\ Len(log') = n
      /\ log'[n] = ResultMessage
      /\ \A i \in DOMAIN log : log'[i] = log[i]
      /\ \A i \in DOMAIN log : ResultAt(i)' <=> ResultAt(i)
  BY <1>0, <1>1, <1>2, AppendKeeps
<1>6. /\ completed_request_ids' = completed_request_ids \cup {r}
      /\ requests_by_id' = [requests_by_id EXCEPT ![r] = None]
      /\ blocked_by_channel' = Unblocked(task.channel_id, r)
      /\ UNCHANGED <<canonical_requests_by_id, terminal_results_by_id,
                     pending_heap>>
  BY DEF MarkSendResultSuccess
<1>7. ReadBounds'
  BY <1>1, <1>5 DEF ReadBounds
<1>8. CanonicalIsFirst'
  BY <1>1, <1>2, <1>6, AppendCanonical
<1>9. CompletedAreAnswered'
  <2>1. ResultAt(n)' /\ log'[n].request_id = r
    BY <1>0, <1>5 DEF ResultAt, ResultMessage
  <2>2. \A i \in DOMAIN log' : KnownResult(i)' <=>
          (i \in DOMAIN log /\ KnownResult(i)) \/ i = n
    BY <1>0, <1>1, <1>5, <2>1 DEF KnownResult
  <2>3. \A q \in RequestIds : Completed(q)' <=> Completed(q) \/ q = r
    BY <1>5, <2>1, <2>2 DEF Completed
  <2> QED
    BY <1>1, <1>4, <1>6, <2>3 DEF CompletedAreAnswered
<1>10. PendingIsUnanswered'
  <2>1. \A q \in RequestIds : requests_by_id'[q] =
          IF q = r THEN None ELSE requests_by_id[q]
    BY <1>1, <1>6 DEF RuntimeTypeOK
  <2> QED
    BY <1>1, <1>6, <2>1 DEF PendingIsUnanswered
<1>11. TaskIsOldest'
  <2>1. \A c \in Channels : blocked_by_channel[c] =
          IF c = task.channel_id THEN r ELSE None
    BY <1>1 DEF TaskIsOldest
  <2>2. \A c \in Channels : blocked_by_channel'[c] = None
    BY <1>1, <1>3, <1>6, <2>1 DEF Unblocked, RuntimeTypeOK
  <2> QED
    BY <1>1, <2>2 DEF TaskIsOldest
<1> QED
  BY <1>7, <1>8, <1>9, <1>10, <1>11 DEF MemoryInv

-----------------------------------------------------------------------------
(* AnswerInv is inductive.                                                  *)

LEMMA SameLog == LogInv /\ log' = log => LogInv'
BY DEF LogInv, ResultsAnswerFirst, AnswersArePrefix, ResultsInRequestOrder,
       ResultAt, FirstRequestAt, RequestAt, Answered

LEMMA AnswerInvInit == Init => AnswerInv
<1> SUFFICES ASSUME Init PROVE AnswerInv
  OBVIOUS
<1>1. TypeInv
  BY TypeInvInit
<1>2. /\ phase = "down" /\ next_seq = 1 /\ task = None /\ log = <<>>
      /\ canonical_requests_by_id = [r \in RequestIds |-> None]
      /\ terminal_results_by_id = [r \in RequestIds |-> None]
      /\ requests_by_id = [r \in RequestIds |-> None]
      /\ completed_request_ids = {}
      /\ blocked_by_channel = [c \in Channels |-> None]
  BY DEF Init, RuntimeInit
<1>3. LogInv
  BY <1>2 DEF LogInv, ResultsAnswerFirst, AnswersArePrefix,
              ResultsInRequestOrder, ResultAt
<1>4. ReadBounds /\ CanonicalIsFirst
  BY <1>2 DEF ReadBounds, CanonicalIsFirst
<1>5. CompletedAreAnswered
  BY <1>2 DEF CompletedAreAnswered, Completed, KnownResult, ResultAt
<1>6. PendingIsUnanswered /\ TaskIsOldest
  BY <1>2 DEF PendingIsUnanswered, TaskIsOldest, Busy
<1> QED
  BY <1>1, <1>3, <1>4, <1>5, <1>6 DEF AnswerInv, MemoryInv

LEMMA AnswerInvNext == AnswerInv /\ [Next]_vars => AnswerInv'
<1> SUFFICES ASSUME AnswerInv, [Next]_vars PROVE AnswerInv'
  OBVIOUS
<1>1. TypeInv /\ TypeInv' /\ LogInv
  BY TypeInvNext DEF AnswerInv
<1>2. /\ log \in Seq(Message) /\ Len(log) \in Nat /\ snapshot \in Nat
      /\ next_seq \in Nat /\ next_seq >= 1 /\ ReadBounds
      /\ DOMAIN log = 1 .. Len(log)
  BY <1>1, LenProperties DEF TypeInv, TypeOK, AnswerInv, MemoryInv
<1>3. ASSUME NEW m \in CallerMessages, CallerPublishes(m) PROVE AnswerInv'
  <2>1. m \in Message /\ m.principal # Worker
    BY P2PAssumption
  <2> QED
    BY <1>1, <1>2, <1>3, <2>1, AppendOther, AppendMemory
    DEF CallerPublishes, runtime, worker, AnswerInv
<1>4. CASE \/ \E c \in Channels, user \in Principals : UserPosts(c, user)
           \/ \E c \in Channels : CollectMessage(c) \/ CollectAgain(c)
           \/ Poll \/ EndIngest \/ CollectNothing \/ TakeEvent
           \/ NothingToDo \/ SendMessage \/ UNCHANGED vars
  <2>1. /\ log' = log
        /\ UNCHANGED <<next_seq, task, canonical_requests_by_id,
                       requests_by_id, completed_request_ids,
                       terminal_results_by_id, blocked_by_channel>>
        /\ \A f \in pending_heap : Live(f) => f \in pending_heap'
    BY <1>4 DEF UserPosts, CollectMessage, Poll, EndIngest, CollectNothing,
         CollectAgain, TakeEvent, NothingToDo, SendMessage, NoPendingTask,
         runtime, worker, vars
  <2>2. /\ Busy' <=> Busy
        /\ Running' <=> Running
        /\ phase' = "down" => phase = "down"
        /\ phase' = "scan" => phase = "scan" /\ snapshot' = snapshot
    BY <1>4 DEF UserPosts, CollectMessage, Poll, EndIngest, CollectNothing,
         CollectAgain, TakeEvent, NothingToDo, SendMessage, worker, vars,
         Busy, Running
  <2>3. \A i : ResultAt(i)' <=> ResultAt(i)
    BY <2>1 DEF ResultAt
  <2>4. ReadBounds' /\ \A i \in DOMAIN log : KnownResult(i)' <=> KnownResult(i)
    BY <1>2, <2>1, <2>2, <2>3 DEF ReadBounds, KnownResult
  <2> QED
    BY <1>1, <2>1, <2>2, <2>4, SameLog, QuietMemory DEF AnswerInv
<1>5. CASE Start
  <2>1. ReadBounds' /\ \A i \in DOMAIN log : KnownResult(i)' <=> KnownResult(i)
    BY <1>2, <1>5 DEF Start, ReadBounds, KnownResult, ResultAt, Running
  <2> QED
    BY <1>1, <1>5, <2>1, SameLog, QuietMemory
    DEF Start, Busy, runtime, AnswerInv
<1>6. CASE StartPullers
  <2>1. ReadBounds' /\ \A i \in DOMAIN log : KnownResult(i)' <=> KnownResult(i)
    BY <1>2, <1>6 DEF StartPullers, ReadBounds, KnownResult, ResultAt, Running
  <2> QED
    BY <1>1, <1>6, <2>1, SameLog, QuietMemory
    DEF StartPullers, Busy, runtime, AnswerInv
<1>7. CASE ScanMessage
  <2>1. /\ next_seq \in DOMAIN log /\ next_seq <= snapshot /\ phase = "scan"
        /\ next_seq' = next_seq + 1 /\ UNCHANGED <<log, phase, snapshot, task>>
        /\ ~RolesInvalid(log[next_seq])
        /\ ReplayMessage(next_seq, log[next_seq])
    BY <1>1, <1>2, <1>7 DEF ScanMessage, TypeInv, WorkInHand
  <2>2. CASE log[next_seq].kind = "send.request"
    BY <1>1, <2>1, <2>2, SameLog, RequestMemory DEF ReplayMessage, AnswerInv
  <2>3. CASE log[next_seq].kind = "send.result"
    BY <1>1, <2>1, <2>3, SameLog, ResultMemory
    DEF ReplayMessage, RolesInvalid, AnswerInv
  <2>4. CASE log[next_seq].kind = "sync.record"
    <3>1. UNCHANGED <<canonical_requests_by_id, requests_by_id,
                      completed_request_ids, terminal_results_by_id,
                      pending_heap, blocked_by_channel>>
      BY <2>1, <2>4 DEF ReplayMessage, AddSyncRecord, MarkSyncRecord
    <3> QED
      BY <1>1, <2>1, <2>4, <3>1, SameLog, SkipMemory
      DEF RequestAt, ResultAt, AnswerInv
  <2> QED
    BY <2>1, <2>2, <2>3, <2>4 DEF ReplayMessage
<1>8. CASE IngestMessage
  <2>1. /\ next_seq \in DOMAIN log /\ next_seq <= snapshot /\ phase = "ingest"
        /\ next_seq' = next_seq + 1 /\ UNCHANGED <<log, phase, snapshot, task>>
    BY <1>1, <1>2, <1>8 DEF IngestMessage, TypeInv, WorkInHand
  <2>2. CASE log[next_seq].kind = "send.request"
    BY <1>1, <1>8, <2>1, <2>2, SameLog, RequestMemory
    DEF IngestMessage, AnswerInv
  <2>3. CASE log[next_seq].kind # "send.request"
    <3>1. UNCHANGED <<canonical_requests_by_id, requests_by_id,
                      completed_request_ids, terminal_results_by_id,
                      pending_heap, blocked_by_channel>>
      BY <1>8, <2>3 DEF IngestMessage, runtime
    <3> QED
      BY <1>1, <2>1, <2>3, <3>1, SameLog, SkipMemory
      DEF RequestAt, AnswerInv
  <2> QED
    BY <2>2, <2>3
<1>9. CASE ScanConflict \/ IngestConflict \/ TakeUnmappedTask \/ SendRefused
           \/ TakeUnmappedEvent \/ Crash \/ SendUnanswered
  <2>1. ExitWorker /\ log' = log
    BY <1>9 DEF ScanConflict, IngestConflict, TakeUnmappedTask, SendRefused,
                TakeUnmappedEvent, Crash, SendUnanswered
  <2> QED
    BY <1>1, <2>1, SameLog, ExitMemory
<1>10. CASE PublishResultUnknown
  <2>1. LogInv'
    BY <1>10, AppendResult DEF PublishResultUnknown
  <2> QED
    BY <1>1, <1>10, <2>1, ExitMemory DEF PublishResultUnknown
<1>11. CASE PublishRecord \/ PublishRecordUnknown
  <2>1. /\ log' = Append(log, RecordMessage) /\ RecordMessage \in Message
        /\ RecordMessage.kind = "sync.record"
    BY <1>1, <1>11, RecordMessageType
    DEF PublishRecord, PublishRecordUnknown, Message, RecordMessage
  <2>2. LogInv'
    BY <1>1, <1>2, <2>1, AppendOther
  <2>3. CASE PublishRecord
    <3>1. /\ phase = "record" /\ phase' = "poll"
          /\ UNCHANGED <<next_seq, snapshot, task, canonical_requests_by_id,
                         requests_by_id, completed_request_ids,
                         terminal_results_by_id, pending_heap,
                         blocked_by_channel>>
      BY <2>3 DEF PublishRecord, MarkSyncRecord
    <3> QED
      BY <1>1, <2>1, <2>2, <3>1, AppendMemory DEF AnswerInv
  <2>4. CASE PublishRecordUnknown
    BY <1>1, <2>2, <2>4, ExitMemory DEF PublishRecordUnknown
  <2> QED
    BY <1>11, <2>3, <2>4
<1>12. CASE TakeTask
  <2>1. PICK e \in pending_heap :
          NextPendingTask(e) /\ task' = requests_by_id[e[2]]
    BY <1>12 DEF TakeTask
  <2> QED
    BY <1>1, <1>12, <2>1, SameLog, TakeTaskMemory DEF TakeTask, AnswerInv
<1>13. CASE PublishResult
  BY <1>1, <1>13, AppendResult, PublishResultMemory
  DEF PublishResult, AnswerInv
<1> QED
  BY <1>3, <1>4, <1>5, <1>6, <1>7, <1>8, <1>9, <1>10, <1>11, <1>12, <1>13
  DEF Next, Environment, WorkerStep, Stream, FaultStep

(* The worker answers requests in the order they were committed and each    *)
(* request once, whatever callers write and however often it restarts.      *)
THEOREM ResultsOrdered == Spec => []ResultsInRequestOrder
<1>1. AnswerInv => ResultsInRequestOrder
  BY DEF AnswerInv, LogInv
<1> QED
  BY AnswerInvInit, AnswerInvNext, <1>1, PTL DEF Spec

-----------------------------------------------------------------------------
(***************************************************************************)
(* The chat and the results: what the worker sent, what it wrote about it  *)
(* and the links it remembers agree.                                       *)
(***************************************************************************)
-----------------------------------------------------------------------------
(* How the log and the chat grow.                                          *)

Written(m) == \/ m \in CallerMessages
              \/ phase = "result" /\ m = ResultMessage
              \/ phase = "record" /\ m = RecordMessage

LEMMA LogGrows ==
    ASSUME TypeInv, [Next]_vars
    PROVE  \/ log' = log
           \/ \E m \in Message : Written(m) /\ log' = Append(log, m)
<1>1. ASSUME NEW m \in CallerMessages, CallerPublishes(m)
      PROVE  m \in Message /\ Written(m) /\ log' = Append(log, m)
  BY <1>1, P2PAssumption DEF CallerPublishes, Written
<1>2. CASE PublishResult \/ PublishResultUnknown
  <2>1. phase = "result" /\ log' = Append(log, ResultMessage)
    BY <1>2 DEF PublishResult, PublishResultUnknown
  <2>2. ResultMessage \in Message
    BY <2>1, ResultMessageType DEF Message
  <2> QED
    BY <2>1, <2>2 DEF Written
<1>3. CASE PublishRecord \/ PublishRecordUnknown
  <2>1. phase = "record" /\ log' = Append(log, RecordMessage)
    BY <1>3 DEF PublishRecord, PublishRecordUnknown
  <2>2. RecordMessage \in Message
    BY <2>1, RecordMessageType DEF Message
  <2> QED
    BY <2>1, <2>2 DEF Written
<1> QED
  BY <1>1, <1>2, <1>3
  DEF Next, Environment, WorkerStep, Stream, FaultStep, UserPosts, Start,
      ScanMessage, ScanConflict, StartPullers, Poll, IngestMessage,
      IngestConflict, EndIngest, TakeTask, TakeUnmappedTask, SendRefused, TakeEvent,
      TakeUnmappedEvent, NothingToDo, SendMessage, CollectMessage,
      CollectAgain, CollectNothing, Crash, SendUnanswered, vars

(* A message that is added to the chat was posted by a user, or is the      *)
(* first one sent for the task in hand.                                     *)
Posted(msg) ==
    \/ msg.request_id = None
    \/ /\ phase = "send" /\ task \in OutboundTask
       /\ msg.request_id = task.request_id
       /\ msg.channel_id = task.channel_id
       /\ \A i \in DOMAIN chat : chat[i].request_id # task.request_id

LEMMA ChatGrows ==
    ASSUME TypeInv, [Next]_vars
    PROVE  \/ chat' = chat
           \/ \E msg \in ChatMessage : Posted(msg) /\ chat' = Append(chat, msg)
<1>1. ASSUME NEW c \in Channels, NEW user \in Principals, UserPosts(c, user)
      PROVE  \E msg \in ChatMessage : Posted(msg) /\ chat' = Append(chat, msg)
  <2> DEFINE msg == [channel_id |-> c, sender |-> user, request_id |-> None]
  <2>1. msg \in ChatMessage /\ Posted(msg)
    BY DEF ChatMessage, Posted
  <2> QED
    BY <1>1, <2>1 DEF UserPosts
<1>2. CASE SendMessage \/ SendUnanswered
  <2>1. phase = "send" /\ AcceptSend
    BY <1>2 DEF SendMessage, SendUnanswered
  <2>2. task \in OutboundTask
    BY <2>1 DEF TypeInv, TypeOK, WorkInHand
  <2> DEFINE msg == [channel_id |-> task.channel_id,
                     sender |-> task.principal,
                     request_id |-> task.request_id]
  <2>3. CASE \E i \in DOMAIN chat : SentFor(task.request_id, i)
    BY <2>1, <2>3 DEF AcceptSend
  <2>4. CASE ~ \E i \in DOMAIN chat : SentFor(task.request_id, i)
    <3>1. msg \in ChatMessage
      BY <2>2 DEF ChatMessage, OutboundTask
    <3>2. Posted(msg)
      BY <2>1, <2>2, <2>4 DEF Posted, SentFor
    <3>3. chat' = Append(chat, msg)
      BY <2>1, <2>4 DEF AcceptSend
    <3> QED
      BY <3>1, <3>2, <3>3
  <2> QED
    BY <2>3, <2>4
<1> QED
  BY <1>1, <1>2
  DEF Next, Environment, WorkerStep, Stream, FaultStep, CallerPublishes, Start,
      ScanMessage, ScanConflict, StartPullers, Poll, IngestMessage,
      IngestConflict, EndIngest, TakeTask, TakeUnmappedTask, SendRefused, TakeEvent,
      TakeUnmappedEvent, NothingToDo, CollectMessage, CollectAgain,
      CollectNothing, Crash, PublishResult, PublishResultUnknown,
      PublishRecord, PublishRecordUnknown, vars

(* What was in the log and in the chat stays, at its place.                 *)
LEMMA LogKept ==
    ASSUME TypeInv, [Next]_vars
    PROVE  /\ DOMAIN log = 1 .. Len(log) /\ Len(log) \in Nat
           /\ \A i \in DOMAIN log :
                /\ i \in DOMAIN log' /\ log'[i] = log[i]
                /\ RequestAt(i)' <=> RequestAt(i)
                /\ ResultAt(i)' <=> ResultAt(i)
                /\ RecordAt(i)' <=> RecordAt(i)
                /\ FirstRequestAt(i)' <=> FirstRequestAt(i)
           /\ \A i \in DOMAIN log' : i \notin DOMAIN log =>
                /\ i = Len(log) + 1 /\ Written(log'[i]) /\ log'[i] \in Message
                /\ log' = Append(log, log'[i])
<1>1. log \in Seq(Message) /\ DOMAIN log = 1 .. Len(log) /\ Len(log) \in Nat
  BY LenProperties DEF TypeInv, TypeOK
<1>2. CASE log' = log
  BY <1>1, <1>2 DEF RequestAt, ResultAt, RecordAt, FirstRequestAt
<1>3. ASSUME NEW m \in Message, Written(m), log' = Append(log, m)
      PROVE  /\ \A i \in DOMAIN log :
                /\ i \in DOMAIN log' /\ log'[i] = log[i]
                /\ RequestAt(i)' <=> RequestAt(i)
                /\ ResultAt(i)' <=> ResultAt(i)
                /\ RecordAt(i)' <=> RecordAt(i)
                /\ FirstRequestAt(i)' <=> FirstRequestAt(i)
             /\ \A i \in DOMAIN log' : i \notin DOMAIN log =>
                /\ i = Len(log) + 1 /\ Written(log'[i]) /\ log'[i] \in Message
                /\ log' = Append(log, log'[i])
  <2>1. /\ DOMAIN log' = 1 .. Len(log) + 1
        /\ log'[Len(log) + 1] = m
        /\ \A i \in DOMAIN log : log'[i] = log[i]
        /\ \A i \in DOMAIN log : RequestAt(i)' <=> RequestAt(i)
        /\ \A i \in DOMAIN log : ResultAt(i)' <=> ResultAt(i)
        /\ \A i \in DOMAIN log : FirstRequestAt(i)' <=> FirstRequestAt(i)
    BY <1>1, <1>3, AppendKeeps
  <2>2. \A i \in DOMAIN log : RecordAt(i)' <=> RecordAt(i)
    BY <1>1, <2>1 DEF RecordAt
  <2>3. \A i \in DOMAIN log : i \in DOMAIN log'
    BY <1>1, <2>1
  <2>4. \A i \in DOMAIN log' : i \in DOMAIN log \/ i = Len(log) + 1
    BY <1>1, <2>1
  <2>5. Written(log'[Len(log) + 1]) /\ log'[Len(log) + 1] \in Message
        /\ log' = Append(log, log'[Len(log) + 1])
    BY <1>3, <2>1
  <2> QED
    BY <2>1, <2>2, <2>3, <2>4, <2>5
<1> QED
  BY <1>1, <1>2, <1>3, LogGrows

LEMMA ChatKept ==
    ASSUME TypeInv, [Next]_vars
    PROVE  /\ DOMAIN chat = 1 .. Len(chat) /\ Len(chat) \in Nat
           /\ \A i \in DOMAIN chat : i \in DOMAIN chat' /\ chat'[i] = chat[i]
           /\ \A i \in DOMAIN chat' : i \notin DOMAIN chat =>
                  /\ i = Len(chat) + 1 /\ Posted(chat'[i])
                  /\ chat' = Append(chat, chat'[i])
<1>1. /\ chat \in Seq(ChatMessage) /\ DOMAIN chat = 1 .. Len(chat)
      /\ Len(chat) \in Nat
  BY LenProperties DEF TypeInv, TypeOK
<1>2. CASE chat' = chat
  BY <1>1, <1>2
<1>3. ASSUME NEW msg \in ChatMessage, Posted(msg), chat' = Append(chat, msg)
      PROVE  /\ \A i \in DOMAIN chat : i \in DOMAIN chat' /\ chat'[i] = chat[i]
             /\ \A i \in DOMAIN chat' : i \notin DOMAIN chat =>
                  /\ i = Len(chat) + 1 /\ Posted(chat'[i])
                  /\ chat' = Append(chat, chat'[i])
  <2>1. /\ DOMAIN chat' = 1 .. Len(chat) + 1
        /\ chat'[Len(chat) + 1] = msg
        /\ \A i \in DOMAIN chat : chat'[i] = chat[i]
    BY <1>1, <1>3, AppendProperties
  <2> QED
    BY <1>1, <1>3, <2>1
<1> QED
  BY <1>1, <1>2, <1>3, ChatGrows

-----------------------------------------------------------------------------
(* The worker reads forward, and starts to act only when a scan is through. *)
LEMMA ReadKept ==
    ASSUME TypeInv, ReadBounds, [Next]_vars, NEW q \in DOMAIN log,
           Running => q < next_seq, phase = "scan" => q <= snapshot
    PROVE  /\ Running' => q < next_seq'
           /\ phase' = "scan" => q <= snapshot'
<1>1. /\ Len(log) \in Nat /\ next_seq \in Nat /\ snapshot \in Nat
      /\ q \in 1 .. Len(log) /\ q \in Nat
  BY LenProperties DEF TypeInv, TypeOK
<1>2. CASE Start
  BY <1>1, <1>2 DEF Start, Running
<1>3. CASE StartPullers
  BY <1>1, <1>3 DEF StartPullers, Running
<1>4. CASE ScanMessage \/ IngestMessage
  BY <1>1, <1>4 DEF ScanMessage, IngestMessage, Running
<1>5. CASE Crash \/ SendUnanswered \/ PublishResultUnknown
           \/ PublishRecordUnknown \/ ScanConflict \/ IngestConflict
           \/ TakeUnmappedTask \/ SendRefused \/ TakeUnmappedEvent
  BY <1>5 DEF Crash, SendUnanswered, PublishResultUnknown,
       PublishRecordUnknown, ScanConflict, IngestConflict, TakeUnmappedTask, SendRefused,
       TakeUnmappedEvent, ExitWorker, Running
<1>6. CASE \/ \E m \in CallerMessages : CallerPublishes(m)
           \/ \E c \in Channels, user \in Principals : UserPosts(c, user)
           \/ UNCHANGED vars
  BY <1>6 DEF CallerPublishes, UserPosts, vars, worker, Running
<1>7. CASE Poll \/ EndIngest \/ CollectNothing \/ TakeTask \/ TakeEvent
           \/ NothingToDo \/ SendMessage \/ PublishResult \/ PublishRecord
           \/ \E c \in Channels : CollectMessage(c) \/ CollectAgain(c)
  BY <1>7 DEF Poll, EndIngest, CollectNothing, TakeTask, TakeEvent,
       NothingToDo, SendMessage, PublishResult, PublishRecord, CollectMessage,
       CollectAgain, Running
<1> QED
  BY <1>2, <1>3, <1>4, <1>5, <1>6, <1>7
  DEF Next, Environment, WorkerStep, Stream, FaultStep

(* The request in hand is the first of its id and was read.                 *)
LEMMA TaskRead ==
    ASSUME AnswerInv, Busy
    PROVE  /\ FirstRequestAt(task.seq) /\ task.seq \in DOMAIN log
           /\ task.seq < next_seq
           /\ log[task.seq].request_id = task.request_id
           /\ log[task.seq].channel_id = task.channel_id
<1>1. /\ task \in OutboundTask /\ task.seq \in DOMAIN log
      /\ FirstRequestAt(task.seq)
      /\ task = TaskOf(task.seq, log[task.seq])
      /\ log[task.seq].request_id = task.request_id
  BY TaskFacts
<1>2. canonical_requests_by_id[task.request_id] = task
  <2>1. /\ task.request_id \in RequestIds /\ task # None
        /\ requests_by_id[task.request_id] = task
    BY <1>1 DEF AnswerInv, MemoryInv, TaskIsOldest, OutboundTask
  <2> QED
    BY <2>1 DEF AnswerInv, MemoryInv, PendingIsUnanswered
<1>3. task.seq < next_seq
  <2>1. task.request_id \in RequestIds /\ task # None
    BY <1>1 DEF AnswerInv, MemoryInv, TaskIsOldest, OutboundTask
  <2> QED
    BY <1>2, <2>1 DEF AnswerInv, MemoryInv, CanonicalIsFirst
<1>4. log[task.seq].channel_id = task.channel_id
  BY <1>1 DEF TaskOf
<1> QED
  BY <1>1, <1>3, <1>4

-----------------------------------------------------------------------------
(* What was sent, and the results that name it.                            *)

LEMMA SentNext ==
    ASSUME AnswerInv, SentAfterReading, [Next]_vars
    PROVE  SentAfterReading'
<1>1. TypeInv /\ ReadBounds /\ log \in Seq(Message)
  BY DEF AnswerInv, MemoryInv, TypeInv, TypeOK
<1>2. /\ \A i \in DOMAIN chat : i \in DOMAIN chat' /\ chat'[i] = chat[i]
      /\ \A i \in DOMAIN chat' : i \notin DOMAIN chat =>
           i = Len(chat) + 1 /\ Posted(chat'[i])
  BY <1>1, ChatKept
<1>3. \A q \in DOMAIN log :
        q \in DOMAIN log' /\ log'[q] = log[q]
          /\ (FirstRequestAt(q)' <=> FirstRequestAt(q))
  BY <1>1, LogKept
<1>4. ASSUME NEW i \in DOMAIN chat', chat'[i].request_id # None
      PROVE  \E q \in DOMAIN log :
               /\ FirstRequestAt(q)
               /\ log[q].request_id = chat'[i].request_id
               /\ log[q].channel_id = chat'[i].channel_id
               /\ Running => q < next_seq
               /\ phase = "scan" => q <= snapshot
  <2>1. CASE i \in DOMAIN chat
    BY <1>2, <1>4, <2>1 DEF SentAfterReading
  <2>2. CASE i \notin DOMAIN chat
    <3>1. /\ phase = "send" /\ chat'[i].request_id = task.request_id
          /\ chat'[i].channel_id = task.channel_id
      BY <1>2, <1>4, <2>2 DEF Posted
    <3> QED
      BY <3>1, TaskRead DEF Busy
  <2> QED
    BY <2>1, <2>2
<1>5. ASSUME NEW i \in DOMAIN chat', chat'[i].request_id # None
      PROVE  \E q \in DOMAIN log' :
               /\ FirstRequestAt(q)'
               /\ log'[q].request_id = chat'[i].request_id
               /\ log'[q].channel_id = chat'[i].channel_id
               /\ Running' => q < next_seq'
               /\ phase' = "scan" => q <= snapshot'
  <2>1. PICK q \in DOMAIN log :
               /\ FirstRequestAt(q)
               /\ log[q].request_id = chat'[i].request_id
               /\ log[q].channel_id = chat'[i].channel_id
               /\ Running => q < next_seq
               /\ phase = "scan" => q <= snapshot
    BY <1>4, <1>5
  <2>2. /\ Running' => q < next_seq'
        /\ phase' = "scan" => q <= snapshot'
    BY <1>1, <2>1, ReadKept
  <2> QED
    BY <1>3, <2>1, <2>2
<1>6. ASSUME NEW i \in DOMAIN chat', NEW j \in DOMAIN chat',
             chat'[i].request_id # None,
             chat'[i].request_id = chat'[j].request_id
      PROVE  i = j
  <2>1. CASE i \in DOMAIN chat /\ j \in DOMAIN chat
    BY <1>2, <1>6, <2>1 DEF SentAfterReading
  <2>2. CASE i \notin DOMAIN chat /\ j \notin DOMAIN chat
    BY <1>2, <2>2
  <2>3. CASE i \notin DOMAIN chat /\ j \in DOMAIN chat
    BY <1>2, <1>6, <2>3 DEF Posted
  <2>4. CASE i \in DOMAIN chat /\ j \notin DOMAIN chat
    BY <1>2, <1>6, <2>4 DEF Posted
  <2> QED
    BY <2>1, <2>2, <2>3, <2>4
<1> QED
  BY <1>5, <1>6 DEF SentAfterReading

LEMMA NamedNext ==
    ASSUME AnswerInv, ResultsNameMessages, [Next]_vars
    PROVE  ResultsNameMessages'
<1>1. TypeInv /\ TypeInv'
  BY TypeInvNext DEF AnswerInv
<1>2. \A r, i : SentFor(r, i) => SentFor(r, i)'
  BY <1>1, ChatKept DEF SentFor
<1>3. ASSUME phase' = "result" PROVE SentFor(task.request_id, message_id)'
  <2>1. CASE SendMessage
    <3>1. \E i \in DOMAIN chat' : chat'[i].request_id = task.request_id
      BY <1>1, <2>1, AcceptSendType DEF SendMessage
    <3> QED
      BY <2>1, <3>1 DEF SendMessage, SentFor
  <2>2. CASE ~SendMessage
    <3>1. phase = "result" /\ UNCHANGED <<task, message_id>>
      BY <1>3, <2>2
      DEF Next, Environment, WorkerStep, Stream, FaultStep, CallerPublishes,
          UserPosts, Start, ScanMessage, ScanConflict, StartPullers, Poll,
          IngestMessage, IngestConflict, EndIngest, TakeTask,
          TakeUnmappedTask, SendRefused, TakeEvent, TakeUnmappedEvent, NothingToDo,
          PublishResult, PublishRecord, CollectMessage, CollectAgain,
          CollectNothing, Crash, SendUnanswered, PublishResultUnknown,
          PublishRecordUnknown, ExitWorker, vars, worker
    <3> QED
      BY <1>2, <3>1 DEF ResultsNameMessages
  <2> QED
    BY <2>1, <2>2
<1>4. ASSUME NEW i \in DOMAIN log', ResultAt(i)'
      PROVE  /\ log'[i].status = "SUCCESS"
             /\ SentFor(log[i].request_id, log[i].provider_message_id)'
  <2>1. CASE i \in DOMAIN log
    <3>1. ResultAt(i) /\ log'[i] = log[i]
      BY <1>1, <1>4, <2>1, LogKept
    <3>2. /\ log[i].status = "SUCCESS"
          /\ SentFor(log[i].request_id, log[i].provider_message_id)
      BY <2>1, <3>1 DEF ResultsNameMessages
    <3> QED
      BY <1>2, <3>1, <3>2 DEF SentFor
  <2>2. CASE i \notin DOMAIN log
    <3>1. Written(log'[i]) /\ log'[i].kind = "send.result"
          /\ log'[i].principal = Worker
      BY <1>1, <1>4, <2>2, LogKept DEF ResultAt
    <3>2. phase = "result" /\ log'[i] = ResultMessage
      BY <3>1, P2PAssumption DEF Written, RecordMessage
    <3>3. SentFor(task.request_id, message_id)
      BY <3>2 DEF ResultsNameMessages
    <3>4. /\ log'[i].status = "SUCCESS"
          /\ log'[i].request_id = task.request_id
          /\ log'[i].provider_message_id = message_id
      BY <3>2 DEF ResultMessage
    <3>5. message_id \in DOMAIN chat'
          /\ chat'[message_id].request_id = task.request_id
      BY <1>1, <3>3, ChatKept DEF SentFor
    <3> QED
      BY <3>4, <3>5 DEF SentFor
  <2> QED
    BY <2>1, <2>2
<1> QED
  BY <1>3, <1>4 DEF ResultsNameMessages

LEMMA RoleNext ==
    ASSUME AnswerInv, ReadInRole, [Next]_vars
    PROVE  ReadInRole'
<1>1. /\ TypeInv /\ Len(log) \in Nat /\ DOMAIN log = 1 .. Len(log)
      /\ next_seq \in Nat /\ next_seq >= 1 /\ next_seq <= Len(log) + 1
  BY LenProperties DEF AnswerInv, MemoryInv, ReadBounds, TypeInv, TypeOK
<1>2. \A i \in 1 .. next_seq - 1 : log'[i] = log[i]
  BY <1>1, LogKept
<1>3. CASE ScanMessage \/ IngestMessage
  <2>1. /\ next_seq' = next_seq + 1 /\ log' = log
        /\ ~RolesInvalid(log[next_seq])
    BY <1>3 DEF ScanMessage, IngestMessage, LiveConflicts
  <2> QED
    BY <1>1, <2>1 DEF ReadInRole
<1>4. CASE ~(ScanMessage \/ IngestMessage)
  <2>1. next_seq' = next_seq \/ next_seq' = 1
    BY <1>4
    DEF Next, Environment, WorkerStep, Stream, FaultStep, CallerPublishes,
        UserPosts, Start, ScanConflict, StartPullers, Poll, IngestConflict,
        EndIngest, TakeTask, TakeUnmappedTask, SendRefused, TakeEvent, TakeUnmappedEvent,
        NothingToDo, SendMessage, PublishResult, PublishRecord,
        CollectMessage, CollectAgain, CollectNothing, Crash, SendUnanswered,
        PublishResultUnknown, PublishRecordUnknown, ExitWorker, vars, worker
  <2> QED
    BY <1>1, <1>2, <2>1 DEF ReadInRole
<1> QED
  BY <1>3, <1>4

-----------------------------------------------------------------------------
(* The links.                                                              *)

UniqueResults ==
    \A i, j \in DOMAIN log :
        (ResultAt(i) /\ ResultAt(j) /\ log[i].request_id = log[j].request_id)
            => i = j

UniqueKeys ==
    \A i, j \in DOMAIN log :
        (ResultAt(i) /\ ResultAt(j) /\ KeyAt(i) = KeyAt(j)) => i = j

(* One result per request, ...                                             *)
LEMMA OneResult == AnswerInv => UniqueResults
<1> SUFFICES ASSUME AnswerInv, NEW i \in DOMAIN log, NEW j \in DOMAIN log,
                    ResultAt(i), ResultAt(j),
                    log[i].request_id = log[j].request_id
             PROVE  i = j
  BY DEF UniqueResults
<1>1. /\ log \in Seq(Message) /\ LogInv
  BY DEF AnswerInv, TypeInv, TypeOK
<1>2. i \in Nat /\ j \in Nat
  BY <1>1, LenProperties
<1>3. log[i].prev_seq = log[j].prev_seq
  BY <1>1, FirstRequestUnique DEF LogInv, ResultsAnswerFirst
<1>4. log[i].prev_seq \in Nat
  BY <1>1, LenProperties
  DEF LogInv, ResultsAnswerFirst, FirstRequestAt, RequestAt
<1>5. ~(i < j) /\ ~(j < i)
  BY <1>1, <1>3, <1>4 DEF LogInv, ResultsInRequestOrder
<1> QED
  BY <1>2, <1>5

(* ... hence one per message the bot sent.                                 *)
LEMMA OneKey == AnswerInv /\ ResultsNameMessages => UniqueKeys
<1> SUFFICES ASSUME AnswerInv, ResultsNameMessages,
                    NEW i \in DOMAIN log, NEW j \in DOMAIN log,
                    ResultAt(i), ResultAt(j), KeyAt(i) = KeyAt(j)
             PROVE  i = j
  BY DEF UniqueKeys
<1>1. log[i].provider_message_id = log[j].provider_message_id
  BY DEF KeyAt
<1>2. log[i].request_id = log[j].request_id
  BY <1>1 DEF ResultsNameMessages, SentFor
<1> QED
  BY <1>2, OneResult DEF UniqueResults

LEMMA ResultKey ==
    ASSUME TypeInv, ResultsNameMessages, NEW i \in DOMAIN log, ResultAt(i)
    PROVE  /\ log[i] \in SendResult /\ KeyAt(i) \in InboundKey
           /\ log[i].provider_message_id # 0
<1>1. log[i] \in SendResult
  BY MessageKinds, ElementOfSeq DEF TypeInv, TypeOK, ResultAt
<1>2. log[i].provider_message_id \in MessageIds
  BY DEF ResultsNameMessages, SentFor, TypeInv, TypeOK
<1> QED
  BY <1>1, <1>2, RuntimeAssumption DEF KeyAt, SendResult, InboundKey

ResultKeys == \A i \in DOMAIN log : ResultAt(i) => KeyAt(i) \in InboundKey

LEMMA ResultKeysTyped == TypeInv /\ ResultsNameMessages => ResultKeys
BY ResultKey DEF ResultKeys

Exits == Crash \/ SendUnanswered \/ PublishResultUnknown
         \/ PublishRecordUnknown \/ ScanConflict \/ IngestConflict
         \/ TakeUnmappedTask \/ SendRefused \/ TakeUnmappedEvent

ScanResult == ScanMessage /\ log[next_seq].kind = "send.result"

(* Every other step learns of no result.                                   *)
LEMMA KnownKept ==
    ASSUME TypeInv, ReadBounds, [Next]_vars, ~Exits, ~ScanResult,
           ~PublishResult, NEW i \in DOMAIN log', KnownResult(i)'
    PROVE  i \in DOMAIN log /\ KnownResult(i)
<1>1. /\ Len(log) \in Nat /\ next_seq \in Nat /\ snapshot \in Nat
      /\ DOMAIN log = 1 .. Len(log) /\ next_seq >= 1
  BY LenProperties DEF TypeInv, TypeOK
<1>2. \A j \in DOMAIN log : ResultAt(j)' <=> ResultAt(j)
  BY LogKept
<1>3. CASE ScanMessage \/ IngestMessage
  <2>1. log' = log /\ (Running' <=> Running) /\ next_seq' = next_seq + 1
        /\ (Running \/ ~ResultAt(next_seq))
    BY <1>3 DEF ScanMessage, IngestMessage, Running, ScanResult, ResultAt
  <2> QED
    BY <1>1, <1>2, <2>1 DEF KnownResult
<1>4. CASE StartPullers
  BY <1>1, <1>2, <1>4 DEF StartPullers, KnownResult, ReadBounds, Running
<1>5. CASE Start
  BY <1>1, <1>2, <1>5 DEF Start, KnownResult, ReadBounds, Running
<1>6. CASE \E m \in CallerMessages : CallerPublishes(m)
  <2>1. PICK m \in CallerMessages : CallerPublishes(m)
    BY <1>6
  <2>2. m \in Message /\ m.principal # Worker /\ log' = Append(log, m)
    BY <2>1, P2PAssumption DEF CallerPublishes
  <2>3. (Running' <=> Running) /\ next_seq' = next_seq
    BY <2>1 DEF CallerPublishes, worker, Running
  <2>4. /\ DOMAIN log' = 1 .. Len(log) + 1 /\ log'[Len(log) + 1] = m
    BY <2>2, AppendKeeps DEF TypeInv, TypeOK
  <2>5. i \in DOMAIN log
    BY <1>1, <2>2, <2>4 DEF KnownResult, ResultAt
  <2> QED
    BY <1>2, <2>3, <2>5 DEF KnownResult
<1>7. CASE PublishRecord
  <2>1. RecordMessage \in Message /\ log' = Append(log, RecordMessage)
        /\ Running /\ RecordMessage.kind = "sync.record"
    BY <1>7, RecordMessageType
    DEF PublishRecord, Message, Running, RecordMessage
  <2>2. /\ DOMAIN log' = 1 .. Len(log) + 1
        /\ log'[Len(log) + 1] = RecordMessage
    BY <2>1, AppendKeeps DEF TypeInv, TypeOK
  <2>3. i \in DOMAIN log
    BY <1>1, <2>1, <2>2 DEF KnownResult, ResultAt
  <2> QED
    BY <1>2, <2>1, <2>3 DEF KnownResult
<1>8. CASE \/ Poll \/ EndIngest \/ CollectNothing \/ TakeTask \/ TakeEvent
           \/ NothingToDo \/ SendMessage \/ UNCHANGED vars
           \/ \E c \in Channels : CollectMessage(c) \/ CollectAgain(c)
           \/ \E c \in Channels, user \in Principals : UserPosts(c, user)
  <2>1. log' = log /\ (Running' <=> Running) /\ next_seq' = next_seq
    BY <1>8 DEF Poll, EndIngest, CollectNothing, TakeTask, TakeEvent,
       NothingToDo, SendMessage, CollectMessage, CollectAgain, UserPosts,
       vars, worker, Running
  <2> QED
    BY <1>2, <2>1 DEF KnownResult
<1> QED
  BY <1>3, <1>4, <1>5, <1>6, <1>7, <1>8
  DEF Next, Environment, WorkerStep, Stream, FaultStep, Exits

LEMMA LinksSame ==
    ASSUME [Next]_vars, ~Exits, ~ScanResult, ~PublishResult
    PROVE  UNCHANGED send_result_by_provider_message
<1>1. CASE ScanMessage
  BY <1>1 DEF ScanMessage, ScanResult, ReplayMessage, AddSendRequest,
              AddSyncRecord, MarkSyncRecord
<1>2. CASE IngestMessage
  BY <1>2 DEF IngestMessage, AddSendRequest, runtime
<1>3. CASE TakeTask \/ TakeEvent \/ NothingToDo \/ PublishRecord
  BY <1>3 DEF TakeTask, TakeEvent, NothingToDo, PublishRecord,
              NextPendingTask, NoPendingTask, MarkSyncRecord, runtime
<1>4. CASE ~(ScanMessage \/ IngestMessage \/ TakeTask \/ TakeEvent
               \/ NothingToDo \/ PublishRecord)
  BY <1>4
  DEF Next, Environment, WorkerStep, Stream, FaultStep, Exits,
      CallerPublishes, UserPosts, Start, StartPullers, Poll, EndIngest,
      SendMessage, CollectMessage, CollectAgain, CollectNothing, vars, runtime
<1> QED
  BY <1>1, <1>2, <1>3, <1>4

LEMMA ExitStep ==
    ASSUME Exits
    PROVE  ExitWorker
BY DEF Exits, Crash, SendUnanswered, PublishResultUnknown,
       PublishRecordUnknown, ScanConflict, IngestConflict, TakeUnmappedTask, SendRefused,
       TakeUnmappedEvent

LEMMA LinksNext ==
    ASSUME AnswerInv, ResultsNameMessages, LinksAreResults, [Next]_vars
    PROVE  LinksAreResults'
<1> DEFINE links == send_result_by_provider_message
<1>1. /\ TypeInv /\ TypeInv' /\ AnswerInv' /\ ResultsNameMessages'
  BY AnswerInvNext, NamedNext DEF AnswerInv
<1>2. /\ links \in [InboundKey -> Nat] /\ ReadBounds
      /\ DOMAIN log = 1 .. Len(log) /\ Len(log) \in Nat
      /\ next_seq \in Nat /\ next_seq >= 1
  BY LenProperties DEF AnswerInv, MemoryInv, TypeInv, TypeOK, RuntimeTypeOK
<1>3. /\ \A i \in DOMAIN log : i \in DOMAIN log' /\ log'[i] = log[i]
           /\ (ResultAt(i)' <=> ResultAt(i)) /\ (KeyAt(i)' = KeyAt(i))
  BY <1>1, LogKept DEF KeyAt
<1>4. UniqueKeys /\ UniqueKeys'
  <2>1. AnswerInv' /\ ResultsNameMessages' => UniqueKeys'
    BY OneKey, PTL
  <2> QED
    BY <1>1, <2>1, OneKey
<1>5. CASE Exits
  <2>1. /\ links' = [k \in InboundKey |-> 0] /\ phase' = "down"
        /\ next_seq' = 1
    BY <1>5, ExitStep DEF ExitWorker, RuntimeLost
  <2>2. \A i \in DOMAIN log' : ~KnownResult(i)'
    <3>1. \A i \in DOMAIN log' : ~(i < 1)
      BY <1>1, LenProperties DEF TypeInv, TypeOK
    <3> QED
      BY <2>1, <3>1 DEF KnownResult, Running
  <2> QED
    BY <2>1, <2>2 DEF LinksAreResults
<1>6. CASE ~Exits /\ ~ScanResult /\ ~PublishResult
  <2>1. links' = links
    BY <1>6, LinksSame
  <2>2. \A i \in DOMAIN log' :
          KnownResult(i)' => i \in DOMAIN log /\ KnownResult(i)
    BY <1>1, <1>2, <1>6, KnownKept
  <2>3. \A k \in InboundKey : links[k] # 0 =>
          links[k] \in DOMAIN log /\ ResultAt(links[k]) /\ KeyAt(links[k]) = k
    BY DEF LinksAreResults, ResultAt
  <2>4. \A k \in InboundKey : links'[k] # 0 =>
          ResultAt(links[k])' /\ KeyAt(links[k])' = k
    <3> SUFFICES ASSUME NEW k \in InboundKey, NEW v, v = links'[k], v # 0
                 PROVE  ResultAt(v)' /\ KeyAt(v)' = k
      OBVIOUS
    <3> QED
      BY <1>3, <2>1, <2>3
  <2>5. \A i \in DOMAIN log' : KnownResult(i)' => links'[KeyAt(i)'] = i
    BY <1>3, <2>1, <2>2 DEF LinksAreResults
  <2> QED
    BY <2>4, <2>5 DEF LinksAreResults
<1>7. ASSUME NEW n \in Nat \ {0}, n \in DOMAIN log', ResultAt(n)',
             links' = [links EXCEPT ![KeyAt(n)'] = n],
             \A i \in DOMAIN log' : KnownResult(i)' =>
               (i \in DOMAIN log /\ KnownResult(i)) \/ i = n
      PROVE  LinksAreResults'
  <2>1. KeyAt(n)' \in InboundKey
    <3>1. TypeInv' /\ ResultsNameMessages' => ResultKeys'
      BY ResultKeysTyped, PTL
    <3> QED
      BY <1>1, <1>7, <3>1 DEF ResultKeys
  <2>2. links'[KeyAt(n)'] = n /\ \A k \in InboundKey :
          k # KeyAt(n)' => links'[k] = links[k]
    BY <1>2, <1>7, <2>1
  <2>3. \A k \in InboundKey : links[k] # 0 =>
          links[k] \in DOMAIN log /\ ResultAt(links[k]) /\ KeyAt(links[k]) = k
    BY DEF LinksAreResults, ResultAt
  <2>4. \A k \in InboundKey : links'[k] # 0 =>
          ResultAt(links[k])' /\ KeyAt(links[k])' = k
    <3> SUFFICES ASSUME NEW k \in InboundKey, NEW v, v = links'[k], v # 0
                 PROVE  ResultAt(v)' /\ KeyAt(v)' = k
      OBVIOUS
    <3>1. CASE k = KeyAt(n)'
      BY <1>7, <2>2, <3>1
    <3>2. CASE k # KeyAt(n)'
      BY <1>3, <2>2, <2>3, <3>2
    <3> QED
      BY <3>1, <3>2
  <2>5. \A i \in DOMAIN log' : KnownResult(i)' => links'[KeyAt(i)'] = i
    <3> SUFFICES ASSUME NEW i \in DOMAIN log', KnownResult(i)'
                 PROVE  links'[KeyAt(i)'] = i
      OBVIOUS
    <3>1. CASE i = n
      BY <2>2, <3>1
    <3>2. CASE i # n
      <4>1. i \in DOMAIN log /\ KnownResult(i)
        BY <1>7, <3>2
      <4>2. KeyAt(i)' # KeyAt(n)'
        BY <1>4, <1>7, <3>2 DEF UniqueKeys, KnownResult
      <4>3. KeyAt(i) \in InboundKey /\ KeyAt(i)' = KeyAt(i)
        BY <1>1, <1>3, <4>1, ResultKey DEF KnownResult
      <4> QED
        BY <2>2, <4>1, <4>2, <4>3 DEF LinksAreResults
    <3> QED
      BY <3>1, <3>2
  <2> QED
    BY <2>4, <2>5 DEF LinksAreResults
<1>8. CASE ScanResult
  <2> DEFINE n == next_seq
  <2>1. /\ phase = "scan" /\ n <= snapshot /\ ~RolesInvalid(log[n])
        /\ AddSendResult(n, log[n]) /\ n' = n + 1 /\ log' = log
        /\ phase' = "scan"
    BY <1>8 DEF ScanResult, ScanMessage, ReplayMessage
  <2>2. n \in DOMAIN log
    BY <1>1, <1>2, <2>1 DEF TypeInv, TypeOK, WorkInHand
  <2>3. ResultAt(n)
    BY <1>8, <2>1, <2>2 DEF ScanResult, RolesInvalid, ResultAt
  <2>4. /\ log[n] \in SendResult /\ log[n].provider_message_id # 0
        /\ log[n].status = "SUCCESS" /\ log[n].request_id \in RequestIds
    BY <1>1, <2>2, <2>3, ResultKey DEF ResultsNameMessages, SendResult
  <2>5. terminal_results_by_id[log[n].request_id] = None
    <3>1. ASSUME Completed(log[n].request_id) PROVE FALSE
      <4>1. PICK i \in DOMAIN log :
              KnownResult(i) /\ log[i].request_id = log[n].request_id
        BY <3>1 DEF Completed
      <4>2. i < n /\ ResultAt(i)
        BY <2>1, <4>1 DEF KnownResult, Running
      <4> QED
        BY <1>2, <2>2, <2>3, <4>1, <4>2, OneResult DEF UniqueResults
    <3> QED
      BY <2>4, <3>1 DEF AnswerInv, MemoryInv, CompletedAreAnswered
  <2>6. links' = [links EXCEPT ![KeyAt(n)] = n]
    BY <2>1, <2>4, <2>5 DEF AddSendResult, KeyAt
  <2>7. \A i \in DOMAIN log' : KnownResult(i)' =>
               (i \in DOMAIN log /\ KnownResult(i)) \/ i = n
    BY <1>2, <1>3, <2>1 DEF KnownResult, Running
  <2>8. PICK v : v = n
    OBVIOUS
  <2>9. /\ v \in Nat \ {0} /\ v \in DOMAIN log' /\ ResultAt(v)'
         /\ links' = [links EXCEPT ![KeyAt(v)'] = v]
    <3>1. KeyAt(v)' = KeyAt(n)
      BY <2>1, <2>8 DEF KeyAt
    <3>2. ResultAt(v)' /\ v \in DOMAIN log'
      BY <2>1, <2>2, <2>3, <2>8 DEF ResultAt
    <3> QED
      BY <1>2, <2>6, <2>8, <3>1, <3>2
  <2> QED
    BY <1>7, <2>7, <2>8, <2>9
<1>9. CASE PublishResult
  <2>1. PICK n : n = Len(log) + 1
    OBVIOUS
  <2>2. /\ phase = "result" /\ log' = Append(log, ResultMessage)
        /\ MarkSendResultSuccess(task, message_id, n) /\ phase' = "poll"
    BY <1>9, <2>1 DEF PublishResult
  <2>3. ResultMessage \in Message
    BY <1>1, <2>2, ResultMessageType DEF Message
  <2>4. /\ DOMAIN log' = 1 .. n /\ log'[n] = ResultMessage
    BY <1>1, <2>1, <2>2, <2>3, AppendKeeps DEF TypeInv, TypeOK
  <2>5. n \in Nat \ {0} /\ n \in DOMAIN log' /\ ResultAt(n)'
    BY <1>2, <2>1, <2>4 DEF ResultAt, ResultMessage
  <2>6. KeyAt(n)' = <<task.channel_id, message_id>>
    BY <2>4 DEF KeyAt, ResultMessage
  <2>7. links' = [links EXCEPT ![KeyAt(n)'] = n]
    BY <2>2, <2>6 DEF MarkSendResultSuccess
  <2>8. \A i \in DOMAIN log' : KnownResult(i)' =>
               (i \in DOMAIN log /\ KnownResult(i)) \/ i = n
    BY <1>2, <1>3, <2>1, <2>2, <2>4 DEF KnownResult, Running
  <2> QED
    BY <1>7, <2>5, <2>7, <2>8
<1> QED
  BY <1>5, <1>6, <1>8, <1>9

-----------------------------------------------------------------------------
(* ChatInv is inductive.                                                   *)

LEMMA ChatInvInit == Init => ChatInv
<1> SUFFICES ASSUME Init PROVE ChatInv
  OBVIOUS
<1>1. AnswerInv
  BY AnswerInvInit
<1>2. /\ phase = "down" /\ log = <<>> /\ chat = <<>> /\ next_seq = 1
      /\ send_result_by_provider_message = [k \in InboundKey |-> 0]
  BY DEF Init, RuntimeInit
<1>3. SentAfterReading /\ ResultsNameMessages
  BY <1>2 DEF SentAfterReading, ResultsNameMessages
<1>4. LinksAreResults /\ ReadInRole
  BY <1>2 DEF LinksAreResults, ReadInRole
<1> QED
  BY <1>1, <1>3, <1>4 DEF ChatInv

LEMMA ChatInvNext == ChatInv /\ [Next]_vars => ChatInv'
<1> SUFFICES ASSUME ChatInv, [Next]_vars PROVE ChatInv'
  OBVIOUS
<1>1. AnswerInv /\ TypeInv
  BY DEF ChatInv, AnswerInv
<1>2. AnswerInv'
  BY <1>1, AnswerInvNext
<1>3. SentAfterReading' /\ ResultsNameMessages' /\ LinksAreResults'
  BY <1>1, SentNext, NamedNext, LinksNext DEF ChatInv
<1>4. ReadInRole'
  BY <1>1, RoleNext DEF ChatInv
<1> QED
  BY <1>2, <1>3, <1>4 DEF ChatInv

(* However often sends are resumed, a result names the first request of its *)
(* id, its channel and author, and the one message sent for it.             *)
THEOREM ResultsNameRequests == Spec => []ResultsNameTheirRequest
<1>1. ChatInv => ResultsNameTheirRequest
  <2> SUFFICES ASSUME ChatInv, NEW i \in DOMAIN log, ResultAt(i),
                      NEW q, q = log[i].prev_seq,
                      NEW p, p = log[i].provider_message_id
               PROVE  /\ q < i /\ FirstRequestAt(q)
                      /\ log[q].request_id = log[i].request_id
                      /\ log[q].channel_id = log[i].channel_id
                      /\ log[i].recipients = {log[q].principal}
                      /\ SentFor(log[q].request_id, p)
                      /\ chat[p].channel_id = log[i].channel_id
    BY DEF ResultsNameTheirRequest
  <2>1. AnswerInv /\ TypeInv /\ log \in Seq(Message)
    BY DEF ChatInv, AnswerInv, TypeInv, TypeOK
  <2>2. /\ q < i /\ FirstRequestAt(q)
        /\ log[q].request_id = log[i].request_id
        /\ log[q].channel_id = log[i].channel_id
        /\ log[i].recipients = {log[q].principal}
    BY <2>1 DEF AnswerInv, LogInv, ResultsAnswerFirst
  <2>3. SentFor(log[q].request_id, p)
    BY <2>2 DEF ChatInv, ResultsNameMessages
  <2>4. log[q].request_id # None
    BY <2>1, <2>2, RuntimeAssumption, MessageKinds, ElementOfSeq
    DEF FirstRequestAt, RequestAt, SendRequest
  <2>5. PICK f \in DOMAIN log : /\ FirstRequestAt(f)
                                /\ log[f].request_id = chat[p].request_id
                                /\ log[f].channel_id = chat[p].channel_id
    BY <2>3, <2>4 DEF ChatInv, SentAfterReading, SentFor
  <2>6. f = q
    BY <2>1, <2>2, <2>3, <2>5, FirstRequestUnique DEF SentFor
  <2> QED
    BY <2>2, <2>3, <2>5, <2>6
<1> QED
  BY ChatInvInit, ChatInvNext, <1>1, PTL DEF Spec

(* An ingested request stays queued or in hand until it has its result.     *)
THEOREM RequestsAreKept == Spec => []RequestsKept
<1>1. AnswerInv => RequestsKept
  <2> SUFFICES ASSUME AnswerInv, Running PROVE RequestsKept
    BY DEF RequestsKept
  <2>1. /\ log \in Seq(Message) /\ RuntimeTypeOK
        /\ CanonicalIsFirst /\ CompletedAreAnswered
        /\ PendingIsUnanswered /\ TaskIsOldest
    BY DEF AnswerInv, TypeInv, TypeOK, MemoryInv
  <2>2. ASSUME NEW i \in 1 .. next_seq - 1, FirstRequestAt(i),
               ~Answered(log[i].request_id)
        PROVE  /\ requests_by_id[log[i].request_id] # None
               /\ \/ <<i, log[i].request_id>> \in pending_heap
                  \/ task # None /\ task.seq = i
    <3> DEFINE r == log[i].request_id
    <3>1. r \in RequestIds
      BY <2>1, <2>2, MessageKinds, ElementOfSeq
      DEF FirstRequestAt, RequestAt, SendRequest
    <3>2. canonical_requests_by_id[r] # None
      BY <2>1, <2>2 DEF CanonicalIsFirst, FirstRequestAt
    <3>3. canonical_requests_by_id[r].seq = i
      BY <2>1, <2>2, <3>1, <3>2, FirstRequestUnique DEF CanonicalIsFirst
    <3>4. r \notin completed_request_ids
      BY <2>1, <2>2, <3>1
      DEF CompletedAreAnswered, Completed, KnownResult, Answered
    <3>5. requests_by_id[r] = canonical_requests_by_id[r]
      BY <2>1, <3>1, <3>4 DEF PendingIsUnanswered
    <3>6. \/ <<requests_by_id[r].seq, r>> \in pending_heap
          \/ Busy /\ task.request_id = r
      BY <2>1, <3>1, <3>2, <3>5 DEF PendingIsUnanswered
    <3>7. Busy => task # None /\ requests_by_id[task.request_id] = task
      BY <2>1 DEF TaskIsOldest
    <3> QED
      BY <3>2, <3>3, <3>5, <3>6, <3>7
  <2>3. ASSUME NEW c \in Channels, blocked_by_channel[c] # None
        PROVE  task # None /\ task.request_id = blocked_by_channel[c]
    BY <2>1, <2>3 DEF TaskIsOldest
  <2> QED
    BY <2>2, <2>3 DEF RequestsKept
<1> QED
  BY AnswerInvInit, AnswerInvNext, <1>1, PTL DEF Spec

(* A worker that has read a conflict or a message in a role its author does *)
(* not have sends, answers and records nothing, in any run.                 *)
THEOREM ConflictsStop == Spec => []ConflictsStopWork
<1>1. ChatInv => ConflictsStopWork
  <2> SUFFICES ASSUME ChatInv, NEW i \in 1 .. next_seq - 1
               PROVE  /\ ~RolesInvalid(log[i])
                      /\ \A j \in 1 .. i - 1 :
                           (RequestAt(i) /\ RequestAt(j)
                              /\ log[i].request_id = log[j].request_id)
                           => log[i] = log[j]
    BY DEF ConflictsStopWork, Compliant
  <2>1. /\ log \in Seq(Message) /\ CanonicalIsFirst /\ next_seq \in Nat
    BY DEF ChatInv, AnswerInv, MemoryInv, TypeInv, TypeOK
  <2>2. ASSUME NEW j \in 1 .. i - 1, RequestAt(i), RequestAt(j),
               log[i].request_id = log[j].request_id
        PROVE  log[i] = log[j]
    <3>1. j \in 1 .. next_seq - 1
      BY <2>1
    <3>2. log[i] \in SendRequest /\ log[j] \in SendRequest
      BY <2>1, <2>2, MessageKinds, ElementOfSeq DEF RequestAt
    <3>3. /\ log[i].channel_id = log[j].channel_id
          /\ log[i].principal = log[j].principal
          /\ log[i].content = log[j].content
      BY <2>1, <2>2, <3>1 DEF CanonicalIsFirst, SameSendRequest, TaskOf
    <3> QED
      BY <2>2, <3>2, <3>3 DEF SendRequest
  <2> QED
    BY <2>2 DEF ChatInv, ReadInRole
<1> QED
  BY ChatInvInit, ChatInvNext, <1>1, PTL DEF Spec

=============================================================================
