------------------------- MODULE P2PSyncerRefinement ------------------------
(* P2PSyncer implements ChannelSync: the abstract state is read off the log  *)
(* and the chat alone, so it survives every exit of the worker.              *)
EXTENDS P2PSyncer

RequestOf(i) == [seq |-> i, channel_id |-> log[i].channel_id,
                 request_id |-> log[i].request_id]

requestsBar == {RequestOf(i) : i \in {j \in DOMAIN log : FirstRequestAt(j)}}

messagesBar == [i \in DOMAIN chat |-> [channel_id |-> chat[i].channel_id,
                                       request_id |-> chat[i].request_id]]

answersBar ==
    {RequestOf(log[i].prev_seq) : i \in {j \in DOMAIN log : ResultAt(j)}}

recordsBar ==
    {[message |-> log[i].provider_message_id,
      answers |-> IF log[i].prev_seq = 0 THEN None
                  ELSE log[log[i].prev_seq].request_id] :
        i \in {j \in DOMAIN log : RecordAt(j)}}

Abstract == INSTANCE ChannelSync
    WITH requests <- requestsBar, messages <- messagesBar,
         answers <- answersBar, records <- recordsBar

(* Every behaviour of the worker, with its exits, restarts, redeliveries    *)
(* and lost answers, is a behaviour of ChannelSync: exactly-once, oldest    *)
(* request first, echo recorded after its answer.                           *)
ImplementsChannelSync == Abstract!AbstractSpec

=============================================================================
