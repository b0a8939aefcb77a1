------------------------------ MODULE ImCodec ------------------------------
(***************************************************************************)
(* The im.v1 payloads of im_sdk: what codec.py encodes, what it accepts     *)
(* when it reads a payload back, and the checks of normalizer.py both use.  *)
(*                                                                         *)
(* A field holds Bad when it is of the wrong type or empty, and Absent when *)
(* it is left out.  A nested JSON object (content, content_raw) is reduced  *)
(* to two facts: whether it holds a key source_principal at any depth, and  *)
(* whether its strings can be written as UTF-8 (json.loads also returns     *)
(* lone surrogates, which cannot).                                         *)
(***************************************************************************)
EXTENDS Integers, Sequences

CONSTANTS Bad, Absent,
          UInt64Max   \* the largest uint64

-----------------------------------------------------------------------------
(* normalizer.py: the values each check lets pass.                         *)

UInt64(v) == v \in 0 .. UInt64Max
PositiveUInt64(v) == v \in 1 .. UInt64Max
TimestampMs(v) == v \in Nat
NonEmptyStr(v) == v \notin {Bad, Absent}
Object(v) == v \notin {Bad, Absent}

Recipients(list) == \A i \in DOMAIN list : UInt64(list[i])

RejectSourcePrincipal(payload) ==
    \/ payload.source_principal
    \/ Object(payload.data) /\ Object(payload.data.content)
       /\ payload.data.content.source_principal

-----------------------------------------------------------------------------
(* Encoding.  A payload has every field; those its kind has no use for are  *)
(* Absent.  An encoder raises when a field it requires is malformed or the  *)
(* text is no UTF-8: Encodes* says whether it returns.                     *)

Payload(kind, prev_seq, request_id, data, event_ms, ingested_ms) ==
    [kind |-> kind, source_principal |-> FALSE, prev_seq |-> prev_seq,
     request_id |-> request_id, data |-> data,
     timestamps |-> [event_ms |-> event_ms, ingested_ms |-> ingested_ms]]

Data(provider_message_id, msg_type, content, status) ==
    [provider_message_id |-> provider_message_id, msg_type |-> msg_type,
     content |-> content, status |-> status]

EncodesSendRequest(req) ==
    /\ NonEmptyStr(req.request_id) /\ NonEmptyStr(req.msg_type)
    /\ Object(req.content) /\ req.content.utf8
    /\ TimestampMs(req.event_ms)
    /\ req.prev_seq = Absent \/ UInt64(req.prev_seq)

EncodeSendRequest(req) ==
    Payload("send.request", req.prev_seq, req.request_id,
            Data(Absent, req.msg_type, req.content, Absent),
            req.event_ms, Absent)

EncodesSendResult(req) ==
    /\ NonEmptyStr(req.request_id) /\ UInt64(req.prev_seq)
    /\ req.status \in {"SUCCESS", "FAILED"}
    /\ TimestampMs(req.event_ms)
    /\ req.provider_message_id # Bad

EncodeSendResult(req) ==
    Payload("send.result", req.prev_seq, req.request_id,
            Data(req.provider_message_id, Absent, Absent, req.status),
            req.event_ms, Absent)

EncodesSyncRecord(req) ==
    /\ NonEmptyStr(req.provider_message_id) /\ NonEmptyStr(req.msg_type)
    /\ Object(req.content_raw) /\ req.content_raw.utf8
    /\ TimestampMs(req.event_ms) /\ TimestampMs(req.ingested_ms)
    /\ req.prev_seq = Absent \/ UInt64(req.prev_seq)

(* Mutant: the link is left out of the record.                             *)
EncodeSyncRecordUnlinked(req) ==
    Payload("sync.record", Absent, Absent,
            Data(req.provider_message_id, req.msg_type, req.content_raw, Absent),
            req.event_ms, req.ingested_ms)

EncodeSyncRecord(req) ==
    Payload("sync.record", req.prev_seq, Absent,
            Data(req.provider_message_id, req.msg_type, req.content_raw, Absent),
            req.event_ms, req.ingested_ms)

-----------------------------------------------------------------------------
(* parse_payload_object, and parse_message, which also checks the fields    *)
(* OpenEvent adds.  A payload that is no JSON object is Bad.               *)

ParsesPayload(p) ==
    /\ Object(p) /\ ~RejectSourcePrincipal(p)
    /\ p.kind \in {"sync.record", "send.request", "send.result"}
    /\ Object(p.data) /\ Object(p.timestamps)
    /\ TimestampMs(p.timestamps.event_ms)
    /\ p.prev_seq = Absent \/ UInt64(p.prev_seq)
    /\ p.kind = "sync.record" =>
         /\ TimestampMs(p.timestamps.ingested_ms)
         /\ NonEmptyStr(p.data.provider_message_id)
         /\ NonEmptyStr(p.data.msg_type) /\ Object(p.data.content)
    /\ p.kind # "sync.record" => NonEmptyStr(p.request_id)
    /\ p.kind = "send.request" =>
         NonEmptyStr(p.data.msg_type) /\ Object(p.data.content)
    /\ p.kind = "send.result" =>
         UInt64(p.prev_seq) /\ p.data.status \in {"SUCCESS", "FAILED"}

ParsesMessage(m) ==
    /\ ParsesPayload(m.payload)
    /\ PositiveUInt64(m.channel_id) /\ PositiveUInt64(m.principal)
    /\ Recipients(m.recipients)

=============================================================================
