---------------------------- MODULE LarkMessages ----------------------------
(***************************************************************************)
(* How LarkOpenAPIAdapter turns what Lark reports of a chat message into a  *)
(* ProviderEvent.  A message reaches the worker through the pages of the    *)
(* message list and through the event stream, in two layouts; the adapter   *)
(* must make the same event of both.                                       *)
(*                                                                         *)
(* A layout is a record of the attributes the adapter reads; getattr of a   *)
(* missing one is Absent.  A raw content is a JSON text: of an object, of   *)
(* another value, no JSON, or Absent.                                      *)
(***************************************************************************)
EXTENDS Integers, ImCodec

CONSTANTS Malformed,   \* the adapter raises ProviderDataError
          Ignored      \* a message of a session that is not mapped

-----------------------------------------------------------------------------
(* The layouts, of a message [session, id, type, time, sender, sender_type, *)
(* content] of the chat.  The sender of an app's message is the app.       *)

HistoryItem(m) ==
    [chat_id |-> m.session, message_id |-> m.id, msg_type |-> m.type,
     create_time |-> m.time, content |-> m.content,
     sender |-> m.sender, sender_type |-> m.sender_type,
     id_type |-> IF m.sender_type = "app" THEN "app_id" ELSE "open_id"]

PushedMessage(m) ==
    [chat_id |-> m.session, message_id |-> m.id, message_type |-> m.type,
     create_time |-> m.time, content |-> m.content,
     open_id |-> IF m.sender_type = "app" THEN Absent ELSE m.sender,
     sender_type |-> m.sender_type]

-----------------------------------------------------------------------------
Truthy(v) == v \notin {Bad, Absent}

SenderIdentityType(sender_type) ==
    CASE sender_type \in {"app", "bot"} -> "bot"
      [] sender_type = "user" -> "user"
      [] OTHER -> Absent

ParseContentRaw(raw) ==
    [source_principal |-> /\ raw # Absent
                          /\ raw.form \in {"object", "value"}
                          /\ raw.source_principal,
     utf8 |-> raw = Absent \/ raw.utf8]

BuildProviderEvent(provider, session_id, id, type, time, sender, identity, raw) ==
    IF /\ Truthy(id) /\ Truthy(type) /\ Truthy(sender)
       /\ time \in Nat
    THEN [provider |-> provider, session_id |-> session_id,
          provider_message_id |-> id, msg_type |-> type, event_ms |-> time,
          sender_external_user_id |-> sender,
          sender_identity_type |-> identity,
          content_raw |-> ParseContentRaw(raw)]
    ELSE Malformed

(* fetch_history_page, for one item.                                       *)
MessageToEvent(provider, session_id, item) ==
    LET identity == SenderIdentityType(item.sender_type)
        id_type == IF identity = "user" THEN "open_id" ELSE "app_id"
    IN  IF \/ identity = Absent \/ item.chat_id # session_id
           \/ ~Truthy(item.sender) \/ item.id_type # id_type
        THEN Malformed
        ELSE BuildProviderEvent(provider, session_id, item.message_id,
               item.msg_type, item.create_time, item.sender, identity,
               item.content)

(* Mutant: an app's message is attributed to the id the event holds.       *)
EventMessageToEventByOpenId(provider, app_id, msg) ==
    LET identity == SenderIdentityType(msg.sender_type)
    IN  IF identity = Absent THEN Malformed
        ELSE BuildProviderEvent(provider, msg.chat_id, msg.message_id,
               msg.message_type, msg.create_time, msg.open_id, identity,
               msg.content)

EventMessageToEvent(provider, app_id, msg) ==
    LET identity == SenderIdentityType(msg.sender_type)
    IN  IF identity = Absent THEN Malformed
        ELSE BuildProviderEvent(provider, msg.chat_id, msg.message_id,
               msg.message_type, msg.create_time,
               IF identity = "user" THEN msg.open_id ELSE app_id, identity,
               msg.content)

(* _handle_message_event, up to the queue.                                 *)
HandleMessageEvent(provider, app_id, allowed_sessions, msg) ==
    IF ~Truthy(msg.chat_id) THEN Malformed
    ELSE IF msg.chat_id \notin allowed_sessions THEN Ignored
    ELSE EventMessageToEvent(provider, app_id, msg)

=============================================================================
