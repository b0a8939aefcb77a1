--------------------------- MODULE LarkEventStream ---------------------------
(***************************************************************************)
(* The event stream of the adapter (lark_event_stream.py): a daemon thread  *)
(* runs the client of the Lark SDK, whose callbacks tell of reconnections   *)
(* and deliver messages, and the worker asks for errors and for the number  *)
(* of reconnections.  The client itself is a library.                      *)
(***************************************************************************)
EXTENDS Naturals

CONSTANT MaxReconnects    \* BOUND on reconnections
ASSUME StreamAssumption == MaxReconnects \in Nat

VARIABLES
    conn,               \* the thread's client; "none" or "down": no thread
    stopping, error,    \* _stopping is set; _error is set
    disconnected_at,    \* None is "never"; "recent", or "overdue"
    generation,         \* _reconnect_generation
    missed              \* how messages got lost that no history query covers

stream == <<conn, stopping, error, disconnected_at, generation, missed>>

StreamTypeOK ==
    /\ conn \in {"none", "connecting", "open", "lost", "down"}
    /\ {stopping, error} \subseteq BOOLEAN
    /\ disconnected_at \in {"never", "recent", "overdue"}
    /\ generation \in 0 .. MaxReconnects
    /\ missed \subseteq {"while lost", "refused"}

StreamInit ==
    /\ conn = "none" /\ stopping = FALSE /\ error = FALSE
    /\ disconnected_at = "never" /\ generation = 0 /\ missed = {}

Alive == conn \in {"connecting", "open", "lost"}

(* error(); an adapter without a stream has none.                          *)
StreamError == error \/ disconnected_at = "overdue"

-----------------------------------------------------------------------------
(* start, and its ways to end.                                             *)

StartThread ==
    /\ conn' = "connecting"
    /\ UNCHANGED <<stopping, error, disconnected_at, generation, missed>>

Stopped == /\ stopping' = TRUE
           /\ UNCHANGED <<conn, error, disconnected_at, generation, missed>>

-----------------------------------------------------------------------------
(* The thread and the callbacks.                                           *)

Connect ==
    /\ conn = "connecting" /\ conn' = "open"
    /\ UNCHANGED <<stopping, error, disconnected_at, generation, missed>>

(* The connection, or the first attempt to connect, fails.                 *)
OnReconnecting ==
    /\ generation < MaxReconnects
    /\ \/ conn = "open" /\ conn' = "lost"
       \/ conn = "connecting" /\ UNCHANGED conn
    /\ disconnected_at' = IF disconnected_at = "never" THEN "recent"
                          ELSE disconnected_at
    /\ UNCHANGED <<stopping, error, generation, missed>>

(* Mutant: the reconnection is not counted.                                *)
OnReconnectedUncounted ==
    /\ Alive /\ disconnected_at # "never"
    /\ conn' = "open" /\ disconnected_at' = "never"
    /\ missed' = missed \cup (IF conn = "lost" THEN {"while lost"} ELSE {})
    /\ UNCHANGED <<stopping, error, generation>>

OnReconnected ==
    /\ Alive /\ disconnected_at # "never"
    /\ conn' = "open" /\ disconnected_at' = "never"
    /\ generation' = generation + 1
    /\ missed' = missed \cup (IF conn = "lost" THEN {"while lost"} ELSE {})
    /\ UNCHANGED <<stopping, error>>

(* reconnect_timeout_seconds pass.                                         *)
ReconnectTimeout ==
    /\ disconnected_at = "recent" /\ disconnected_at' = "overdue"
    /\ UNCHANGED <<conn, stopping, error, generation, missed>>

(* _dispatch_message when the adapter raises: the message is malformed, or  *)
(* the queue is full.                                                      *)
DispatchRaises ==
    /\ conn = "open"
    /\ error' = TRUE /\ missed' = missed \cup {"refused"}
    /\ UNCHANGED <<conn, stopping, disconnected_at, generation>>

(* _run: the client returns or raises.                                     *)
ClientEnds ==
    /\ Alive
    /\ conn' = "down" /\ error' = (error \/ ~stopping)
    /\ UNCHANGED <<stopping, disconnected_at, generation, missed>>

StreamStep == Connect \/ OnReconnecting \/ OnReconnected \/ ReconnectTimeout
              \/ DispatchRaises \/ ClientEnds

=============================================================================
