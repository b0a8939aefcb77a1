------------------------------ MODULE ImPublish ------------------------------
(***************************************************************************)
(* One publish of the worker: ImProtocolClient._publish (im_sdk/client.py)  *)
(* with its reconciliation of an uncertain answer, repeated by              *)
(* _publish_with_retry and, for a sync.record, repeated with a degraded     *)
(* payload by _publish_provider_event (loop.py).  Other clients write to    *)
(* the log meanwhile, every call may fail, and a shutdown may be requested. *)
(***************************************************************************)
EXTENDS Naturals, Sequences

CONSTANTS
    MaxAttempts,       \* retry.publish_max_attempts
    PageLimit,         \* limit of a Fetch
    MaxOthers          \* BOUND on messages of other clients

VARIABLES
    too_large,             \* the forms OpenEvent rejects as too large
    late_commits,          \* may a call that failed still be committed later?
    log,                   \* OpenEvent: the committed payloads
    late,                  \* calls given up by the client, still in the server
    kind,                  \* "send.result" or "sync.record"
    payload,               \* the form being published
    attempt,
    pc,                    \* the call the worker is about to make
    pre_publish_max_seq, reconcile_max_seq, from_seq,
    status_code,           \* of the PublishAutoSeq being reconciled
    outcome, seq,          \* the answer to the caller
    stop_requested         \* _stop_event

deployment == <<too_large, late_commits>>
vars == <<deployment, log, late, kind, payload, attempt, pc,
          pre_publish_max_seq, reconcile_max_seq, from_seq, status_code, outcome, seq,
          stop_requested>>
caller == <<kind, outcome, seq, stop_requested>>

Forms == {"full", "degraded"}
Transient == {"UNAVAILABLE", "DEADLINE_EXCEEDED"}
GuaranteedNotCommitted ==
    {"UNAUTHENTICATED", "PERMISSION_DENIED", "NOT_FOUND", "INVALID_ARGUMENT",
     "RESOURCE_EXHAUSTED"}
Codes == Transient \cup GuaranteedNotCommitted \cup {"INTERNAL"}

ASSUME ImPublishAssumption ==
    /\ MaxAttempts \in Nat \ {0} /\ PageLimit \in Nat \ {0}
    /\ MaxOthers \in Nat

TypeOK ==
    /\ too_large \subseteq Forms /\ late_commits \in BOOLEAN
    /\ log \in Seq(Forms \cup {"other"})
    /\ late \subseteq (1 .. MaxAttempts) \X Forms
    /\ kind \in {"send.result", "sync.record"}
    /\ payload \in Forms
    /\ attempt \in 1 .. MaxAttempts
    /\ pc \in {"status", "publish", "reconcile", "fetch", "wait", "done"}
    /\ pre_publish_max_seq \in Nat /\ reconcile_max_seq \in Nat
    /\ from_seq \in Nat /\ status_code \in Codes \cup {"OK"}
    /\ outcome \in {"pending", "published", "failed", "stopped"}
    /\ seq \in 0 .. Len(log) /\ stop_requested \in BOOLEAN
    /\ pc = "done" <=> outcome # "pending"

(* The degraded form is shorter: it is too large only if the full one is.   *)
Init ==
    /\ too_large \in {{}, {"full"}, Forms} /\ late_commits \in BOOLEAN
    /\ log = <<>> /\ late = {}
    /\ kind \in {"send.result", "sync.record"}
    /\ payload = "full" /\ attempt = 1 /\ pc = "status"
    /\ pre_publish_max_seq = 0 /\ reconcile_max_seq = 0 /\ from_seq = 0
    /\ status_code = "OK" /\ outcome = "pending" /\ seq = 0
    /\ stop_requested = FALSE

-----------------------------------------------------------------------------
(* What _publish_with_retry and its caller make of an exception.           *)

(* Mutants: an attempt too many; an attempt is repeated without knowing its *)
(* outcome.                                                                *)
RetriesOnceMore(code, retry_safe) ==
    code \in Transient /\ retry_safe /\ attempt <= MaxAttempts

RetriesUnknown(code, retry_safe) ==
    code \in Transient /\ attempt < MaxAttempts

Retries(code, retry_safe) ==
    code \in Transient /\ retry_safe /\ attempt < MaxAttempts

Degrades(code) ==
    code = "RESOURCE_EXHAUSTED" /\ kind = "sync.record" /\ payload = "full"

Failed(code, retry_safe) ==
    \/ /\ Degrades(code)
       /\ payload' = "degraded" /\ attempt' = 1 /\ pc' = "status"
       /\ UNCHANGED outcome
    \/ /\ Retries(code, retry_safe)
       /\ pc' = "wait"
       /\ UNCHANGED <<payload, attempt, outcome>>
    \/ /\ ~Degrades(code) /\ ~Retries(code, retry_safe)
       /\ outcome' = "failed" /\ pc' = "done"
       /\ UNCHANGED <<payload, attempt>>

Published(s) == outcome' = "published" /\ seq' = s /\ pc' = "done"

(* Mutant: attempts are not counted.                                       *)
WaitEndsUncounted ==
    /\ pc = "wait"
    /\ \/ /\ stop_requested
          /\ outcome' = "stopped" /\ pc' = "done"
       \/ /\ ~stop_requested
          /\ pc' = "status"
          /\ UNCHANGED outcome
    /\ UNCHANGED <<log, late, kind, payload, attempt, pre_publish_max_seq,
                   reconcile_max_seq, from_seq, status_code, seq,
                   stop_requested>>

WaitEnds ==
    /\ pc = "wait"
    /\ \/ /\ stop_requested
          /\ outcome' = "stopped" /\ pc' = "done"
          /\ UNCHANGED attempt
       \/ /\ ~stop_requested
          /\ attempt' = attempt + 1 /\ pc' = "status"
          /\ UNCHANGED outcome
    /\ UNCHANGED <<log, late, kind, payload, pre_publish_max_seq,
                   reconcile_max_seq, from_seq, status_code, seq,
                   stop_requested>>

-----------------------------------------------------------------------------
(* _get_pre_publish_max_seq                                                *)
GetStatus ==
    /\ pc = "status"
    /\ pre_publish_max_seq' = Len(log)
    /\ pc' = "publish"
    /\ UNCHANGED <<log, late, payload, attempt, reconcile_max_seq, from_seq,
                   status_code, caller>>

StatusFails(code) ==
    /\ pc = "status"
    /\ Failed(code, TRUE)
    /\ UNCHANGED <<log, late, kind, pre_publish_max_seq, reconcile_max_seq,
                   from_seq, status_code, seq, stop_requested>>

(* PublishAutoSeq: committed and answered; refused; or uncertain, when the  *)
(* server may have committed it, or may still do so.                       *)
PublishAnswered ==
    /\ pc = "publish" /\ payload \notin too_large
    /\ log' = Append(log, payload)
    /\ Published(Len(log) + 1)
    /\ UNCHANGED <<late, kind, payload, attempt, pre_publish_max_seq,
                   reconcile_max_seq, from_seq, status_code, stop_requested>>

PublishRefused(code) ==
    /\ pc = "publish" /\ code \in GuaranteedNotCommitted
    /\ code = "RESOURCE_EXHAUSTED" => payload \in too_large
    /\ Failed(code, FALSE)
    /\ UNCHANGED <<log, late, kind, pre_publish_max_seq, reconcile_max_seq,
                   from_seq, status_code, seq, stop_requested>>

PublishUncertain(code) ==
    /\ pc = "publish" /\ code \notin GuaranteedNotCommitted
    /\ \/ payload \notin too_large /\ log' = Append(log, payload) /\ late' = late
       \/ log' = log /\ late' = late
       \/ /\ late_commits /\ payload \notin too_large
          /\ late' = late \cup {<<attempt, payload>>} /\ log' = log
    /\ status_code' = code
    /\ pc' = "reconcile"
    /\ UNCHANGED <<payload, attempt, pre_publish_max_seq, reconcile_max_seq,
                   from_seq, caller>>

-----------------------------------------------------------------------------
(* _reconcile_uncertain_publish: look for the message between the watermark *)
(* read before the call and one read after it.                             *)
Reconcile ==
    /\ pc = "reconcile"
    /\ reconcile_max_seq' = Len(log)
    /\ from_seq' = pre_publish_max_seq + 1
    /\ pc' = "fetch"
    /\ UNCHANGED <<log, late, payload, attempt, pre_publish_max_seq,
                   status_code, caller>>

(* Mutant: any message between the watermarks is taken for the publish.    *)
MatchesAny == {i \in DOMAIN log : i >= from_seq /\ i < from_seq + PageLimit
                                  /\ i <= reconcile_max_seq}

Page == {i \in DOMAIN log : i >= from_seq /\ i < from_seq + PageLimit}
Matches == {i \in Page : i <= reconcile_max_seq /\ log[i] = payload}

FetchMatch ==
    /\ pc = "fetch" /\ from_seq <= reconcile_max_seq
    /\ \E i \in Matches : /\ \A j \in Matches : i <= j
                          /\ Published(i)
    /\ UNCHANGED <<log, late, kind, payload, attempt, pre_publish_max_seq,
                   reconcile_max_seq, from_seq, status_code, stop_requested>>

FetchNext ==
    /\ pc = "fetch" /\ from_seq <= reconcile_max_seq /\ Matches = {}
    /\ from_seq' = from_seq + PageLimit
    /\ UNCHANGED <<log, late, payload, attempt, pc, pre_publish_max_seq,
                   reconcile_max_seq, status_code, caller>>

ProvedNotCommitted ==
    /\ pc = "fetch" /\ from_seq > reconcile_max_seq
    /\ Failed(status_code, TRUE)
    /\ UNCHANGED <<log, late, kind, pre_publish_max_seq, reconcile_max_seq,
                   from_seq, status_code, seq, stop_requested>>

OutcomeUnknown ==
    /\ pc = "reconcile" \/ (pc = "fetch" /\ from_seq <= reconcile_max_seq)
    /\ Failed(status_code, FALSE)
    /\ UNCHANGED <<log, late, kind, pre_publish_max_seq, reconcile_max_seq,
                   from_seq, status_code, seq, stop_requested>>

-----------------------------------------------------------------------------
OtherPublishes ==
    /\ Len(SelectSeq(log, LAMBDA p : p = "other")) < MaxOthers
    /\ log' = Append(log, "other")
    /\ UNCHANGED <<late, payload, attempt, pc, pre_publish_max_seq,
                   reconcile_max_seq, from_seq, status_code, caller>>

LateCommit ==
    \E call \in late :
       /\ late' = late \ {call}
       /\ log' = Append(log, call[2])
       /\ UNCHANGED <<payload, attempt, pc, pre_publish_max_seq,
                      reconcile_max_seq, from_seq, status_code, caller>>

RequestStop ==
    /\ ~stop_requested
    /\ stop_requested' = TRUE
    /\ UNCHANGED <<log, late, kind, payload, attempt, pc, pre_publish_max_seq,
                   reconcile_max_seq, from_seq, status_code, outcome, seq>>

Worker ==
    \/ GetStatus \/ PublishAnswered \/ Reconcile \/ FetchMatch \/ FetchNext
    \/ ProvedNotCommitted \/ OutcomeUnknown \/ WaitEnds
    \/ \E code \in Codes : \/ StatusFails(code) \/ PublishRefused(code)
                           \/ PublishUncertain(code)

Next == /\ Worker \/ OtherPublishes \/ LateCommit \/ RequestStop
        /\ UNCHANGED deployment

Spec == Init /\ [][Next]_vars /\ WF_vars(Worker /\ UNCHANGED deployment)

-----------------------------------------------------------------------------
(***************************************************************************)
(* Properties.                                                             *)
(***************************************************************************)
Copies == {i \in DOMAIN log : log[i] \in Forms}

(* While a call that was given up commits nothing later: uncertain answers, *)
(* retries and the degraded fallback together commit the message at most    *)
(* once, whatever other clients write between the watermarks; as            *)
(* AtomicPublish says, "published" names that copy and "stopped" means that *)
(* there is none.  Behaviours with late commits are mapped to no step.      *)
Atomic == INSTANCE AtomicPublish WITH
    log <- IF late_commits THEN <<>> ELSE log,
    outcome <- IF late_commits THEN "pending" ELSE outcome,
    seq <- IF late_commits THEN 0 ELSE seq
ImplementsAtomicPublish == Atomic!Spec

(* IM-PROTOCOL-SDK.md: retry_safe means known not to have committed, so a   *)
(* retried message is not written twice.                                    *)
PublishedOnce == \A i, j \in Copies : i = j

(* Even when a call that was given up may commit late, a position that is   *)
(* answered holds the form whose publish is being answered.                 *)
PublishedIsCommitted ==
    outcome = "published" => seq \in DOMAIN log /\ log[seq] = payload

(* Every publish ends, although other clients keep moving the end of the    *)
(* log: the reconciliation scans up to a fixed watermark.                   *)
PublishEnds == <>(outcome # "pending")

=============================================================================
