---------------------------- MODULE AtomicPublish ----------------------------
(***************************************************************************)
(* What a caller of _publish_with_retry may rely on, and what P2PSyncer     *)
(* assumes of a publish: the message is committed at most once; "published" *)
(* comes with its position; "stopped" means that it was not committed; and  *)
(* "failed" says nothing, so the worker must exit and read the log again.   *)
(***************************************************************************)
EXTENDS Naturals, Sequences

VARIABLES log, outcome, seq

Forms == {"full", "degraded"}
Committed == {i \in DOMAIN log : log[i] \in Forms}

Init == log = <<>> /\ outcome = "pending" /\ seq = 0

Commit ==
    /\ outcome = "pending" /\ Committed = {}
    /\ \E form \in Forms : log' = Append(log, form)
    /\ \/ UNCHANGED <<outcome, seq>>
       \/ outcome' = "published" /\ seq' = Len(log')

Learn ==
    /\ outcome = "pending"
    /\ \E i \in Committed : seq' = i
    /\ outcome' = "published"
    /\ UNCHANGED log

Stop ==
    /\ outcome = "pending" /\ Committed = {}
    /\ outcome' = "stopped"
    /\ UNCHANGED <<log, seq>>

Fail ==
    /\ outcome = "pending"
    /\ outcome' = "failed"
    /\ UNCHANGED <<log, seq>>

OtherPublishes == log' = Append(log, "other") /\ UNCHANGED <<outcome, seq>>

Next == Commit \/ Learn \/ Stop \/ Fail \/ OtherPublishes

Spec == Init /\ [][Next]_<<log, outcome, seq>>

=============================================================================
