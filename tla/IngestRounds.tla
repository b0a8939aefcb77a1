---------------------------- MODULE IngestRounds ----------------------------
(***************************************************************************)
(* How a worker reads the OpenEvent log: in rounds.  A round fixes its end, *)
(* ingests every relevant message up to that end once and in order, and     *)
(* only then lets the worker act.  P2PSyncer assumes this of the scan and   *)
(* of the polling loop; LivePoll shows that pages and prefetching keep it.  *)
(***************************************************************************)
EXTENDS Naturals, Sequences

CONSTANTS None, Relevant(_)

VARIABLES log, ingested, round_end

Waiting == {i \in ingested + 1 .. round_end : Relevant(log[i])}

Init == log = <<>> /\ ingested = 0 /\ round_end = None

Begin ==
    /\ round_end = None
    /\ \E e \in ingested .. Len(log) : round_end' = e
    /\ UNCHANGED <<log, ingested>>

Ingest ==
    /\ round_end # None
    /\ \E i \in Waiting : (\A j \in Waiting : i <= j) /\ ingested' = i
    /\ UNCHANGED <<log, round_end>>

End ==
    /\ round_end # None /\ Waiting = {}
    /\ round_end' = None
    /\ UNCHANGED <<log, ingested>>

(* The worker ends, and another one starts over.                           *)
Exit ==
    /\ ingested' = 0 /\ round_end' = None
    /\ UNCHANGED log

Grow ==
    /\ Len(log') = Len(log) + 1
    /\ log' = Append(log, log'[Len(log')])
    /\ UNCHANGED <<ingested, round_end>>

Next == Begin \/ Ingest \/ End \/ Exit \/ Grow

Spec == Init /\ [][Next]_<<log, ingested, round_end>>

=============================================================================
