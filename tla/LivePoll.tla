------------------------------ MODULE LivePoll ------------------------------
(***************************************************************************)
(* P2PSyncer._scan_history and ._poll_events (syncer.py): reading the log   *)
(* page by page.  A page may hold messages beyond the end of the round;     *)
(* they are kept for the next one.  The log grows between any two calls,    *)
(* calls fail, and another thread sets the stop event.                      *)
(*                                                                         *)
(* A log entry is TRUE when it is in a mapped channel: Fetch is asked for   *)
(* those only, but scans over the others.                                   *)
(***************************************************************************)
EXTENDS Naturals, SequencesExt, SortedSeqs

CONSTANTS
    None,
    MaxLog,       \* BOUND on the log
    MaxFailures   \* BOUND on failed calls

VARIABLES
    log,                  \* OpenEvent
    pc,                   \* "start", "scan", "live", "stopped" or "failed"
    stop_event,
    failures,             \* failed calls so far
    next_seq,             \* from_seq of the next Fetch
    current_messages,     \* fetched, and to be processed in this round
    snapshot_last_seq,    \* end of the round; scan_end_seq during the scan
    prefetched_messages, prefetched_last_seq,
    handled               \* the messages processed so far, in order

vars == <<log, pc, stop_event, failures, next_seq,
          current_messages, snapshot_last_seq, prefetched_messages,
          prefetched_last_seq, handled>>
environment == <<log, stop_event, failures>>
prefetched == <<prefetched_messages, prefetched_last_seq>>
reading == <<next_seq, current_messages, snapshot_last_seq, prefetched, handled>>

ASSUME LivePollAssumption ==
    MaxLog \in Nat /\ MaxFailures \in Nat /\ None \notin Nat

TypeOK ==
    /\ log \in Seq(BOOLEAN)
    /\ pc \in {"start", "scan", "live", "stopped", "failed"}
    /\ stop_event \in BOOLEAN /\ failures \in Nat
    /\ next_seq \in 1 .. Len(log) + 1
    /\ snapshot_last_seq \in 0 .. Len(log) \cup {None}
    /\ prefetched_last_seq \in 1 .. Len(log) \cup {None}
    /\ prefetched_last_seq = None <=> prefetched_messages = <<>>
    /\ \A s \in {current_messages, prefetched_messages, handled} :
         s \in Seq(DOMAIN log)

Init ==
    /\ log = <<>> /\ pc = "start" /\ stop_event = FALSE
    /\ failures = 0 /\ next_seq = 1
    /\ current_messages = <<>> /\ snapshot_last_seq = None
    /\ prefetched_messages = <<>> /\ prefetched_last_seq = None
    /\ handled = <<>>

Running == pc \in {"start", "scan", "live"}

-----------------------------------------------------------------------------
(* Fetch: the mapped messages from from_seq up to where the server stopped. *)

PageEnds == IF next_seq > Len(log) THEN {next_seq - 1} ELSE next_seq .. Len(log)

PageMessages(e, S) == Sorted({i \in next_seq .. e : log[i] /\ i \in S})

Process ==
    /\ Running /\ current_messages # <<>>
    /\ handled' = Append(handled, Head(current_messages))
    /\ current_messages' = Tail(current_messages)
    /\ UNCHANGED <<environment, pc, next_seq, snapshot_last_seq,
                   prefetched>>

-----------------------------------------------------------------------------
(* _scan_history                                                           *)

ReadStatus ==
    /\ pc = "start"
    /\ snapshot_last_seq' = Len(log)
    /\ pc' = "scan"
    /\ UNCHANGED <<environment, next_seq, current_messages,
                   prefetched, handled>>

ScanPage ==
    /\ pc = "scan" /\ current_messages = <<>>
    /\ next_seq <= snapshot_last_seq /\ ~stop_event
    /\ \E e \in PageEnds :
         /\ current_messages' = PageMessages(e, 1 .. snapshot_last_seq)
         /\ next_seq' = e + 1
    /\ UNCHANGED <<environment, pc, snapshot_last_seq, prefetched, handled>>

(* Mutant: the poll starts where the last page of the scan ended.          *)
ScanEndsAtPage ==
    /\ pc = "scan" /\ current_messages = <<>>
    /\ next_seq > snapshot_last_seq
    /\ snapshot_last_seq' = None
    /\ pc' = "live"
    /\ UNCHANGED <<environment, next_seq, current_messages,
                   prefetched, handled>>

ScanEnds ==
    /\ pc = "scan" /\ current_messages = <<>>
    /\ next_seq > snapshot_last_seq
    /\ next_seq' = snapshot_last_seq + 1
    /\ snapshot_last_seq' = None
    /\ pc' = "live"
    /\ UNCHANGED <<environment, current_messages, prefetched, handled>>

-----------------------------------------------------------------------------
(* _poll_events                                                            *)

(* Mutant: what was prefetched is thrown away.                             *)
TakePrefetchedLost ==
    /\ pc = "live" /\ ~stop_event /\ current_messages = <<>>
    /\ snapshot_last_seq = None /\ prefetched_last_seq # None
    /\ snapshot_last_seq' = prefetched_last_seq
    /\ prefetched_last_seq' = None
    /\ prefetched_messages' = <<>>
    /\ UNCHANGED <<environment, pc, next_seq, current_messages, handled>>

TakePrefetched ==
    /\ pc = "live" /\ ~stop_event /\ current_messages = <<>>
    /\ snapshot_last_seq = None /\ prefetched_last_seq # None
    /\ snapshot_last_seq' = prefetched_last_seq
    /\ prefetched_last_seq' = None
    /\ current_messages' = prefetched_messages
    /\ prefetched_messages' = <<>>
    /\ UNCHANGED <<environment, pc, next_seq, handled>>

Fetching ==
    /\ pc = "live" /\ ~stop_event /\ current_messages = <<>>
    /\ IF snapshot_last_seq = None THEN prefetched_last_seq = None
                                   ELSE next_seq <= snapshot_last_seq

(* Mutants: the end of the round follows the log; the prefetched messages   *)
(* are kept without their last_seq.                                        *)
FetchPageMoving ==
    /\ Fetching
    /\ \E e \in PageEnds :
         /\ current_messages' = PageMessages(e, DOMAIN log)
         /\ snapshot_last_seq' = Len(log)
         /\ next_seq' = e + 1
    /\ UNCHANGED <<environment, pc, prefetched, handled>>

FetchPageForgets ==
    /\ Fetching
    /\ \E e \in PageEnds :
         LET end == IF snapshot_last_seq = None THEN Len(log)
                    ELSE snapshot_last_seq
         IN  /\ snapshot_last_seq' = end
             /\ current_messages' = PageMessages(e, 1 .. end)
             /\ prefetched_messages' =
                  prefetched_messages \o PageMessages(e, end + 1 .. Len(log))
             /\ next_seq' = e + 1
    /\ UNCHANGED <<environment, pc, prefetched_last_seq, handled>>

FetchPage ==
    /\ Fetching
    /\ \E e \in PageEnds :
         LET end == IF snapshot_last_seq = None THEN Len(log)
                    ELSE snapshot_last_seq
         IN  /\ snapshot_last_seq' = end
             /\ current_messages' = PageMessages(e, 1 .. end)
             /\ prefetched_messages' =
                  prefetched_messages \o PageMessages(e, end + 1 .. Len(log))
             /\ next_seq' = e + 1
    /\ prefetched_last_seq' =
         IF prefetched_messages' = <<>> THEN prefetched_last_seq ELSE Len(log)
    /\ UNCHANGED <<environment, pc, handled>>

(* Mutant: the processor is run after every page.                          *)
TickEarly ==
    /\ pc = "live" /\ current_messages = <<>>
    /\ snapshot_last_seq # None
    /\ snapshot_last_seq' = None
    /\ UNCHANGED <<environment, pc, next_seq, current_messages,
                   prefetched, handled>>

Tick ==
    /\ pc = "live" /\ current_messages = <<>>
    /\ snapshot_last_seq # None /\ next_seq > snapshot_last_seq
    /\ snapshot_last_seq' = None
    /\ UNCHANGED <<environment, pc, next_seq, current_messages,
                   prefetched, handled>>

-----------------------------------------------------------------------------
(* Failures and stop.                                                      *)

CallFails ==
    /\ failures < MaxFailures
    /\ failures' = failures + 1
    /\ UNCHANGED <<log, stop_event, reading>>

(* UNAVAILABLE and DEADLINE_EXCEEDED are waited out.                       *)
LiveFetchFails ==
    /\ Fetching
    /\ pc' \in {"live", "failed"}
    /\ CallFails

(* The scan has no retry.                                                  *)
ScanFetchFails ==
    /\ pc = "scan" /\ current_messages = <<>>
    /\ next_seq <= snapshot_last_seq /\ ~stop_event
    /\ pc' = "failed"
    /\ CallFails

StatusFails ==
    /\ pc = "start"
    /\ pc' = "failed"
    /\ CallFails

SetStop ==
    /\ Running /\ ~stop_event
    /\ stop_event' = TRUE
    /\ UNCHANGED <<log, pc, failures, reading>>

(* The stop event is seen before a page of the scan and at the top of the   *)
(* polling loop.                                                           *)
Stops ==
    /\ stop_event /\ current_messages = <<>>
    /\ \/ pc = "scan" /\ next_seq <= snapshot_last_seq
       \/ /\ pc = "live"
          /\ snapshot_last_seq # None => next_seq <= snapshot_last_seq
    /\ pc' = "stopped"
    /\ UNCHANGED <<environment, reading>>

Publish(mapped) ==
    /\ Len(log) < MaxLog
    /\ log' = Append(log, mapped)
    /\ UNCHANGED <<pc, stop_event, failures, reading>>

Worker == \/ Process \/ ReadStatus \/ ScanPage \/ ScanEnds \/ TakePrefetched
          \/ FetchPage \/ Tick \/ Stops

Next == \/ Worker
        \/ \E mapped \in BOOLEAN : Publish(mapped)
        \/ LiveFetchFails \/ ScanFetchFails \/ StatusFails \/ SetStop

Spec == Init /\ [][Next]_vars /\ WF_vars(Worker)

-----------------------------------------------------------------------------
(***************************************************************************)
(* Properties.                                                             *)
(***************************************************************************)
MappedUpTo(n) == {i \in DOMAIN log : i <= n /\ log[i]}

(* Every mapped message is processed once and in log order: none is lost or *)
(* repeated where the scan hands over to the poll, where a page crosses the *)
(* end of a round, or after a failed Fetch.                                 *)
ProcessedInOrder ==
    \A n \in DOMAIN handled :
        /\ log[handled[n]]
        /\ Cardinality(MappedUpTo(handled[n])) = n

(* The processor runs when exactly the messages up to the end of the round  *)
(* have been processed: no request committed before the round is unknown,   *)
(* and none committed after it is known early.                              *)
TickSeesSnapshot ==
    [][(pc = "live" /\ snapshot_last_seq # None /\ snapshot_last_seq' = None)
         => Range(handled) = MappedUpTo(snapshot_last_seq)]_vars

(* The end of a round does not move while the round lasts, so a busy log    *)
(* cannot keep the processor from running.                                  *)
SnapshotFixed ==
    [][snapshot_last_seq # None
         => snapshot_last_seq' \in {snapshot_last_seq, None}]_vars

(* Every mapped message is processed, unless the worker ends.               *)
MessagesProcessed ==
    \A i \in 1 .. MaxLog :
        (i \in DOMAIN log /\ log[i])
            ~> (i \in Range(handled) \/ stop_event \/ pc = "failed")

(* The scan and the polling loop together read the log in rounds.           *)
IsMapped(m) == m
Rounds == INSTANCE IngestRounds WITH
    Relevant <- IsMapped,
    ingested <- IF Running /\ handled # <<>> THEN Last(handled) ELSE 0,
    round_end <- IF pc \in {"scan", "live"} THEN snapshot_last_seq ELSE None
ImplementsIngestRounds == Rounds!Spec

=============================================================================
