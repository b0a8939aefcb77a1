--------------------------- MODULE WorkerShutdown ---------------------------
(***************************************************************************)
(* The life of the process: the main thread (cli.main), the worker thread   *)
(* (P2PSyncer.start) and P2PSyncer.stop, which both of them call, the       *)
(* worker when it fails and the main thread on a signal.  stop runs under   *)
(* a lock, but the worker starts the event stream and the puller without    *)
(* it.  A configuration has exactly one provider (config.py), so there is   *)
(* one of each.                                                            *)
(***************************************************************************)
EXTENDS LarkEventStream

VARIABLES
    main,                 \* "waiting", "stop", "join" or "exited"
    worker,               \* where the worker thread is
    hung,                 \* the call it is in does not return
    event_stream,         \* has the adapter a stream?
    puller_started,       \* _started of the puller
    stream_generation,    \* _stream_generation of the puller
    stop_event, stopped,
    stop_lock,            \* the thread inside stop, or "free"
    shutdown_requested,
    fault,                \* did a call of the worker fail?
    worker_error,         \* did start end with an exception?
    timed_out, exit_code

stop_state == <<stop_event, stopped, stop_lock>>
puller == <<event_stream, puller_started, stream_generation>>
streams == <<stream, puller>>
result == <<timed_out, exit_code>>
vars == <<main, worker, hung, streams, stop_state, shutdown_requested, fault,
          worker_error, result>>

Threads == {"main", "worker"}

TypeOK ==
    /\ main \in {"waiting", "stop", "join", "exited"}
    /\ worker \in {"validate", "scan", "start", "connect", "connected",
                   "poll", "fetch", "tick", "pull", "work", "stop", "dead"}
    /\ StreamTypeOK /\ stream_generation \in 0 .. MaxReconnects
    /\ stop_lock \in Threads \cup {"free"}
    /\ {hung, event_stream, puller_started, stop_event, stopped, shutdown_requested, fault,
        worker_error, timed_out} \subseteq BOOLEAN
    /\ exit_code \in {0, 1}

Init ==
    /\ main = "waiting" /\ worker = "validate"
    /\ StreamInit /\ hung = FALSE
    /\ event_stream = FALSE /\ puller_started = FALSE
    /\ stream_generation = 0
    /\ stop_event = FALSE /\ stopped = FALSE
    /\ stop_lock = "free"
    /\ shutdown_requested = FALSE /\ fault = FALSE /\ worker_error = FALSE
    /\ timed_out = FALSE /\ exit_code = 0

-----------------------------------------------------------------------------
(* stop                                                                    *)

Calls(t) == IF t = "main" THEN main = "stop" ELSE worker = "stop"
Returns(t) == IF t = "main" THEN main' = "join" /\ UNCHANGED worker
                            ELSE worker' = "dead" /\ UNCHANGED main

EnterStop(t) ==
    /\ main # "exited" /\ Calls(t) /\ stop_lock = "free"
    /\ \/ /\ stopped
          /\ Returns(t)
          /\ UNCHANGED stop_state
       \/ /\ ~stopped
          /\ stopped' = TRUE /\ stop_event' = TRUE
          /\ stop_lock' = t
          /\ UNCHANGED <<main, worker>>
    /\ UNCHANGED <<hung, streams, shutdown_requested, fault, worker_error,
                   result>>

(* stop_event_stream: close the connection and wait, five seconds at most,  *)
(* for the thread, which may not have ended then.                          *)
StopStream(t) ==
    /\ main # "exited" /\ stop_lock = t
    /\ event_stream
    /\ \/ ~stopping /\ Stopped /\ UNCHANGED event_stream
       \/ stopping /\ event_stream' = FALSE /\ UNCHANGED stream
    /\ UNCHANGED <<main, worker, hung, puller_started, stream_generation,
                   stop_state, shutdown_requested, fault, worker_error, result>>

(* Mutant: the lock is not released.                                       *)
StopPullerHolds(t) ==
    /\ main # "exited" /\ stop_lock = t
    /\ ~event_stream
    /\ puller_started' = FALSE
    /\ Returns(t)
    /\ UNCHANGED <<hung, stream, event_stream, stream_generation, stop_state,
                   shutdown_requested, fault, worker_error, result>>

(* Mutant: the puller is stopped and its stream is not.                    *)
StopPullerOnly(t) ==
    /\ main # "exited" /\ stop_lock = t
    /\ puller_started' = FALSE
    /\ stop_lock' = "free"
    /\ Returns(t)
    /\ UNCHANGED <<hung, stream, event_stream, stream_generation, stop_event,
                   stopped, shutdown_requested, fault, worker_error, result>>

StopPuller(t) ==
    /\ main # "exited" /\ stop_lock = t
    /\ ~event_stream
    /\ puller_started' = FALSE
    /\ stop_lock' = "free"
    /\ Returns(t)
    /\ UNCHANGED <<hung, stream, event_stream, stream_generation, stop_event,
                   stopped, shutdown_requested, fault, worker_error, result>>

-----------------------------------------------------------------------------
(* The worker thread.                                                      *)

At(pc) == worker = pc /\ main # "exited" /\ ~hung

(* A call to OpenEvent or to the provider never returns.                   *)
Hang ==
    /\ At("validate") \/ At("scan") \/ At("fetch") \/ At("pull") \/ At("work")
    /\ hung' = TRUE
    /\ UNCHANGED <<main, worker, streams, stop_state, shutdown_requested, fault,
                   worker_error, result>>

Goto(pc) ==
    /\ worker' = pc
    /\ UNCHANGED <<main, hung, streams, stop_state, shutdown_requested, fault,
                   worker_error, result>>

(* An exception: start calls stop and raises it again.                     *)
Raise(is_fault) ==
    /\ worker' = "stop" /\ worker_error' = TRUE
    /\ fault' = (fault \/ is_fault)
    /\ UNCHANGED <<main, hung, stop_state, shutdown_requested, result>>

(* The adapter's answers: nothing, once stop_event_stream has come.        *)
Generation == IF event_stream THEN generation ELSE 0

(* SyncerStopped ends the thread without an error.                         *)
Validate == At("validate") /\ Goto(IF stop_event THEN "dead" ELSE "scan")

(* The stop event is looked at before each page, not after the last one.   *)
ScanStops == At("scan") /\ stop_event /\ Goto("dead")
ScanEnds == At("scan") /\ Goto("start")

StartStream ==
    /\ At("start")
    /\ event_stream' = TRUE
    /\ StartThread
    /\ worker' = "connect"
    /\ UNCHANGED <<main, hung, puller_started, stream_generation, stop_state,
                   shutdown_requested, fault, worker_error, result>>

StartReturns == At("connect") /\ conn = "open" /\ ~error /\ Goto("connected")

(* The windows end now and the generation is read, so that a reconnection   *)
(* is either before the windows' end or a later generation.  stop may have  *)
(* come between the return of the stream and this.                         *)
PullerStarts ==
    /\ At("connected")
    /\ puller_started' = TRUE
    /\ stream_generation' = Generation
    /\ missed' = missed \ {"while lost"}
    /\ worker' = "poll"
    /\ UNCHANGED <<main, hung, event_stream, conn, stopping, error,
                   disconnected_at, generation, stop_state,
                   shutdown_requested, fault, worker_error, result>>

(* An error, or no connection in time, perhaps because of a stop.          *)
StartFails ==
    /\ At("connect") /\ (conn # "open" \/ error)
    /\ Raise(error \/ ~stopping)
    /\ Stopped /\ UNCHANGED puller

Poll == At("poll") /\ Goto(IF stop_event THEN "dead" ELSE "fetch")

(* A round of one page, or of more pages: each looks at the stop event, and *)
(* that matters if it was set meanwhile.                                   *)
Fetch ==
    \/ At("fetch") /\ Goto("tick")
    \/ At("fetch") /\ stop_event /\ Goto("poll")

(* A call is given up because a stop is under way; start ends normally.    *)
GivenUp ==
    /\ worker' = "dead" /\ fault' = TRUE
    /\ UNCHANGED <<main, hung, streams, stop_state, shutdown_requested,
                   worker_error, result>>

(* Mutant: a failure ends the loop, whether or not a stop is under way.    *)
FetchFailsBreaks == At("fetch") /\ GivenUp

(* Any failure, also a permanent one, is taken for a consequence of the     *)
(* stop; before that, a transient failure is waited out.                   *)
FetchFails ==
    /\ At("fetch")
    /\ \/ stop_event /\ GivenUp
       \/ ~stop_event /\ Goto("poll")
       \/ ~stop_event /\ Raise(TRUE) /\ UNCHANGED streams

Tick == At("tick") /\ Goto(IF stop_event THEN "poll" ELSE "pull")

(* take_message: the errors of the stream first, then the handoff after a   *)
(* reconnection, whose new windows cover what the lost connection missed.  *)
Pull ==
    /\ At("pull") /\ puller_started
    /\ ~(event_stream /\ StreamError)
    /\ Generation >= stream_generation
    /\ stream_generation' = Generation
    /\ missed' = IF Generation = stream_generation THEN missed
                 ELSE missed \ {"while lost"}
    /\ worker' = "work"
    /\ UNCHANGED <<main, hung, event_stream, puller_started, conn, stopping,
                   error, disconnected_at, generation, stop_state,
                   shutdown_requested, fault, worker_error, result>>

PullFindsError ==
    /\ At("pull") /\ puller_started /\ event_stream /\ StreamError
    /\ Raise(TRUE)
    /\ UNCHANGED streams

(* stop has taken the stream or the puller away since the check of the      *)
(* tick: the generation moves backwards, the stream becomes None between    *)
(* the adapter's check and its use, or the puller is not started.          *)
PullAfterStop ==
    /\ At("pull") /\ ~(puller_started /\ event_stream)
    /\ Raise(FALSE)
    /\ UNCHANGED streams

TakeMessage == Pull \/ PullFindsError \/ PullAfterStop

(* _pending_events is full: the puller is not asked.                       *)
CollectNothing == At("pull") /\ Goto("work")

Work == At("work") /\ Goto("poll")

(* The publish failed and waits for its next attempt: the record or result  *)
(* is left to the next start.                                              *)
WorkStops == At("work") /\ stop_event /\ GivenUp

(* What ends the worker whatever the stop event says: any other call, or a  *)
(* fetched message that cannot be processed.                               *)
CallFails ==
    /\ At("validate") \/ At("scan") \/ At("fetch") \/ At("pull") \/ At("work")
    /\ Raise(TRUE)
    /\ UNCHANGED streams

-----------------------------------------------------------------------------
(* The SDK's thread, the operator and the main thread.                     *)

Stream ==
    /\ main # "exited" /\ StreamStep
    /\ UNCHANGED <<main, worker, hung, puller, stop_state, shutdown_requested,
                   fault, worker_error, result>>

HandleSignal ==
    /\ ~shutdown_requested /\ main = "waiting"
    /\ shutdown_requested' = TRUE
    /\ UNCHANGED <<main, worker, hung, streams, stop_state, fault,
                   worker_error, result>>

MainStops ==
    /\ main = "waiting" /\ (shutdown_requested \/ worker = "dead")
    /\ main' = "stop"
    /\ UNCHANGED <<worker, hung, streams, stop_state, shutdown_requested, fault,
                   worker_error, result>>

Join ==
    /\ main = "join" /\ worker = "dead"
    /\ main' = "exited"
    /\ exit_code' = IF worker_error THEN 1 ELSE 0
    /\ UNCHANGED <<worker, hung, streams, stop_state, shutdown_requested, fault,
                   worker_error, timed_out>>

(* Mutant: the time-out has an exit code of its own.                       *)
JoinTimesOutApart ==
    /\ main = "join" /\ worker # "dead"
    /\ main' = "exited"
    /\ exit_code' = 2 /\ timed_out' = TRUE
    /\ UNCHANGED <<worker, hung, streams, stop_state, shutdown_requested, fault,
                   worker_error>>

JoinTimesOut ==
    /\ main = "join" /\ worker # "dead"
    /\ main' = "exited"
    /\ exit_code' = 1 /\ timed_out' = TRUE
    /\ UNCHANGED <<worker, hung, streams, stop_state, shutdown_requested, fault,
                   worker_error>>

WorkerStep ==
    \/ Validate \/ ScanStops \/ ScanEnds \/ StartStream \/ StartReturns
    \/ PullerStarts \/ StartFails \/ Poll \/ Fetch \/ FetchFails \/ Tick
    \/ TakeMessage \/ CollectNothing \/ Work \/ WorkStops \/ CallFails

Stop(t) == EnterStop(t) \/ StopStream(t) \/ StopPuller(t)
Main == MainStops \/ Join \/ JoinTimesOut

Next == WorkerStep \/ Hang \/ Main \/ Stream \/ HandleSignal
        \/ \E t \in Threads : Stop(t)

(* The threads run, unless a call hangs; a lost connection does not stay    *)
(* lost beyond the timeout unnoticed by the clock; a Fetch repeated again   *)
(* and again succeeds; and the puller is asked again and again, since       *)
(* pending events do not stay (MessagesRecorded).                          *)
Spec == Init /\ [][Next]_vars
             /\ WF_vars(Main) /\ \A t \in Threads : WF_vars(Stop(t))
             /\ WF_vars(WorkerStep) /\ SF_vars(Fetch) /\ SF_vars(TakeMessage)
             /\ WF_vars(Stream /\ (OnReconnected \/ ReconnectTimeout))

-----------------------------------------------------------------------------
(***************************************************************************)
(* Properties.                                                             *)
(***************************************************************************)
(* A signal, or a failure of the worker, ends the process, although both    *)
(* threads may be inside stop and the worker may be in any call.            *)
ProcessEnds == (shutdown_requested \/ worker_error) ~> (main = "exited")

(* The process manager, which restarts what fails (IM-P2P-SYNCER.md section *)
(* 9), sees a success only if a signal asked for it and the worker's thread  *)
(* had come to its end: no other exit, whichever thread stopped whom and     *)
(* whatever failed meanwhile, is taken for a shutdown (start, cli.main).    *)
SuccessOnlyOnRequest ==
    main = "exited" /\ exit_code = 0 => shutdown_requested /\ worker = "dead"

(* A worker that fails by itself leaves no connection behind: every stream  *)
(* has been told to stop.                                                  *)
StreamsClosedOnFailure ==
    (main = "exited" /\ ~shutdown_requested) => (Alive => stopping)

(* Messages that the stream missed, because the connection was lost or the  *)
(* adapter refused them, do not stay missed in silence: windows opened      *)
(* after the reconnection cover them, or the worker ends, and the history   *)
(* of the next start does.  Only a call that hangs prevents it.            *)
MissedNoticed ==
    (conn = "lost" \/ missed # {})
        ~> \/ conn # "lost" /\ missed = {}
           \/ worker \in {"stop", "dead"} \/ hung \/ main = "exited"

(* IM-P2P-SYNCER.md sections 4 and 7: a shutdown is graceful; it is the     *)
(* timeout that exits unsuccessfully.                                       *)
ShutdownSucceeds ==
    (main = "exited" /\ shutdown_requested /\ ~fault /\ ~timed_out)
        => exit_code = 0

=============================================================================
