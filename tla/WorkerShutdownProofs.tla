------------------------ MODULE WorkerShutdownProofs ------------------------
(***************************************************************************)
(* Theorems about WorkerShutdown: what its two threads, the signal and the  *)
(* stream's thread do to one another, for any number of reconnections.      *)
(***************************************************************************)
EXTENDS WorkerShutdown, TLAPS

-----------------------------------------------------------------------------
(* The inductive invariant.                                                *)

(* A lost connection is one of the counted ones.                           *)
StreamInv == disconnected_at # "never" => generation < MaxReconnects

(* An exception is the worker's last act before stop.  Nobody stops, and the *)
(* worker does not end, without a signal or an exception; the exit code is   *)
(* chosen when the process ends, and then both threads have come to rest.   *)
ErrorInv ==
    /\ worker_error => worker \in {"stop", "dead"}
    /\ worker = "stop" => worker_error
    /\ worker = "dead" \/ stop_event \/ main # "waiting"
         => shutdown_requested \/ worker_error
    /\ main = "exited" /\ exit_code = 0 => worker = "dead" /\ ~worker_error

(* Who is inside stop.  Without a signal the worker is through with its     *)
(* work when stop is called, and dead when the main thread acts.           *)
StopInv ==
    /\ stop_lock = "main" => main = "stop"
    /\ stop_lock = "worker" => worker = "stop"
    /\ stop_lock # "free" => stopped
    /\ main \in {"join", "exited"} => stopped
    /\ ~shutdown_requested =>
         /\ main # "waiting" => worker = "dead"
         /\ stopped => worker \in {"stop", "dead"}

(* The adapter lets go of a stream that it has told to stop.               *)
ClosingInv ==
    /\ ~event_stream => (Alive => stopping)
    /\ ~shutdown_requested /\ stopped /\ stop_lock = "free" => ~event_stream

IInv == TypeOK /\ StreamInv /\ ErrorInv /\ StopInv /\ ClosingInv

LEMMA InitIInv == Init => IInv
<1> SUFFICES ASSUME Init PROVE IInv
  OBVIOUS
<1>1. TypeOK
  <2>1. {hung, event_stream, puller_started, stop_event, stopped,
         shutdown_requested, fault, worker_error, timed_out, stopping, error}
          \subseteq BOOLEAN
    BY Zenon DEF Init, StreamInit
  <2> QED
    BY <2>1, StreamAssumption DEF Init, StreamInit, TypeOK, StreamTypeOK, Threads
<1>2. StreamInv
  BY DEF Init, StreamInit, StreamInv
<1>3. ErrorInv
  BY DEF Init, ErrorInv
<1>4. StopInv
  BY DEF Init, StopInv
<1>5. ClosingInv
  BY DEF Init, StreamInit, ClosingInv, Alive
<1> QED
  BY <1>1, <1>2, <1>3, <1>4, <1>5 DEF IInv

-----------------------------------------------------------------------------
(* Every step keeps each part.                                             *)

LEMMA GenerationType ==
    ASSUME TypeOK
    PROVE  Generation \in 0 .. MaxReconnects
<1>1. generation \in 0 .. MaxReconnects
  BY Zenon DEF TypeOK, StreamTypeOK
<1>3. 0 \in 0 .. MaxReconnects
  BY StreamAssumption
<1>2. Generation \in {generation, 0}
  BY Zenon DEF Generation
<1> QED
  BY <1>1, <1>2, <1>3

LEMMA TypeStep ==
    ASSUME IInv, [Next]_vars
    PROVE  TypeOK'
<1> USE StreamAssumption DEF IInv, TypeOK, StreamTypeOK, StreamInv, streams, stream, puller, stop_state, result
<1>1. CASE Validate
  BY <1>1 DEF Validate, At, Goto
<1>2. CASE ScanStops
  BY <1>2 DEF ScanStops, At, Goto
<1>3. CASE ScanEnds
  BY <1>3 DEF ScanEnds, At, Goto
<1>4. CASE StartStream
  BY <1>4 DEF StartStream, At, StartThread
<1>5. CASE StartReturns
  BY <1>5 DEF StartReturns, At, Goto
<1>6. CASE PullerStarts
  <2>1. Generation \in 0 .. MaxReconnects
    BY GenerationType
  <2>2. missed' \subseteq missed
    BY <1>6 DEF PullerStarts
  <2> QED
    BY <1>6, <2>1, <2>2 DEF PullerStarts, At
<1>7. CASE StartFails
  BY <1>7 DEF StartFails, At, Raise, Stopped
<1>8. CASE Poll
  BY <1>8 DEF Poll, At, Goto
<1>9. CASE Tick
  BY <1>9 DEF Tick, At, Goto
<1>10. CASE Pull
  <2>1. Generation \in 0 .. MaxReconnects
    BY GenerationType
  <2>2. missed' \subseteq missed
    BY <1>10 DEF Pull
  <2> QED
    BY <1>10, <2>1, <2>2 DEF Pull, At
<1>11. CASE PullFindsError
  BY <1>11 DEF PullFindsError, At, Raise
<1>12. CASE PullAfterStop
  BY <1>12 DEF PullAfterStop, At, Raise
<1>13. CASE CollectNothing
  BY <1>13 DEF CollectNothing, At, Goto
<1>14. CASE Work
  BY <1>14 DEF Work, At, Goto
<1>15. CASE WorkStops
  BY <1>15 DEF WorkStops, At, GivenUp
<1>16. CASE CallFails
  BY <1>16, ZenonT(60) DEF CallFails, At, Raise
<1>32. CASE Fetch
  BY <1>32, ZenonT(60) DEF Fetch, At, Goto
<1>33. CASE FetchFails
  BY <1>33, ZenonT(60) DEF FetchFails, GivenUp, At, Goto, Raise
<1>17. CASE Hang
  BY <1>17, ZenonT(60) DEF Hang, At
<1>18. CASE MainStops
  BY <1>18, ZenonT(60) DEF MainStops
<1>19. CASE Join
  BY <1>19 DEF Join
<1>20. CASE JoinTimesOut
  BY <1>20 DEF JoinTimesOut
<1>21. CASE HandleSignal
  BY <1>21, ZenonT(60) DEF HandleSignal
<1>22. ASSUME NEW t \in Threads, EnterStop(t)
       PROVE  TypeOK'
  BY <1>22, ZenonT(60) DEF EnterStop, Calls, Returns, Threads
<1>23. ASSUME NEW t \in Threads, StopStream(t)
       PROVE  TypeOK'
  BY <1>23, ZenonT(60) DEF StopStream, Stopped, Threads
<1>24. ASSUME NEW t \in Threads, StopPuller(t)
       PROVE  TypeOK'
  BY <1>24, ZenonT(60) DEF StopPuller, Returns, Threads
<1>25. CASE Stream /\ Connect
  BY <1>25 DEF Stream, Connect, Alive
<1>26. CASE Stream /\ OnReconnecting
  BY <1>26, ZenonT(60) DEF Stream, OnReconnecting, Alive
<1>27. CASE Stream /\ OnReconnected
  <2>1. missed' \subseteq {"while lost", "refused"}
    BY <1>27 DEF OnReconnected
  <2>2. generation \in 0 .. MaxReconnects /\ generation < MaxReconnects
    BY <1>27, Zenon DEF OnReconnected
  <2>3. generation' \in 0 .. MaxReconnects
    <3>1. generation' = generation + 1
      BY <1>27, Zenon DEF OnReconnected
    <3> HIDE DEF IInv
    <3> QED
      BY <2>2, <3>1
  <2> QED
    BY <1>27, <2>1, <2>3 DEF Stream, OnReconnected
<1>28. CASE Stream /\ ReconnectTimeout
  BY <1>28, ZenonT(60) DEF Stream, ReconnectTimeout, Alive
<1>29. CASE Stream /\ DispatchRaises
  BY <1>29 DEF Stream, DispatchRaises, Alive
<1>30. CASE Stream /\ ClientEnds
  BY <1>30 DEF Stream, ClientEnds, Alive
<1>31. CASE UNCHANGED vars
  BY <1>31, ZenonT(60) DEF vars
<1> QED
  BY <1>1, <1>2, <1>3, <1>4, <1>5, <1>6, <1>7, <1>8, <1>9, <1>10,
     <1>11, <1>12, <1>13, <1>14, <1>15, <1>16, <1>17, <1>18, <1>19,
     <1>20, <1>21, <1>22, <1>23, <1>24, <1>25, <1>26, <1>27, <1>28,
     <1>29, <1>30, <1>31, <1>32, <1>33 DEF Next, WorkerStep, TakeMessage, Main,
     Stop, Stream, StreamStep

LEMMA StreamInvStep ==
    ASSUME IInv, [Next]_vars
    PROVE  StreamInv'
<1> USE StreamAssumption DEF IInv, TypeOK, StreamTypeOK, StreamInv, streams, stream, puller, stop_state, result
<1>1. CASE Validate
  BY <1>1 DEF Validate, At, Goto
<1>2. CASE ScanStops
  BY <1>2 DEF ScanStops, At, Goto
<1>3. CASE ScanEnds
  BY <1>3 DEF ScanEnds, At, Goto
<1>4. CASE StartStream
  BY <1>4 DEF StartStream, At, StartThread
<1>5. CASE StartReturns
  BY <1>5 DEF StartReturns, At, Goto
<1>6. CASE PullerStarts
  BY <1>6 DEF PullerStarts, At, Generation
<1>7. CASE StartFails
  BY <1>7 DEF StartFails, At, Raise, Stopped
<1>8. CASE Poll
  BY <1>8 DEF Poll, At, Goto
<1>9. CASE Tick
  BY <1>9 DEF Tick, At, Goto
<1>10. CASE Pull
  BY <1>10 DEF Pull, At, Generation
<1>11. CASE PullFindsError
  BY <1>11 DEF PullFindsError, At, Raise
<1>12. CASE PullAfterStop
  BY <1>12 DEF PullAfterStop, At, Raise
<1>13. CASE CollectNothing
  BY <1>13 DEF CollectNothing, At, Goto
<1>14. CASE Work
  BY <1>14 DEF Work, At, Goto
<1>15. CASE WorkStops
  BY <1>15 DEF WorkStops, At, GivenUp
<1>16. CASE CallFails
  BY <1>16 DEF CallFails, At, Raise
<1>32. CASE Fetch
  <2>1. UNCHANGED <<disconnected_at, generation>>
    BY <1>32 DEF Fetch, Goto
  <2> QED
    BY <2>1
<1>33. CASE FetchFails
  BY <1>33 DEF FetchFails, GivenUp, At, Goto, Raise
<1>17. CASE Hang
  BY <1>17 DEF Hang, At
<1>18. CASE MainStops
  BY <1>18 DEF MainStops
<1>19. CASE Join
  BY <1>19 DEF Join
<1>20. CASE JoinTimesOut
  BY <1>20 DEF JoinTimesOut
<1>21. CASE HandleSignal
  BY <1>21 DEF HandleSignal
<1>22. ASSUME NEW t \in Threads, EnterStop(t)
       PROVE  StreamInv'
  BY <1>22 DEF EnterStop, Calls, Returns, Threads
<1>23. ASSUME NEW t \in Threads, StopStream(t)
       PROVE  StreamInv'
  BY <1>23 DEF StopStream, Stopped, Threads
<1>24. ASSUME NEW t \in Threads, StopPuller(t)
       PROVE  StreamInv'
  BY <1>24 DEF StopPuller, Returns, Threads
<1>25. CASE Stream /\ Connect
  BY <1>25 DEF Stream, Connect, Alive
<1>26. CASE Stream /\ OnReconnecting
  BY <1>26 DEF Stream, OnReconnecting, Alive
<1>27. CASE Stream /\ OnReconnected
  BY <1>27 DEF Stream, OnReconnected, Alive
<1>28. CASE Stream /\ ReconnectTimeout
  BY <1>28 DEF Stream, ReconnectTimeout, Alive
<1>29. CASE Stream /\ DispatchRaises
  BY <1>29 DEF Stream, DispatchRaises, Alive
<1>30. CASE Stream /\ ClientEnds
  BY <1>30 DEF Stream, ClientEnds, Alive
<1>31. CASE UNCHANGED vars
  BY <1>31 DEF vars
<1> QED
  BY <1>1, <1>2, <1>3, <1>4, <1>5, <1>6, <1>7, <1>8, <1>9, <1>10,
     <1>11, <1>12, <1>13, <1>14, <1>15, <1>16, <1>17, <1>18, <1>19,
     <1>20, <1>21, <1>22, <1>23, <1>24, <1>25, <1>26, <1>27, <1>28,
     <1>29, <1>30, <1>31, <1>32, <1>33 DEF Next, WorkerStep, TakeMessage, Main,
     Stop, Stream, StreamStep

LEMMA ErrorStep ==
    ASSUME IInv, [Next]_vars
    PROVE  ErrorInv'
<1> USE StreamAssumption DEF IInv, ErrorInv, TypeOK, streams, stream, puller, stop_state, result
<1>1. CASE Validate
  BY <1>1 DEF Validate, At, Goto
<1>2. CASE ScanStops
  BY <1>2 DEF ScanStops, At, Goto
<1>3. CASE ScanEnds
  BY <1>3 DEF ScanEnds, At, Goto
<1>4. CASE StartStream
  BY <1>4 DEF StartStream, At, StartThread
<1>5. CASE StartReturns
  BY <1>5 DEF StartReturns, At, Goto
<1>6. CASE PullerStarts
  BY <1>6 DEF PullerStarts, At, Generation
<1>7. CASE StartFails
  BY <1>7 DEF StartFails, At, Raise, Stopped
<1>8. CASE Poll
  BY <1>8 DEF Poll, At, Goto
<1>9. CASE Tick
  BY <1>9 DEF Tick, At, Goto
<1>10. CASE Pull
  BY <1>10 DEF Pull, At, Generation
<1>11. CASE PullFindsError
  BY <1>11 DEF PullFindsError, At, Raise
<1>12. CASE PullAfterStop
  BY <1>12 DEF PullAfterStop, At, Raise
<1>13. CASE CollectNothing
  BY <1>13 DEF CollectNothing, At, Goto
<1>14. CASE Work
  BY <1>14 DEF Work, At, Goto
<1>15. CASE WorkStops
  BY <1>15 DEF WorkStops, At, GivenUp
<1>16. CASE CallFails
  BY <1>16 DEF CallFails, At, Raise
<1>32. CASE Fetch
  BY <1>32 DEF Fetch, At, Goto
<1>33. CASE FetchFails
  BY <1>33 DEF FetchFails, GivenUp, At, Goto, Raise
<1>17. CASE Hang
  BY <1>17 DEF Hang, At
<1>18. CASE MainStops
  BY <1>18 DEF MainStops
<1>19. CASE Join
  BY <1>19 DEF Join
<1>20. CASE JoinTimesOut
  BY <1>20 DEF JoinTimesOut
<1>21. CASE HandleSignal
  BY <1>21 DEF HandleSignal
<1>22. ASSUME NEW t \in Threads, EnterStop(t)
       PROVE  ErrorInv'
  BY <1>22 DEF EnterStop, Calls, Returns, Threads
<1>23. ASSUME NEW t \in Threads, StopStream(t)
       PROVE  ErrorInv'
  BY <1>23 DEF StopStream, Stopped, Threads
<1>24. ASSUME NEW t \in Threads, StopPuller(t)
       PROVE  ErrorInv'
  BY <1>24 DEF StopPuller, Returns, Threads, StopInv
<1>25. CASE Stream /\ Connect
  BY <1>25 DEF Stream, Connect, Alive
<1>26. CASE Stream /\ OnReconnecting
  BY <1>26 DEF Stream, OnReconnecting, Alive
<1>27. CASE Stream /\ OnReconnected
  BY <1>27 DEF Stream, OnReconnected, Alive
<1>28. CASE Stream /\ ReconnectTimeout
  BY <1>28 DEF Stream, ReconnectTimeout, Alive
<1>29. CASE Stream /\ DispatchRaises
  BY <1>29 DEF Stream, DispatchRaises, Alive
<1>30. CASE Stream /\ ClientEnds
  BY <1>30 DEF Stream, ClientEnds, Alive
<1>31. CASE UNCHANGED vars
  BY <1>31 DEF vars
<1> QED
  BY <1>1, <1>2, <1>3, <1>4, <1>5, <1>6, <1>7, <1>8, <1>9, <1>10,
     <1>11, <1>12, <1>13, <1>14, <1>15, <1>16, <1>17, <1>18, <1>19,
     <1>20, <1>21, <1>22, <1>23, <1>24, <1>25, <1>26, <1>27, <1>28,
     <1>29, <1>30, <1>31, <1>32, <1>33 DEF Next, WorkerStep, TakeMessage, Main,
     Stop, Stream, StreamStep

LEMMA StopStep ==
    ASSUME IInv, [Next]_vars
    PROVE  StopInv'
<1> USE StreamAssumption DEF IInv, StopInv, TypeOK, streams, stream, puller, stop_state, result
<1>1. CASE Validate
  BY <1>1 DEF Validate, At, Goto
<1>2. CASE ScanStops
  BY <1>2 DEF ScanStops, At, Goto
<1>3. CASE ScanEnds
  BY <1>3 DEF ScanEnds, At, Goto
<1>4. CASE StartStream
  BY <1>4 DEF StartStream, At, StartThread
<1>5. CASE StartReturns
  BY <1>5 DEF StartReturns, At, Goto
<1>6. CASE PullerStarts
  BY <1>6 DEF PullerStarts, At, Generation
<1>7. CASE StartFails
  BY <1>7 DEF StartFails, At, Raise, Stopped
<1>8. CASE Poll
  BY <1>8 DEF Poll, At, Goto
<1>9. CASE Tick
  BY <1>9 DEF Tick, At, Goto
<1>10. CASE Pull
  BY <1>10 DEF Pull, At, Generation
<1>11. CASE PullFindsError
  BY <1>11 DEF PullFindsError, At, Raise
<1>12. CASE PullAfterStop
  BY <1>12 DEF PullAfterStop, At, Raise
<1>13. CASE CollectNothing
  BY <1>13 DEF CollectNothing, At, Goto
<1>14. CASE Work
  BY <1>14 DEF Work, At, Goto
<1>15. CASE WorkStops
  BY <1>15 DEF WorkStops, At, GivenUp
<1>16. CASE CallFails
  BY <1>16 DEF CallFails, At, Raise
<1>32. CASE Fetch
  BY <1>32 DEF Fetch, At, Goto
<1>33. CASE FetchFails
  BY <1>33 DEF FetchFails, GivenUp, At, Goto, Raise
<1>17. CASE Hang
  BY <1>17 DEF Hang, At
<1>18. CASE MainStops
  BY <1>18 DEF MainStops
<1>19. CASE Join
  BY <1>19 DEF Join
<1>20. CASE JoinTimesOut
  BY <1>20 DEF JoinTimesOut
<1>21. CASE HandleSignal
  BY <1>21 DEF HandleSignal
<1>22. ASSUME NEW t \in Threads, EnterStop(t)
       PROVE  StopInv'
  BY <1>22 DEF EnterStop, Calls, Returns, Threads
<1>23. ASSUME NEW t \in Threads, StopStream(t)
       PROVE  StopInv'
  BY <1>23 DEF StopStream, Stopped, Threads
<1>24. ASSUME NEW t \in Threads, StopPuller(t)
       PROVE  StopInv'
  BY <1>24 DEF StopPuller, Returns, Threads
<1>25. CASE Stream /\ Connect
  BY <1>25 DEF Stream, Connect, Alive
<1>26. CASE Stream /\ OnReconnecting
  BY <1>26 DEF Stream, OnReconnecting, Alive
<1>27. CASE Stream /\ OnReconnected
  BY <1>27 DEF Stream, OnReconnected, Alive
<1>28. CASE Stream /\ ReconnectTimeout
  BY <1>28 DEF Stream, ReconnectTimeout, Alive
<1>29. CASE Stream /\ DispatchRaises
  BY <1>29 DEF Stream, DispatchRaises, Alive
<1>30. CASE Stream /\ ClientEnds
  BY <1>30 DEF Stream, ClientEnds, Alive
<1>31. CASE UNCHANGED vars
  BY <1>31 DEF vars
<1> QED
  BY <1>1, <1>2, <1>3, <1>4, <1>5, <1>6, <1>7, <1>8, <1>9, <1>10,
     <1>11, <1>12, <1>13, <1>14, <1>15, <1>16, <1>17, <1>18, <1>19,
     <1>20, <1>21, <1>22, <1>23, <1>24, <1>25, <1>26, <1>27, <1>28,
     <1>29, <1>30, <1>31, <1>32, <1>33 DEF Next, WorkerStep, TakeMessage, Main,
     Stop, Stream, StreamStep

LEMMA ClosingStep ==
    ASSUME IInv, [Next]_vars
    PROVE  ClosingInv'
<1> USE StreamAssumption DEF IInv, StopInv, ClosingInv, TypeOK, Alive, streams, stream, puller, stop_state, result
<1>1. CASE Validate
  BY <1>1 DEF Validate, At, Goto
<1>2. CASE ScanStops
  BY <1>2 DEF ScanStops, At, Goto
<1>3. CASE ScanEnds
  BY <1>3 DEF ScanEnds, At, Goto
<1>4. CASE StartStream
  BY <1>4 DEF StartStream, At, StartThread
<1>5. CASE StartReturns
  BY <1>5 DEF StartReturns, At, Goto
<1>6. CASE PullerStarts
  BY <1>6 DEF PullerStarts, At, Generation
<1>7. CASE StartFails
  BY <1>7 DEF StartFails, At, Raise, Stopped
<1>8. CASE Poll
  BY <1>8 DEF Poll, At, Goto
<1>9. CASE Tick
  BY <1>9 DEF Tick, At, Goto
<1>10. CASE Pull
  BY <1>10 DEF Pull, At, Generation
<1>11. CASE PullFindsError
  BY <1>11 DEF PullFindsError, At, Raise
<1>12. CASE PullAfterStop
  BY <1>12 DEF PullAfterStop, At, Raise
<1>13. CASE CollectNothing
  BY <1>13 DEF CollectNothing, At, Goto
<1>14. CASE Work
  BY <1>14 DEF Work, At, Goto
<1>15. CASE WorkStops
  BY <1>15 DEF WorkStops, At, GivenUp
<1>16. CASE CallFails
  BY <1>16 DEF CallFails, At, Raise
<1>32. CASE Fetch
  BY <1>32 DEF Fetch, At, Goto
<1>33. CASE FetchFails
  BY <1>33 DEF FetchFails, GivenUp, At, Goto, Raise
<1>17. CASE Hang
  BY <1>17 DEF Hang, At
<1>18. CASE MainStops
  BY <1>18 DEF MainStops
<1>19. CASE Join
  BY <1>19 DEF Join
<1>20. CASE JoinTimesOut
  BY <1>20 DEF JoinTimesOut
<1>21. CASE HandleSignal
  BY <1>21 DEF HandleSignal
<1>22. ASSUME NEW t \in Threads, EnterStop(t)
       PROVE  ClosingInv'
  BY <1>22 DEF EnterStop, Calls, Returns, Threads
<1>23. ASSUME NEW t \in Threads, StopStream(t)
       PROVE  ClosingInv'
  <2>1. CASE ~stopping /\ Stopped /\ UNCHANGED event_stream
    BY <1>23, <2>1 DEF StopStream, Stopped, Threads
  <2>2. CASE stopping /\ event_stream' = FALSE /\ UNCHANGED stream
    <3>1. stopping' /\ stop_lock' # "free"
      BY <1>23, <2>2 DEF StopStream, Threads
    <3> QED
      BY <3>1
  <2> QED
    BY <1>23, <2>1, <2>2 DEF StopStream
<1>24. ASSUME NEW t \in Threads, StopPuller(t)
       PROVE  ClosingInv'
  BY <1>24 DEF StopPuller, Returns, Threads
<1>25. CASE Stream /\ Connect
  BY <1>25 DEF Stream, Connect, Alive
<1>26. CASE Stream /\ OnReconnecting
  BY <1>26 DEF Stream, OnReconnecting, Alive
<1>27. CASE Stream /\ OnReconnected
  BY <1>27 DEF Stream, OnReconnected, Alive
<1>28. CASE Stream /\ ReconnectTimeout
  BY <1>28 DEF Stream, ReconnectTimeout, Alive
<1>29. CASE Stream /\ DispatchRaises
  BY <1>29 DEF Stream, DispatchRaises, Alive
<1>30. CASE Stream /\ ClientEnds
  BY <1>30 DEF Stream, ClientEnds, Alive
<1>31. CASE UNCHANGED vars
  BY <1>31 DEF vars
<1> QED
  BY <1>1, <1>2, <1>3, <1>4, <1>5, <1>6, <1>7, <1>8, <1>9, <1>10,
     <1>11, <1>12, <1>13, <1>14, <1>15, <1>16, <1>17, <1>18, <1>19,
     <1>20, <1>21, <1>22, <1>23, <1>24, <1>25, <1>26, <1>27, <1>28,
     <1>29, <1>30, <1>31, <1>32, <1>33 DEF Next, WorkerStep, TakeMessage, Main,
     Stop, Stream, StreamStep

-----------------------------------------------------------------------------
LEMMA Invariance == Spec => []IInv
<1>1. Init => IInv
  BY InitIInv
<1>2. IInv /\ [Next]_vars => IInv'
  BY TypeStep, StreamInvStep, ErrorStep, StopStep, ClosingStep DEF IInv
<1> QED
  BY <1>1, <1>2, PTL DEF Spec

(* The state of both threads, of stop and of the stream keeps its types.   *)
THEOREM TypeCorrect == Spec => []TypeOK
<1>1. IInv => TypeOK
  BY DEF IInv
<1> QED
  BY <1>1, Invariance, PTL

(* cli.main: the process ends successfully only if a signal asked for it    *)
(* and the worker's thread has ended.                                      *)
THEOREM SuccessWasRequested == Spec => []SuccessOnlyOnRequest
<1>1. IInv => SuccessOnlyOnRequest
  BY DEF IInv, ErrorInv, SuccessOnlyOnRequest
<1> QED
  BY <1>1, Invariance, PTL

(* P2PSyncer.start and stop: a process that ends without a signal has told  *)
(* every stream of its adapter to stop.                                    *)
THEOREM StreamsClosed == Spec => []StreamsClosedOnFailure
<1>1. ASSUME IInv, main = "exited", ~shutdown_requested
      PROVE  Alive => stopping
  <2>1. stopped /\ worker = "dead"
    BY <1>1 DEF IInv, StopInv
  <2>2. /\ stop_lock \in {"main", "worker", "free"}
        /\ stop_lock # "main" /\ stop_lock # "worker"
    BY <1>1, <2>1 DEF IInv, StopInv, TypeOK, Threads
  <2> QED
    BY <1>1, <2>1, <2>2 DEF IInv, ClosingInv
<1>2. IInv => StreamsClosedOnFailure
  BY <1>1 DEF StreamsClosedOnFailure
<1> QED
  BY <1>2, Invariance, PTL
=============================================================================
