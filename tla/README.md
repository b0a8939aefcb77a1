# A TLA+ model of openevent-modules-im

This directory holds a formal model of the P2P instant-messaging worker of this
repository (`src/openevent/im_p2p_syncer`) and of the publishing part of its SDK
(`src/openevent/im_sdk`): TLA+ modules, the TLC configurations that check them on small
instances, and theorems that TLAPS proves for every value of the constants.

The worker connects two histories. Business callers write `send.request` messages to the
OpenEvent log; the worker sends each of them to a Feishu/Lark chat and writes a
`send.result`. Users (and the worker's own bot) post chat messages; the worker writes each
of them to the log as a `sync.record`. It has no storage of its own: everything it knows
is rebuilt from the log when it starts, and every fatal error ends the process and leaves
the rest to the process manager and to that replay. The hard part of the code is therefore
that a handful of dictionaries, filled in two different ways (by replay and call by call),
must give exactly-once and in-order behaviour over calls whose outcome may stay unknown.

## 1. The system and its components

| Component | Code | State | Operations | Model |
| --- | --- | --- | --- | --- |
| Runtime state | `state.py` | seen records, completed requests, canonical requests, results, pending requests and their heap, blocked channels, links, resume points | add request / result / record (replay), next task, mark result / record (live) | `RuntimeState` |
| Worker loop | `syncer.py`, `loop.py` | pending events, work turn | scan, poll, ingest, tick, outbound task, provider event | `P2PSyncer` |
| Log reading | `syncer.py:129-242` | `next_seq`, end of the round, prefetched messages | `_scan_history`, `_poll_events` | `LivePoll` |
| Publishing | `im_sdk/client.py`, `loop.py:201-341` | attempt, watermarks | `_publish`, reconcile, retry, degrade | `ImPublish` |
| Message puller | `provider_messages.py`, the event queue of `lark_openapi.py` | per session: confirmed time, window, page token, undelivered page, unacknowledged message; shared buffer, cursor, generation | `start`, `take_message`, `acknowledge` | `ProviderMessagePuller` |
| Event stream | `lark_event_stream.py` | client and thread, stopping, error, time of disconnection, generation | start, stop, error, callbacks | `LarkEventStream`, run by `WorkerShutdown`; its effect on the puller in `ProviderMessagePuller` |
| Process | `cli.py`, `P2PSyncer.start/stop` | stop event, stop lock, worker error, exit code | signal, stop, join | `WorkerShutdown` |
| Codec | `im_sdk/codec.py`, `normalizer.py`, `parse_message` | none | encode, decode, check | `ImCodec`, composed in `MessagePath` |
| Adapter, messages | `lark_openapi.py:213-357` | none | parse a listed and a pushed message | `LarkMessages`, composed in `MessagePath` |
| Mapping, configuration, validation | `mapping.py`, `config.py`, `syncer.py:94-127` | the tables | load, build, look up, compare with OpenEvent | `WorkerStartup` |

How they interact. One thread runs `scan -> start puller -> (fetch, ingest, tick)*`. A tick
asks the puller for one message (a call that may query the provider's history), then does
one unit of work: an outbound task (a provider send and a publish) or a provider event (a
publish and an acknowledgement), in turns. The SDK's WebSocket thread fills the adapter's
queue and raises the generation; the main thread sets the stop event and calls `stop`.
Between any two calls of the worker, callers write, users post, connections break and the
process may end.

What makes each part correct:

- *Worker and state*: requests are answered once, in order, with the message that was sent;
  each chat message is recorded once, none is skipped, and the record of a sent message
  follows its result and is linked to it; a restart changes no decision; nothing waits for
  ever. Hard: exits between a send and its result, lost answers, redelivery, the echo of a
  message while its request is unanswered.
- *Log reading*: rounds with a fixed end, each message once and in order. Hard: the log grows
  between pages, pages cross the end of a round.
- *Publishing*: at most one copy, a truthful answer. Hard: unknown outcomes among other
  writers, retries, two forms of one record.
- *Puller*: one acknowledged stream per session, nothing lost, sessions independent. Hard: the
  handoff between history and pushed events, reconnections, bounded queues, clocks.
- *Process and stream*: it ends, closes its connection, exits with the right code, and no
  message the stream missed goes unnoticed. Hard: `stop` from two threads while the worker
  starts streams without the lock; errors in a thread nobody waits for.
- *Codec, adapter, mapping, configuration*: what runs is what the documents allow; a message has
  one meaning whichever way it arrives; what is written can be read back. Hard: checks made at
  three different times, two layouts of one message, two readers of one record.

## 2. Modules

```
 ChannelSync     <= P2PSyncer = RuntimeState + loop
                     | assumes       P2PSyncerRefinement, P2PSyncerInv, MCP2PSyncer
                     | assumes       P2PSyncerProofs -> P2PRecordProofs
                     |
   IngestRounds  <= LivePoll                  LivePollProofs
   AtomicPublish <= ImPublish                 ImPublishProofs
   AckedStream   <= ProviderMessagePuller     PullerProofs, MCProviderMessagePuller

 MessagePath = WorkerStartup + LarkMessages + ImCodec
                                              MessagePathProofs, MCMessagePath
 WorkerShutdown = process + LarkEventStream   WorkerShutdownProofs
 SortedSeqs                                   SortedSeqProofs
```

Each `<=` is a refinement that TLC checks on the instance of a run and that is proved for every
value of the constants.

`P2PSyncer` uses three calls whose inside is another module: a round of reading, a publish,
and the next message of a session. What it assumes of them is written as an abstract
specification (`IngestRounds`, `AtomicPublish`, `AckedStream`), and the detailed modules are
shown to implement those. `P2PSyncer` in turn implements `ChannelSync`, the promise
to the two sides in terms of the log and the chat alone. What it assumes of the configuration
(`P2PAssumption`) is `RoutesBothWays` of `WorkerStartup`, and that the worker reads back what it
writes is `ReplaysAsMarked` of `MessagePath`.

**RuntimeState** has one variable per dictionary of `RuntimeState.__init__` and one operator
per method. A message is a record; its seq is its position in the log. Channel and session
determine each other (`mapping.py` refuses anything else), so an inbound key is a pair of
channel and message id. `pending_heap` is the set of heap entries; popping is taking the least.

**P2PSyncer** adds the log, the chat and the loop. `phase` is the external call the
worker is in; every action is the code between two such calls. `Start` is the process start
and the `GetStatus` of the scan, `ScanMessage` one message of `_scan_history`, `StartPullers`
its end, which opens each channel's window (`ResumeAt`: the newest record less an overlap, or the
lookback); then a round is `Poll`, `IngestMessage`, `EndIngest`, `CollectMessage` or
`CollectNothing` (`take_message`; redelivery of an earlier message is `CollectAgain`), and one of
`TakeTask`, `TakeEvent`, `NothingToDo`, followed by `SendMessage`, `PublishResult` or
`PublishRecord`. Each external call has its failing variant (`SendUnanswered`,
`PublishResultUnknown`, `PublishRecordUnknown`), `Crash` is possible anywhere, and what the code
raises on ends the worker: a conflict or a wrong role (`ScanConflict`, `IngestConflict`), a request
of a principal without a bot (`TakeUnmappedTask`), a request whose content the provider never accepts
(`SendRefused`, for the contents in `Refused`: it is met again after every restart), a chat message
of a sender without a mapping (`TakeUnmappedEvent`; `Strangers` post such messages). Callers and
users are `CallerPublishes` and `UserPosts`.

**ChannelSync**: requests are delivered and answered one at a time, oldest first, each once;
messages are recorded once, the message of a request only after its answer, linked to it.
`P2PSyncerRefinement` reads this state off log and chat only, so it survives exits.

**ImPublish** follows one publish: `GetStatus`, `PublishAutoSeq`, its failure by status code,
`GetStatus` and `Fetch` pages of the reconciliation, the retry wait, the degraded second
publish. Other clients write at any time. The initial state chooses which forms are too large and
whether a call that was given up may commit later (`late_commits`).

**LivePoll** follows `_scan_history` and `_poll_events` message by message; a Fetch may stop
anywhere at or after its first seq. A log entry is TRUE if it is in a mapped channel.

**ProviderMessagePuller** splits `take_message` at the points where the SDK's thread matters:
stream check and handoff, collection of one event, second check, and one step per session
visited. The provider's clock is the number of messages posted.

**LarkEventStream** is the state of `LarkEventStream.__init__` and a step per method and callback:
the client connects, loses and regains the connection (counted in `generation`), or ends; a
message the adapter refuses raises in the SDK's thread (`DispatchRaises`); a connection lost for
too long is an error only when somebody asks (`ReconnectTimeout`). `missed` records that messages
were lost in a way no history query has made up for yet.

**WorkerShutdown** has the two threads of the process at the granularity of their calls, over that
stream: the worker from `_validate_channels` to its exit, `stop` under its lock (called by both
threads), the signal, the bounded join and the exit code. What fails ends the worker with an
exception, except where the code looks at the stop event first (`FetchFails`, `WorkStops`). A valid configuration has exactly one
provider (`config.py:84`), so there is one puller and one stream. The lock-free
`_event_stream` of the adapter is read by the worker while `stop` may take it away (`Generation`,
`PullAfterStop`).

**WorkerStartup** goes from the file to a running worker: `parse_config` as one predicate per
parsing function (`ParsePrincipalTokens`, `ParseProviders`, ...), the index channel by channel
(`IndexChannel`), `_validate_channels` channel by channel with the stop event between them. An
operator edits one field of the file or of an OpenEvent channel at a time, also while the worker is
down or has been refused.

**ImCodec** has the checks of `normalizer.py`, the three encoders (`EncodesX`: does it return;
`EncodeX`: what) and `ParsesMessage`. A field holds `Bad` or `Absent` when it does; a nested JSON
object is reduced to whether it holds a key `source_principal` and whether it can be written as
UTF-8. **LarkMessages** has the two layouts in which Lark reports a message and the adapter's
functions for each.

**MessagePath** composes these three: an event is parsed, mapped to a principal, encoded and
published, requests are executed, and a scan computes from the log (`ScanHistory`, with the
recursive function `Scanned`) the marks the process should have. It is coarser than `P2PSyncer` in
its steps and finer in its values.

**SortedSeqs** is the increasing sequence of a finite set of numbers, used by `LivePoll`,
`ProviderMessagePuller` and `MessagePath`. The community modules have such an operator
(`SetToSortSeq`), but define it by one whose result no theorem describes.

## 3. What the runs check

| Run | Instance | What it shows |
| --- | --- | --- |
| `core` | 2 channels, 2 requests (repeated, conflicting, refused by the provider, or written by a user), a `send.result` not written by the worker, a user who also posts in the other session, 1 user message, 2 faults, redelivery; about 645,000 states | `TypeOK`, `ResultsInRequestOrder`, `ResultsNameTheirRequest`, `RecordsOnce`, `RecordsLinked`, `HistoryRestorable`, `NothingSkipped`, `RecordsInOrder`, `StateMatchesLog`, `RequestsKept`, `ConflictsStopWork`, `RecordsWaitForIngested`, the proofs' inductive `StreamInv`, and the refinement `ImplementsChannelSync` |
| `core_liveness` | 2 of: two requests in one channel, one in the other that the provider refuses; 1 user message, 1 fault; about 117,000 states | `RequestsAnswered` (unless an older request, or this one, is refused), `MessagesRecorded` (unless a request is refused) |
| `publish` | 2 attempts, 2 messages of others, pages of 1, every limit on the size, late commits or not | `ImplementsAtomicPublish` (at most one copy in one form, truthful answer, without late commits), `PublishedIsCommitted` (with them), `PublishEnds` |
| `poll` | log of 4, 1 failing call, every page boundary | `ProcessedInOrder`, `TickSeesSnapshot`, `SnapshotFixed`, `MessagesProcessed`, `ImplementsIngestRounds` |
| `puller` | 2 sessions, 3 messages, pages of 2, queue of 2, 1 reconnection, worker clock ahead by 2; about 3 million states | `NothingLost`, `ImplementsAckedStream` |
| `shutdown` | the whole process, 2 reconnections; about 10,100 states | `ProcessEnds`, `SuccessOnlyOnRequest`, `StreamsClosedOnFailure`, `MissedNoticed` |
| `messages` | 2 channels of one app, up to 2 edits of any field, a log of 3, edits and log together at most 3; 16 kinds of chat messages, 9 of posts; about 435,000 states | `StartsIffDocumented` (the worker runs with a configuration exactly when IM-P2P-SYNCER.md allows it), `RoutesBothWays`, `PathsAgree` (listed and pushed messages give the same event), `ReplaysAsMarked` (a scan of what was written gives what the process had marked) |
| `publish_late`, `puller_skip`, `puller_buffer`, `shutdown_exit`, `source_principal` | | violations, see section 6 |

Each property of a passing run has a mutant in `PROJECT.json`: an operator beside the original
(its comment begins with "Mutant") that changes the code the way a bug would, and that
makes the property fail in the same instance.

**Bounds, and why they are enough.** Two channels show blocking and independence, and
two requests are the least that has an order. One user message beside the messages of the
requests gives three chat messages, so a record can precede, separate or follow results, and with
`HistoryLookback = 2` a message can be older than the lookback. A
fault is a crash, a lost answer of a send or a lost answer of a publish, at any step,
followed by a whole replay; with two of them a restart can itself be interrupted, or the
send and its result both be unanswered. In `core_liveness` the lookback reaches all messages:
older ones are given up by design. Pages of 1 make every message a page boundary; in `puller` pages
of 2 also leave messages of a page waiting while the window or the connection changes.
A queue of 2 with 3 messages overflows, and in `puller_buffer` two messages of one session fill it
before the third, of the other session, comes. `HistoryOverlap = 1` lets windows overlap by one
message; `ClockAhead = HistoryOverlap + 1` is the largest lead at which nothing is lost. Two
reconnections in `shutdown` let one be missed behind the other. Two edits break any pair of checks
at once, or break one and repair it; one that repairs two mistakes is not needed, since every
refusal is of a single field or of a pair. A log of 3 holds a request, its result and the
record of its message.
`MaxCallerMessages`, `MaxUserPosts`, `MaxFaults`, `MaxOthers`, `MaxLog`, `MaxFailures`,
`MaxPosts`, `MaxReconnects` and `MaxEdits` are the only bounds that are not parameters of the
program.

Deadlock is checked for `P2PSyncer`: a worker that is down can always be started and one that
is idle polls. The other modules end by design (a publish is answered, a worker or a process
stops, a log is full) and switch it off.

## 4. Fairness

- `P2PSyncer`: weak fairness of the worker's steps (it is a loop that never blocks for
  ever), which include `Start`, as the process manager restarts it (IM-P2P-SYNCER.md, checklist
  item 14), and strong fairness of `CollectMessage` for each channel: the stream does not
  withhold a session's next message for ever. This is an assumption about the puller, and it holds as
  long as no session's history queries fail for ever: `puller_skip` and `puller_buffer` show the two
  ways in which one session's failures hold up another's messages. With both sessions healthy TLC
  finds `SessionsIndependent` to hold (`MCPullerBuffer.cfg` with `Healthy = {a, b}`, and also with
  `MaxPosts = 2`, `MaxReconnects = 1`); these variants take four minutes each and are not among the
  runs. The faults are bounded, so what is repeated after a restart is eventually done without one; a
  request the provider refuses is no fault but refused every time, and what it holds up is what the
  two properties except.
- `ImPublish`, `LivePoll`: weak fairness of the worker only. Calls may fail as they like within the
  bounds on attempts and failures.
- `ProviderMessagePuller`: weak fairness of the pulling thread and of the SDK (it reconnects or
  reports an error); strong fairness that a retry delay passes, that the processor acknowledges
  and that a query of a *healthy* session, made again and again, succeeds. Sessions that are not
  healthy may fail for ever.
- `WorkerShutdown`: weak fairness of the main thread, of `stop`, whose joins have time-outs, and of
  the worker unless a call of it hangs (`Hang`; the bounded join must cope with that); strong
  fairness of `Fetch`: OpenEvent does not fail transiently for ever; and of `TakeMessage`: a full
  queue of pending events, which lets a tick skip it, does not stay full (`MessagesRecorded`). A lost connection is regained or its time-out passes. Nothing is
  assumed of the first connection, the operator or the SDK otherwise.
- `MessagePath` and `core` are checked for safety only and need none.

## 5. What is proved

| Theorem | Module | Statement |
| --- | --- | --- |
| `TypeCorrect` | `P2PSyncerProofs` | `Spec => [](TypeOK /\ WorkInHand)` |
| `ResultsOrdered` | `P2PSyncerProofs` | `Spec => []ResultsInRequestOrder` |
| `ResultsNameRequests` | `P2PSyncerProofs` | `Spec => []ResultsNameTheirRequest` |
| `RequestsAreKept` | `P2PSyncerProofs` | `Spec => []RequestsKept` |
| `ConflictsStop` | `P2PSyncerProofs` | `Spec => []ConflictsStopWork` |
| `RecordsWaited` (*) | `P2PRecordProofs` | `Spec => RecordsWaitForIngested` |
| `RecordsAreOnce` (*) | `P2PRecordProofs` | `Spec => []RecordsOnce` |
| `RecordsAreLinked` (*) | `P2PRecordProofs` | `Spec => []RecordsLinked` |
| `MemoryIsLog` (*) | `P2PRecordProofs` | `Spec => []StateMatchesLog` |
| `HistoryIsRestorable` (*) | `P2PRecordProofs` | `Spec => []HistoryRestorable` |
| `StreamsSkipNothing` (*) | `P2PRecordProofs` | `Spec => []NothingSkipped` |
| `RecordsAreInOrder` (*) | `P2PRecordProofs` | `Spec => []RecordsInOrder` |
| `StreamsAndRecords` (*) | `P2PRecordProofs` | `Spec => []StreamInv` |
| `WorkerIsChannelSync` (*) | `P2PRecordProofs` | `Spec => ImplementsChannelSync` |
| `PollTypeCorrect` | `LivePollProofs` | `Spec => []TypeOK` |
| `PollProcessesInOrder` | `LivePollProofs` | `Spec => []ProcessedInOrder` |
| `PollKeepsRoundEnd` | `LivePollProofs` | `Spec => SnapshotFixed` |
| `PollTicksOnRounds` | `LivePollProofs` | `Spec => TickSeesSnapshot` |
| `PollIsIngestRounds` | `LivePollProofs` | `Spec => ImplementsIngestRounds` |
| `TypeCorrect`, `AnswerCommitted` | `ImPublishProofs` | `Spec => []TypeOK`, `Spec => []PublishedIsCommitted` |
| `PublishIsAtomic` | `ImPublishProofs` | `Spec => ImplementsAtomicPublish` |
| `AtMostOneCopy` | `ImPublishProofs` | `Spec => [](~late_commits => PublishedOnce)` |
| `PullerTypeCorrect` | `PullerProofs` | `Spec => []TypeOK` |
| `PullerLosesNothing` (clock) | `PullerProofs` | `Spec => []NothingLost` |
| `PullerIsAckedStream` (clock) | `PullerProofs` | `Spec => ImplementsAckedStream` |
| `TypeCorrect`, `SuccessWasRequested`, `StreamsClosed` | `WorkerShutdownProofs` | `Spec => []TypeOK`, `[]SuccessOnlyOnRequest`, `[]StreamsClosedOnFailure` |
| `PathTypeCorrect` | `MessagePathProofs` | `Spec => []TypeOK` |
| `WorkerStartsIffDocumented` | `MessagePathProofs` | `Spec => []StartsIffDocumented` |
| `WorkerRoutesBothWays` | `MessagePathProofs` | `Spec => []RoutesBothWays` |
| `BothWaysAgree` | `MessagePathProofs` | `Spec => [](FromTheApp => PathsAgree)` |
| `ReplayRebuildsMarks` | `MessagePathProofs` | `Spec => []ReplaysAsMarked`, if `JSONObjects` and `OthersRecordNothing` |
| `SendRequestReadBack`, `SendResultReadBack`, `SyncRecordReadBack` | `MessagePathProofs` | what an encoder returns is parsed again (if no `source_principal` is in its content) |

With these every safety property of every passing run is stated by a theorem: the run shows it on
one instance, the theorem for every value of the constants that satisfies the assumptions of the
modules and the hypotheses that follow.

The theorems about the worker hold for every set of channels, principals, request ids, contents
and caller messages that satisfies `RuntimeAssumption` and `P2PAssumption` (the guarantees of a
valid configuration: a user and a bot per channel, both different from the worker, and no one else
writing as the worker), and for every value of the bounds. Callers need not follow the protocol.

Hypotheses of single theorems, and why they are there:

- (*): `CallersRecordNothing`, no other client writes a `sync.record`. It is needed, not convenient:
  `_process_live_message` (`syncer.py:258`) ignores a record it reads while it runs, and
  `add_sync_record` counts it in the next scan, so that a participant's own record would make memory
  and log differ (see section 7). IM_PROTOCOL.md section 3 leaves `sync.record` to the worker.
  `OthersRecordNothing` is the same for `MessagePath`, where a record that cannot be parsed is allowed.
- (clock): `ClockAhead <= HistoryOverlap + 1`, the worker's clock leads the provider's by no more than
  the overlap and the resolution of the model. With a larger lead TLC finds messages lost: a
  reconnection opens a window that begins after a message that was missed. The refinement also needs
  `ClockAhead <= HistoryLookback`, so that the first window does not begin in the future.
- `FromTheApp`: Lark names the sender of an app's message `app`, and the app is the connected one. The
  pushed layout holds no id of the app, so the adapter takes its own (`lark_openapi.py:247`), while
  the history carries one.
- `JSONObjects`: the two values that stand for a missing or malformed field are not payloads.

*TypeCorrect.* `TypeOK` is not inductive: that `message_id` or a pending event is a chat
message, that the range being read is in the log and that there is a task while a call for it
is made are facts about the phase. `TypeInv` adds them as `WorkInHand`, and the theorem states both. There is a lemma per
operation of `RuntimeState` and one step per action.

*The invariants* (`P2PSyncerInv`, each containing the one before it; `StreamInv`, the whole, is
checked by TLC in run `core`):

1. `AnswerInv`: the dictionaries are a function of the part of the log that was read
   (`CanonicalIsFirst`, `CompletedAreAnswered`, `PendingIsUnanswered`), the task in hand is the
   oldest pending one (`TaskIsOldest`), every result answers the first request of its id
   (`ResultsAnswerFirst`) and the answered requests are a prefix of the requests
   (`AnswersArePrefix`). A new result answers the oldest unanswered request, so it extends the
   prefix and has a larger `prev_seq` than all before it: *ResultsOrdered*. `ReadBounds` is needed
   because other messages are appended behind the reader, and because a scan decides nothing until
   it has passed the last result. Facts of the log (`LogInv`, kept by an exit) and of the memory
   (`MemoryInv`, reset by it) are treated apart. *RequestsAreKept* follows.
2. `ChatInv` adds the chat: a message the bot sent was sent once and for a request that every scan
   has read before the worker acts (`SentAfterReading`); results name such messages
   (`ResultsNameMessages`); the links are those of the results known so far (`LinksAreResults`);
   what was read was in role (`ReadInRole`). Hence *ResultsNameRequests* and *ConflictsStop*.
3. `RecordInv` adds the records: `inbound_seen` holds exactly the keys of the records read or
   written, and the message in hand is not among them (`RecordsSeen`); its channel has no pending
   request (`RecordReady`), so that the request it was sent for has its result and the link is
   there (lemma `LinkInHand`). Hence *RecordsWaited*, *RecordsAreOnce*, *RecordsAreLinked*,
   *MemoryIsLog* and *HistoryIsRestorable*.
4. `StreamInv` adds the streams: one message per channel is pending, behind its cursor
   (`InFlightOnce`), and the resume point is that of a recorded message (`LatestRecorded`). Nothing
   skipped and in order then imply each other's step: a record is written for the message behind
   which nothing is unrecorded, and a window that resumes at the newest record skips nothing
   because records are in order (lemma `ResumePoint`).

*WorkerIsChannelSync.* A step changes the log or the chat, never both (`OneSideChanges`). A message
added to the chat is a `Post`, or the `Deliver` of the oldest unanswered request
(`TaskIsOldestRequest`, from `AnswerInv`). A message added to the log is an `Ask` if it is the first
request of its id, the `Answer` of the task in hand, the `Record` of the message in hand, or
nothing. Exits change neither side, which is why the refinement needs no history.

*LivePollProofs.* `PagesInv`: what was read is cut at one position. The mapped messages up to it, in
order, are those processed followed by the rest of the round; those behind it, up to `next_seq`, are
prefetched. A page moves `next_seq`, the end of a round moves the cut, and a message processed moves
from the round to `handled`, so the concatenation changes only where the page is appended
(lemmas `PageIsMapped`, `FetchPageInv`; `SortedConcat` of `SortedSeqProofs`: the sorted sequence of
a set and of another above it is the one after the other). All five theorems follow from it.

*PullerProofs.* `PullInv` follows a message that is due (posted after the session's start, not
delivered and not yet in a page that was read): it is in the queue or the buffer, in the window of
its session, or it was missed, and then a reconnection has happened or will (`GapsReopened`). The
part that is not obvious is the order of the checks in `take_message`: an event may be queued behind
a gap (`GapsBeforeEvents`), but none that can be delivered is (`NoGapBeforeLive`), because the
generation is compared after the event was collected. The new window begins before all that is due
(`ReplacementReaches`), which is where the clock hypothesis enters, by `MarkInv`: no mark is further
ahead of a due message than the overlap. In the refinement a delivery is a `Deliver` because
everything older in its session was delivered.

*MessagePathProofs.* There are three parts.

1. `StartupInv`: each phase keeps what was checked before it, a refusal has a documented reason, and
   the index is that of the configuration that was parsed. The documented conditions are then compared
   with the checks parser by parser. *RoutesBothWays* follows from the checks of the index.
2. `MarksInv`: a task is the first request of its id and has no result (`WellMarked`), and at most one
   message of the log is unread; *PathTypeCorrect* needs it, since a mark points to a message.
3. `ReplayInv`: replaying the log up to what is marked gives the marks. A step appends the worker's own
   message, whose replay marks what the step marked (`AnswerReplays`, `RecordReplays`), or the message
   of another, which the live poll marks as the replay does; a longer log leaves the replay of its
   prefix unchanged (`ScannedKept`). `Scanned` is a recursive function, and what is shown of it for
   every position is shown by lemma `Climb`, which derives a contradiction from the least position
   without the property: the library's induction theorems cannot be used here.

*ImPublishProofs.* `CopyInv` says where a committed copy may be: none before an attempt, above the
first watermark after it, and during the scan between what is still to be scanned and the second
watermark. It fails with late commits, so the two theorems on copies are conditional on
`~late_commits`; `publish_late` shows that they must be.

*WorkerShutdownProofs.* `ErrorInv` (an exception is the worker's last act before `stop`, and without
a signal or an exception nobody stops and the worker does not end), `StopInv` (who is inside `stop`) and `ClosingInv` (the adapter lets go only of a stream it has told to stop).

Only model-checked: the liveness properties `RequestsAnswered`, `MessagesRecorded`, `PublishEnds`,
`MessagesProcessed`, `ProcessEnds` and `MissedNoticed`. They rest on fairness
and `ENABLED`, which are out of the prover's reach; the refinements are of safety.

## 6. Where code and documents disagree

Each item is a run that TLC finds violated; the counterexample is the run's output.

1. `publish_late`: "proved not committed" holds only if the server commits nothing after the
   second watermark was read (`client.py:183`); otherwise the retry writes a second copy.
2. `source_principal`: `encode_sync_record` (`codec.py:112`) copies the provider's content without
   the check that `parse_payload_object` applies at every depth. A message whose content holds the
   key `source_principal` is committed, and every later scan refuses the log
   (IM-PROTOCOL-SDK.md:130, IM_PROTOCOL.md:120).
3. `puller_skip`: the session cursor moves inside the loop that is indexed by it
   (`provider_messages.py:96`); with three sessions a failing first and last one starve the middle one.
4. `puller_buffer`: the buffer of pushed events is shared by the sessions
   (`provider_messages.py:132`). A session whose history query keeps failing is not given its events;
   they fill the buffer, and the events of the others stay in the adapter's queue until that
   overflows and ends the worker. IM-P2P-SYNCER.md:239-242 and 274 promise that others continue.
5. `shutdown_exit`: a stop while the stream connects, or between a tick's check and its pull, ends
   as an unsuccessful exit (`cli.py:56`).

Smaller ones that follow from the models and have no run of their own:

- A `GetStatus` refused with `RESOURCE_EXHAUSTED` degrades the record although nothing was too large
  (`loop.py:247`). IM_PROTOCOL.md:124-128 demands the degraded form when the payload is too large and
  does not say that it is reserved for that. No property judges it.
- A record may be committed after a request of its channel was committed but not yet fetched
  (`loop.py:117`); IM_PROTOCOL.md section 5 forbids records while a request is unfinished.
  `RecordsWaitForIngested` is what the code guarantees.
- IM-P2P-SYNCER.md section 6 lets the worker wait for a missing principal token; section 9 and the
  code (`mapping.py:88`) refuse to start. `StartsIffDocumented` follows section 9.
- The history scan does not retry a transient `Fetch` failure (`syncer.py:142`, action
  `ScanFetchFails`), against the wording of IM-P2P-SYNCER.md section 5.
- Once a stop was requested, a `Fetch` that fails permanently (`syncer.py:201`) and a publish waiting
  for its next attempt (`loop.py:317`) end the worker without an error, and the process exits
  successfully. What is unfinished is left to the next start; `SuccessOnlyOnRequest` is what holds.
- After a reconnection the window starts from the end of the last one rather than from the
  confirmed message (`provider_messages.py:208`); within the clock assumption nothing is lost by it.
- A stop during the last page of the scan finds no stream, and the worker then opens one that
  nobody closes before the process ends (`syncer.py:66`).

## 7. Assumptions and what is not modelled

- `stop` returns. The adapter's `disconnect` has a time-out of two seconds while the SDK's loop runs
  and none of its own otherwise (`lark_event_stream.py:149`); the join after it is bounded.
- `NothingSkipped` excepts messages older than the lookback in every session, although in a session
  with records the code reaches back to the newest of them.
- The provider deduplicates sends by the uuid derived from `request_id`, for ever.
- A chat message is visible to history queries as soon as it is posted, and pushed in order.
  IM-P2P-SYNCER.md section 5 itself says that arbitrarily late visibility cannot be recovered.
- The worker's clock is ahead of the provider's by at most the overlap plus the resolution of the
  model (`puller`), and not behind. `history_retry_delay_ms` is positive: with 0 a failing query is repeated within one visit of the loop.
- `MessagePath` and `WorkerStartup` assume of their constants only that the numbers are numbers, that
  the two values for missing and malformed fields are no field's value, that the first file
  is one a parser can be given and the first channel ids are of 64 bits (`StartupAssumption`), and that posts are not the worker's
  (`PathAssumption`): OpenEvent authenticates a writer, and the worker's token is its own.
- OpenEvent is an append-only log; `Fetch` returns what is committed, in order, and moves forward.
  A publish is atomic only if a call that was given up commits nothing later (`late_commits`).
- The puller reads the clock and the generation in one step when it starts: a message posted, or a
  connection lost, within the few instructions from `provider_messages.py:57` to 67 is not modelled.
- `acknowledge` raises on a wrong session or message; the processor only acknowledges what it was given.
- A `sync.record` written by a participant is refused or counted only by the next scan
  (`syncer.py:258`); the runs and the marked theorems leave such records out.
- The mapping of a channel that has a history is not changed: the replay would check old messages
  against the new principals (`syncer.py:272`). In `messages` the file is edited before the first message.
- Content that is no UTF-8 (a lone surrogate) ends the worker in `encode_payload` (`codec.py:20`);
  `MessagePath` has it, and since no document says what should happen, no property judges it.
- Message texts, JSON syntax, the canonical form, formatting, logging, HTTP and the internals of the
  SDKs are left out; a name is a value, a nested JSON object two facts about it.
- The worker never writes a `FAILED` result and other principals' results are refused, so the
  terminal branch of the replay is modelled but not reached from the worker's own log.
- A worker composed of the three detailed modules (`LivePoll`, `ImPublish`, `ProviderMessagePuller`)
  is not checked as one model; its state space would multiply. `P2PSyncer` stands on their
  abstract specifications instead.
- The adapter registry, the hash of a `request_id` and the data classes have no state to model;
  OpenEvent's server and the provider are not in this repository.

## 8. Plan

Done: the worker (`RuntimeState`, `P2PSyncer`, `ChannelSync`), the three calls it rests on, process,
stream and shutdown, configuration, mapping, codec and adapter; every safety property of these and
all four refinements are proved.

Left, in order of value:
1. The start of the puller in three steps (stream, clock, generation), with a property of what is
   posted between them, and its place in `PullInv`.
2. Logs with records of participants: which of `StateMatchesLog` and `HistoryRestorable` can be kept
   without `CallersRecordNothing`.
3. A worker composed of its detailed parts, by the theorems rather than by TLC: `P2PSyncer` with the
   abstract specifications as its environment.
