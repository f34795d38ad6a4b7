# TLA+ specifications of viewhelper

viewhelper listens to a conversation on a PC, transcribes it, and shows the
transcript and answers of a language model on a phone. The PC and the phone both
connect to a small relay, which forwards events between them. These modules
specify the parts of that program whose behaviour depends on the order in which
things happen, the TLC configurations check them on small instances, and
`*Proofs.tla` prove the central properties for every instance.

Run a check from this directory with `tlc -config <file>.cfg <module>` and a
proof with `tlapm <module>.tla`.

## 1. The system

Three programs and what connects them:

    microphone, loopback -> ASR worker threads -> services -> transport ==> relay ==> phone
    hotkeys, phone commands ----------------------^    |
                                         SQLite, screenshot files

### Desktop (`src/desktop/src`), one asyncio loop and a few threads

| Component | State it keeps | Operations | Talks to |
| --- | --- | --- | --- |
| Answer controller `services/llm_runner.py` | the single slot `_active`/`_task`, per attempt the text so far | `submit`, `cancel`, `shutdown`, the run task | LLM client, SQLite, `emit` |
| Question handlers `services/llm_dispatcher.py`, `conversation_service.py`, `screenshot_service.py` | none of their own | `handle_llm_request`, `handle_llm_cancel`, `answer_latest`, `analyze_image` | the controller, SQLite |
| Relay transport `transport/websocket.py`, `reconnect.py` | socket, connected flag, out queue of 256, backoff | connect, authenticate, reader, writer, heartbeat, `send_event`, `stop` | relay, all handlers |
| ASR pipeline `asr/pipeline.py`, `vad.py` | open utterance, preroll, stream position, VAD state | one audio block at a time, forced finalize, flush, `unload` | audio queue, transcription service (across threads) |
| Transcription, history `services/transcription_service.py`, `history_service.py` | the running tasks | store and announce partial and final sentences, history, clear | SQLite, `emit` |
| Screenshots `services/screenshot_service.py`, `screenshot/*` | hotkey debounce | capture, store, announce, delete, clear | SQLite, files, controller |
| Database `storage/sqlite.py` | sessions, messages, answers, screenshots | each call one lock and one transaction | all services |
| Settings `config/settings.py`, `services/settings_service.py` | configuration in memory and in a file, listeners | load, `update`, `save`, push to the phone | pipelines, services |
| Providers `config/env.py` | none after the start | environment to credentials, backup and primary | the controller |
| Capture devices `audio/*` | a device stream, a queue of blocks | open, read, close | PortAudio, the pipeline |
| Program `main.py`, `util/supervisor.py`, `util/sentinel.py` | stop event, tasks, stop file | start, restart after a crash, staged shutdown; `stop.ps1` writes the stop file | everything |

### Relay (`src/backend/app`)

One handler per socket: authenticate, watch the room, set or read the PC's
presence, `auth_ok`, subscribe, then route frames by type. Presence is a value
with a time to live, refreshed by heartbeats, swept every three seconds, in
memory or in Redis when several instances share a room.

### Phone (`src/frontend`)

A reconnecting socket (`lib/realtime/ws-client.ts`), the merge of live events and
history into the conversation (`hooks/use-realtime-conversation.ts`), the single
active answer (`hooks/use-streaming-answer.ts`) and the screenshot list.

### What is hard, and what makes each part correct

* Answer controller. Requests come from the phone, from hotkeys and from capture
  tasks; cancels, timeouts, fallback to a backup provider and shutdown meet in one
  task. Correct: one run at a time; text of one provider only, stored as it was
  streamed; one ending per request, equal to the stored status, and the slot free
  once it is announced; every run ends.
* Transport. The out queue outlives the socket, the reader does not; frames may
  come before `auth_ok`. Correct: order is kept, what is lost is lost only when
  offline or when the queue is full, stop ends everything, backoff grows until a
  connection was authenticated.
* Relay presence. Handlers of two generations of a PC socket, phones that connect
  while presence changes, instances that die. Correct: when nothing is in
  progress, every phone shows whether the PC is there; a heartbeat repairs what a
  late disconnect broke.
* ASR pipeline. A worker thread against the loop that stops, unloads and restarts
  it. Correct: every utterance that began ends once, with all its audio, in order.
* Sentences, answers and screenshots against clear, delete and history. Correct:
  the database, the files and the phone agree when nothing is in progress.
* Settings. Correct: memory, file, listeners and phone agree also after a failure.
* Shutdown. Correct: nothing is written after its target closed, the last sentence
  is stored, no task survives.

`PROJECT.json` lists the hazards one by one, at the line where each can bite, with
the properties that cover it.

## 2. The modules, and the plan

Each module is written to be proved about: parameters are constants with named
assumptions, one action per operation, no recursive operator. `MC*.tla` hold the
model values of the instances and nothing else.

| Module | Part of the program | With | State of the work |
| --- | --- | --- | --- |
| `LlmRunner` | answer controller and the reader that feeds it | implements `AnswerProtocol` | checked; `LlmRunnerProofs` |
| `RelayPresence` | handlers and presence of the relay, the phone's view | | checked; `PhoneProofs` |
| `RelayTransport` | the desktop's connection | implements `LossyChannel` | checked; `RelayTransportProofs` |
| `PhoneAnswers` | the phone's answers | rests on `LlmRunner` and a lossy channel | checked; `PhoneProofs` |
| `AsrPipeline` | speech, from block to stored sentence | | checked; `AsrPipelineProofs` |
| `ConversationSync` | sentences, answers, clear and history, the phone's bubbles | rests on `AsrPipeline`, `LlmRunner` | checked; `ConversationSyncProofs` |
| `ScreenshotStore` | captures, files, rows, the phone's list | rests on `LlmRunner` | checked; `ScreenshotStoreProofs` |
| `Configuration` | settings, their file, the pipelines and the phone that follow them | uses `Providers` | checked; `ConfigurationProofs` |
| `Program` | start, stop file, staged shutdown, capture device | extends `Supervision` | checked; `ProgramProofs`, with those of `Supervision` |

Bounds for all of them: two or three actors and two or three messages, which is
what it takes for one operation to run into another and for a third to see the
result.

Every invariant that a passing run checks is also a theorem, and so are both
refinements and the other action properties. What TLC alone checks is liveness,
which is out of the prover's reach, and the three violations: each is a promise of a
docstring, a test or the PRD that the code does not keep, quoted in `PROJECT.json`
under `findings`. Other promises fail for causes that the properties of a passing run
name, so that the run checks that there is no other cause; each section lists them
under what its properties leave open. Still to do: as a theorem, what of presence holds
of several processes of the relay; as a model, the two-step drop of a full audio
queue.

## 3. The answer controller

### `LlmRunner`

One action is the code between two suspension points of the loop. The state and
where it lives in the program:

| Variable | Program |
| --- | --- |
| `inbox`, `stops` | frames received by the socket and not read yet; how often the phone pressed stop |
| `reader` | what `RelayTransport._reader_loop` is awaiting: nothing, the database lookup of a request, the database write after a screenshot submit, or a cancelled run |
| `phase` | per request: new, asked, loading, refused, dropped, scheduled (task created), streaming, closing (budget expired), over |
| `active` | `LlmRunner._active`; `_task` is set and cleared with it |
| `cancelling` | `task.cancel()` was called |
| `attempt`, `parts` | the provider attempt and `_AttemptState.parts` |
| `chunks`, `heard`, `endings` | events handed to the transport |
| `row` | the row of `ai_answers` |
| `stopped` | `LlmRunner.shutdown` has run |

| Action | Program |
| --- | --- |
| `DispatchRequest`, `Loaded` (`Submit`, `FailToLoad`), `ModelRecorded` | `handle_llm_request` with the service it calls, `LlmRunner.submit`, the refusal |
| `DispatchCancel`, `CancelDone` | `handle_llm_cancel`, `LlmRunner.cancel` before and after its wait |
| `SpawnLocal`, `CancelLocal` | `ServiceBase.spawn_threadsafe` from a hotkey, `cancel_tasks` at shutdown |
| `Start`, `BodySkipped` | the task's first step, or a task cancelled before it |
| `Delta`, `StreamEnds`, `StreamFails`, `Timeout`, `StreamClosed`, `Unwind` | `_stream_attempt` and the branches of `_run` |
| `Shutdown`, `LoseConnection` | `LlmRunner.shutdown`; the end of `RelayTransport._session` |

Abstractions. Text is the sequence of the providers that produced each delta.
`llm_stats` only refreshes a display and is part of the delta. An event is recorded
when it is handed to the transport, so losses on the way are not part of this
module. The database refuses a row or stores it. Closing an upstream response takes
a step of its own (`closing`) and does not fail. asyncio runs ready tasks in order;
the model allows any order, except that a task created before an await has taken
its first step when that await returns (`ModelRecorded`), which the ready queue
guarantees and which matters.

A reader that is cancelled while it waits for the run it cancelled does not
disappear: `cancel` suppresses `CancelledError`, so it announces `llm_cancelled`
and only then ends; `LoseConnection` leaves it in place.

### `AnswerProtocol`

What the phone is promised about each answer: unseen, then open, then ended; text
only grows while it is open; the row is settled, once and with the whole text,
before the ending is announced or instead of it. `LlmRunner` implements it under
the mapping at its end (`KeepsProtocol`).

### Runs

| Run | Instance | What it shows |
| --- | --- | --- |
| `LlmRunner.cfg` | a phone question about a screenshot and a hotkey request, two providers each, two deltas, two stops each, a link that drops, a shutdown, fair; the phone stops only what it received an event about | one run; whole answers; endings free the slot, come once, and match the row; the protocol; every question that the link did not lose ends |
| `LlmRunnerLeak.cfg` | two phone questions and a phone that may stop what it has not heard about | a violation, below |

Two requests are enough for one to hold the slot while the other wants it; two deltas for text before and after a
failure; two stops for a repeated cancel; a chain of two for a fallback that may
itself fail. `CHECK_DEADLOCK FALSE`: the requests of an instance run out.

Fairness (`Fairness`): the loop runs ready tasks (`TaskTurn`, `ReaderTurn`), SQLite
answers (`Loaded`), and the wall clock reaches every deadline (`Timeout`). Nothing
is assumed of the provider, the phone or the link: a provider may stay silent for
ever, and `EveryQuestionEnds` rests on the timeout alone.

### What the runs found

`SlotReleased` fails for a phone that stops a question at once
(`LlmRunnerLeak.cfg`). The relay delivers `llm_request` and `llm_cancel` back to
back; the reader dispatches both before the loop gives the new task its first step;
`task.cancel()` on a task that has not started ends it without running any of
`_run`, so the `finally` block that releases the slot never runs. The phone is told
`llm_cancelled`, and every later question is refused as busy. The module's docstring
promises the opposite. `shutdown` has the same window, without consequence.

### Proofs (`LlmRunnerProofs`)

For every set of requests, every chain of providers and every bound, from
`LlmRunnerAssumption` (local and phone requests are different requests, `None` is
not a request, the constants have their types):

* `TypeCorrect`: `Spec => []TypeOK`, one lemma per group of actions.
* `Invariance`: `Spec => []Inv`. `OneRun` and `AnswerWhole` are not inductive: that a
  fallback starts from an empty answer rests on the attempt's text being all the
  text sent; that `llm_started` is not sent twice rests on each frame being for a
  request nobody serves. `Inv` therefore says, per request, what its phase implies
  about slot, events, text and row (`RequestInv`), that the reader waits for
  something that exists (`ReaderInv`), that queued requests are unserved and
  different (`InboxInv`), and that the slot holds a live run or one whose task never
  ran (`SlotInv`, the state the finding above is about). One lemma per action;
  `TaskStep` reduces the steps of a task to the request in the slot.
* `OneRunAlways`, `AnswerAlwaysWhole`, `ChunksAlwaysWithinRun`: from `Inv`.
* `ProtocolKept`: `Spec => KeepsProtocol`, every step of the runner is one of
  `AnswerProtocol` or a stutter. `FateInv` says what is known of a request that is
  through: an ending is only announced of a run whose row is settled, and a run that
  was stopped without a word has not announced one. The steps are grouped by who takes
  them (`ReaderProtocol`, `RequestProtocol` and the runs), as in `Next`.
* `SlotReleasedAlways`, `OneEndingAlways`, `EndingIsSavedAlways`, for a phone that stops
  only what it was told of (`EagerStop = FALSE`). All three are false for the other
  kind: its stop may end a task before its first step, as the leak run shows, which
  leaves the slot taken and no row, and a second stop is then announced once more.
  `EndingInv` carries that every stop frame on its way is for a request whose start was
  announced (`StopsKnown`), so that the task it cancels has taken its first step.

`ChunksWithinRun` is only proved; no run repeats it. Only model-checked:
`EveryQuestionEnds`, which is liveness.

## 4. Presence

### `RelayPresence`

One room of the relay: the handlers of the sockets in it, the presence value, the
sweepers, and what each phone shows. One action is the code of a handler between
two awaits on the shared layer.

| Variable | Program |
| --- | --- |
| `presence` | `get_pc_online`: the key in Redis or the entry of `_presence` and its deadline |
| `deployment` | how this relay is run: with Redis or without, in which processes, which of them a connection may reach; it never changes |
| `alive`, `home` | the relay processes that run, and the one a socket is connected to |
| `stage`, `read` | how far `ws_endpoint` is with a socket, and the presence it read before its last await |
| `sub`, `mail` | the subscriber task of a socket; the `auth_ok` and `presence` frames on their way to a phone |
| `silent` | the PC of this socket is gone, the relay has not noticed |
| `view` | `pcOnline` of `RealtimeProvider` |
| `last`, `sweep` | `PresenceTracker._last_broadcast` and the sweep in progress, per process |
| `missed` | history: an event fell into the gap of this phone |

| Action | Program |
| --- | --- |
| `Accept`, `SetOnline`, `Announce`, `Note` | `ws_endpoint` and `pc_connected` of a PC |
| `Accept`, `ReadPresence`, `Greet`, `Subscribe` | the same of a phone, and the first step of its subscriber task |
| `BeatRead`, `BeatSet`, `BeatAnswer`, `Note` | `_route_message` and `pc_heartbeat` |
| `GoSilent`, `Close`, `SetOffline`, `Retract`, `NoteRetracted` | a lost network; the `finally` block with `unwatch` and `pc_disconnected` |
| `Expire` | the time to live of the presence |
| `SweepRead`, `SweepCompare`, `SweepNote` | `_sweep_loop` |
| `Deliver` | `WsClient.handleMessage` |
| `Crash` | a process that dies with its sockets |

`Redis`, a part of the deployment, chooses how fine the interleaving is. Every `await` on `RedisPubSub`
suspends; the coroutines of `InMemoryPubSub` contain no suspension point, so a
handler runs from one read of its socket to the next without interruption
(`MayRun`, `MaySweep`). The subscriber task starts in a step of its own in both.

The one assumption about time is `TtlElapsed`: fifteen seconds are three heartbeats
and five sweeps, so the presence does not expire while a connected PC beats, while
a handler is between two awaits, or while a sweep has something to say.

### Runs

| Run | Instance | What it shows |
| --- | --- | --- |
| `RelayPresence.cfg` | two connections of the PC that may overlap, in two deployments, fair: one in-memory relay with a phone; two relays that share Redis and may die, one for each connection | of one process: when nothing is on its way a phone that did not fall into the gap agrees with the relay, and it follows the PC's going and coming. Of both: heartbeats repair a late disconnect for good, and a PC that left ends up offline |

Two connections of the PC are what it takes for a late `finally` block to meet its
successor; two relays for one to die under one of them; phones do not influence each
other except by keeping the room watched, which the PC does too. The shared deployment
has no phone: what its phones show is not what they should, as described below.
`CHECK_DEADLOCK FALSE`: an instance runs out of sockets.

Fairness (`PresenceFairness`): a handler that can go on does (strongly: while it waits for
Redis others run, so it is not enabled all the time in the model), a living PC
beats, the sweeper sweeps, the time to live passes, an open socket delivers.
Nobody has to connect, to leave, or to notice a dead socket.

What the properties leave open, because the code does:

* The gap. A phone's presence is read before its subscriber exists
  (`websocket.py:228`, `241`). A PC that leaves in between is announced to nobody, and as
  the sweeper's dedupe value is right nothing repeats it: the phone shows the PC online
  until it reconnects, although the PRD asks for the right state after a reload (AC-11).
  `missed` marks such a phone; `PhonesAgree` and `PhonesFollow` speak of the others.
* Several processes. A sweep reads the presence before an await (`presence.py:115`). If
  the PC leaves meanwhile, the sweep publishes the old value after the retraction; then
  the PC's process no longer watches the room, and the phone's has broadcast nothing,
  which the sweeper takes for no difference. The phone shows a PC that left as online.
  `presence.py:14-15` says that instances agree; of what their phones show that is false.
  TLC finds it when `~Redis` is dropped from `PhonesAgree` and a phone reaches the second
  relay. Of one process the property is checked and proved: nothing runs between the
  read of a sweep and its broadcast.
* A process that dies. The key of its PC expires in Redis, but each sweeper compares with
  what its own process broadcast, so that no other announces the expiry, although
  `presence.py:5-6` says that the relay does within fifteen seconds. `AbsenceNoticed`
  shows only that the value expires. `PhonesFollow` fails the same way without `~Redis`.

Not modelled here: the frames other than presence, a Redis that fails, and the
subscription of the PC itself, which carries only commands.

### Proofs (`PhoneProofs`, second part)

`PhoneProofs` holds what is proved about what a phone shows: its answers (section 6)
and who is online. It extends both modules, which share no state; `RelayPresence`
therefore has names of its own for what every specification has (`PresenceInit`,
`PresenceSpec`). For any number of connections, from `RelayPresenceAssumption`:

* `PresenceTypes`: `PresenceTypeOK`, in one process or several.
* `PhonesAlwaysAgree`: `PhonesAgree`, which speaks of a relay without Redis, from
  `PresenceInvariance`. Such a relay is one process (`InMemory`) and has no `Crash`: it
  takes the presence with it. That no two handlers are between awaits at once is part of the
  invariant (`Serial`), not assumed. The heart of it is `ToldInv`: the last word a
  phone has received, or has on its way, is the presence, or somebody still owes it
  one, a handler of the PC about to broadcast or the sweeper (`Owed`). That the sweeper
  owes it when the presence expires rests on `OnlineInv`: a PC that is online has
  somebody who vouches for it, a handler that is about to broadcast or a last
  broadcast that said so. `PublishReaches` is why `missed` is the only exception:
  whoever is not yet subscribed when a word is published has missed it.

Of what phones show on several processes nothing is claimed. `HeartbeatRepairs`,
`AbsenceNoticed` and `PhonesFollow` are liveness and only model-checked.

## 5. The desktop's connection

### `RelayTransport`

| Variable | Program |
| --- | --- |
| `link`, `wire` | where `run()` is; its socket: none, up, or broken |
| `connected`, `stop`, `attempt` | `_connected`, `_stop_event`, `BackoffPolicy._attempt` up to the first attempt that overflows |
| `failures` | the same of the backoff of the supervisor |
| `queue`, `unfinished` | `_out_queue` and the count `join` waits for |
| `writer`, `hand`, `reader` | the tasks of a session; the envelope between `get` and `task_done` |
| `shutdown` | `main.py`: draining, in `stop()`, stopped, task cancelled |
| `offered`, `flight`, `received` | calls of `send_event`, frames in the socket, events the relay has |

| Action | Program |
| --- | --- |
| `SendEvent`, `Beat` | `send_event`, `_heartbeat_loop`, with `_enqueue` |
| `Take`, `Sent` | `_writer_loop` |
| `Connect`, `Opened`, `Unreachable`, `AuthOk`, `AuthFails` | `run`, `_connect_once`, `_authenticate` |
| `SessionOver`, `TornDown`, `Closed`, `Waited` | `_session` and the way back into `run`'s loop |
| `After`, `Crash`, `Restarted` | `next_delay`; `run()` raises its `OverflowError`, and `Supervisor.run` with the same backoff restarts it, or ends |
| `Command`, `Handled`, `ReaderEnds` | `_reader_loop` with an abstract handler, which may swallow its cancellation as `LlmRunner.cancel` does |
| `Drain`, `Stop`, `Stopped`, `CancelRun` | stage 6 of `shutdown()`, `stop()`, the cancellation of the tasks; as `GoDown` the end of a supervisor |
| `Break`, `Receive`, `Vanish` | network and relay |

Events are their numbers. A heartbeat is a frame of its own, which competes for the
queue; at most one is under way at a time (bound). Frames of an old socket arrive
or are lost before the next one opens, as a reconnect waits at least a second. The
relay sends the PC nothing but `auth_ok` or `error` before it authenticated, so
frames before `auth_ok` are not modelled.

`LossyChannel` is the abstract promise, and `KeepsOrder` the refinement: what is
pending (socket, hand, queue, without heartbeats) only loses elements, and events
arrive in the order of their calls, once.

| Run | Instance | What it shows |
| --- | --- | --- |
| `RelayTransport.cfg` | queue of two, four events, `LargestExponent = 1`, fair | the refinement, the count of `drain`, losses only for a cause; the PC has a working connection again or the program goes down, what is queued leaves the queue, a requested stop ends `run()` |

Two places and four events let a full queue drop more than once with an envelope in
hand; with `LargestExponent = 1` the third attempt in a row without `auth_ok` overflows
(the 1025th with an IEEE double). Fairness: ready tasks run, handlers return, timeouts elapse; strongly, a
writer takes its first envelope before its session can end (its task was created
first), and a relay that is tried again and again is reached and authenticates
some time. `StopEnds` is about `stop()`; a task that is cancelled without it, because
the shutdown overran its budget, may be held up by a handler, and
`arm_hard_exit_watchdog` is what ends the program then. A supervisor that ended takes
the program down (`GoDown`), which `run()` of the program sees at once.

Not promised either: `run()` says that it reconnects until it is stopped
(`websocket.py:198`), and does not. After 1024
attempts without `auth_ok`, some nine hours if each fails at once, `next_delay`
raises behind the handlers of its loop, and `run()` ends. Its supervisor starts it again,
but the transport's count stays, so that it now ends after every refused attempt,
until one is accepted or the backoff of the supervisor overflows as well and the
program goes down. `Reconnects` says that nothing worse happens.

Nor is this: `stop()` knows no socket while one is being
opened, and `_connect_once` does not look at the stop event, so the PC may
authenticate and be announced online after `stop()` returned, until the session
sees the stop event.

### Proofs (`RelayTransportProofs`)

For every size of the queue and any number of events, from
`RelayTransportAssumption`:

* `TypeCorrect` and `UnfinishedCountsAlways`: the count of `join` is what is queued or in
  hand. The two need each other: the type bounds the count by the queue and the hand.
* `ReceivedInOrderAlways`: the relay receives events in the order they were handed in
  and none twice, the safety core of `KeepsOrder`. It rests on `InOrder`, which orders
  received, in flight, in hand and queued pairwise, heartbeats apart, and on
  `NextIsNewest`. What a step does to a sequence is in two lemmas, `TailKeepsOrder` and
  `AppendKeepsOrder`.

* `ImplementsLossyChannel`: `Spec => KeepsOrder`. What is in transit in `LossyChannel`
  is the set of numbers in socket, hand and queue, without heartbeats; the order is in
  the numbers. A step only takes elements from it or puts the newest in
  (`EnqueuePending`), and what arrives is its least (`ReceiveOldest`, from `InOrder`).
* `LostForCauseAlways`: `Spec => LostForCause`.

Only model-checked: `Reconnects`, `QueueMoves` and `StopEnds`, which are liveness.

## 6. The phone's answers

### `PhoneAnswers`

The composition of the answer controller, a channel that may lose and
`use-streaming-answer.ts`. The desktop side is the controller without its tasks: the
slot (`serving`), how each request ended (`outcome`) and how much text it sent
(`written`). That it behaves so is what `LlmRunner` shows, up to its finding. The
phone side is the hook: `status` and `shown` are `answers`, `active` is
`activeRequestId` with the updates that wait for a render, `activeRef` the value of
the last render. React applies updates made in a socket's event handler in a task
of its own, so several events may be handled before `Render` (`batched` remembers
that it happened); a click is rendered at once (`Start`).

| Run | Instance | What it shows |
| --- | --- | --- |
| `PhoneAnswers.cfg` | two questions, one hotkey request, one piece of text each, one loss, fair | once everything has arrived without loss, the phone shows every answer as it ended, with all its text, and is free if it rendered every event before the next; without a loss every answer ends |

One stop frame per request is on its way at a time (bound). Fairness: what is not
lost arrives, the page renders, every run ends (`EveryQuestionEnds` of `LlmRunner`);
nobody has to press stop. The conditions of the properties are what the code needs:

* without `~batched`, `FreeWhenQuiet` fails: when the page
  handles the start and the end of a hotkey answer before it renders, the end compares
  with an old `activeRef`, the request stays active, and `start`, which the hook says
  does nothing while something is in flight, does nothing from then on;
* after one lost frame or event an answer may stay open for ever: `llm_cancel` for a
  finished request is not answered and history does not touch the answers.

That only one question of the phone is open at a time does not hold and is not
checked: a hotkey answer that crosses a question takes over the active request,
and its end frees the phone while the question still streams.

Each of the two views of the page has a hook of its own; one is modelled. A page
that is reloaded starts with nothing and is not modelled.

### Proofs (`PhoneProofs`, first part)

For any number of questions, hotkey requests, pieces of text and losses, from
`PhoneAnswersAssumption`:

* `TypeCorrect`, with the bound on the text that the types of the counters need: no more
  of it is on the phone and on its way than was written (`TextBound`).
* `Invariance`: `Spec => []Inv`. Both properties speak of a moment when nothing is on
  its way, so the invariant says what is on its way before: as long as nothing was lost
  (`Lossless`), a question is asked once and unknown to the desktop until it arrives
  (`AskedInv`); what is said of a request comes before its ending, which comes once,
  last, and as the desktop recorded it (`EndingFollows`, `EndingIsLast`); an answer the
  phone shows as open will be ended (`StatusInv`), and so will the active one if every
  event was rendered before the next (`ActiveInv`); the text on the phone and on its way
  is what was written (`TextInv`, by the lemmas on `Count`).
* `FreeWhenQuietAlways` (for a page that rendered every event before the next),
  `AnswersAgreeAlways`: from `Inv`, since in a quiet state the queues
  are empty and the slot is free.

`EveryAnswerEnds` is liveness and only model-checked.

## 7. The program

### `Supervision`

`place` and `attempt` are a supervisor's position and its backoff, `stop` and
`program` the program's stop event and progress. `Fails` is one run of a subsystem
with the backoff after it, `Waited` the end of its delay, `GoDown` the
`asyncio.wait` over all supervisors. The module has no run of its own: `Program`
extends it, and every one of its actions is a part of an action there.

### `Program`

The rest of the life of the process: the stop file, what the stages of the shutdown
do to the tasks that still run, and the device stream of a supervised pipeline.

| Variable | Program |
| --- | --- |
| `built` | `DesktopApplication.build` is through |
| `file`, `triggered` | the stop file; `StopFileSentinel._triggered` |
| `stage`, `hung` | the stage of `shutdown()` that is next; a thread that does not return |
| `work`, `database` | tasks of the services, each with a row to write; `Database` open or closed |
| `pipe`, `stream` | where `run()` of the pipeline is; the device streams that are open, one that is stored and one that was opened and did not start |
| `asked`, `swallowed`, `kept`, `slow`, `late` | history: a stop was requested; a stop file was deleted unread; one of an earlier run stayed; tasks cancelled while their thread wrote; tasks begun after the services were drained |

| Action | Program |
| --- | --- |
| `Build` (`Prepare`), `CheckRun` | `build` with `StopFileSentinel.prepare` at its end, which may fail to delete the file; `--check` in another process, which does the same |
| `WriteStopFile`, `Signal`, `Poll` | `stop.ps1`, the signal handlers, `StopFileSentinel.watch` |
| `Begin`, `HandOver`, `Write` | a command of the phone that spawns a task, its `to_thread`, and the thread with the lock of the database |
| `Down`, `Stage`, `Cancel`, `Leave`, `HardExit` | `run()`, the stages of `shutdown()`, the cancellation of what is left, the end of `asyncio.run`, `arm_hard_exit_watchdog` |
| `StartPipe`, `OpenStream`, `OpenFails`, `WorkerEnds`, `CloseStream` | `AsrPipeline.run` with `frames.start` and `frames.stop` in their threads |
| `SubsystemFails`, `SupervisorWaited` | `Supervision` for another subsystem |

A stage is one action that does what it did in time or nothing, as each is under
`wait_for`. A stage or thread may hang for ever (`hung`).

| Run | Instance | What it shows |
| --- | --- | --- |
| `Program.cfg` | the pipeline and the relay connection, each failing until its backoff overflows, one task, stop file, signals, `--check`, a thread that may hang, fair | a program that nobody asked goes down only by an overflow or by a stop file that could not be deleted; every request that is not swallowed ends it; the database is closed under latecomers and cancelled tasks only; a restarted pipeline finds no stream of the one before, unless it did not start; a subsystem that failed comes back until its backoff overflows |

Two subsystems are one that fails and one that goes on; `LargestExponent = 0` makes the
second failure in a row the one that overflows; one task meets every stage. `CHECK_DEADLOCK FALSE`: the program exits.

Fairness: the program is built, the sentinel polls, delays and the watchdog elapse,
and `run()` sees that a task ended. Nothing is assumed of a stage, a thread, a
device or a subsystem, so `RequestsEnd` rests on the watchdog.

What the properties leave open, because the code does:

* A backoff that overflows takes the program down with its supervisor, though
  `supervisor.py:3-4` promises that no subsystem does; `NobodyElseStops` states that
  promise and is proved only for fewer failures. `OnlyAskedStops` names the cause.
* A stop file that cannot be deleted is logged and stays, and the sentinel of the fresh
  run reads it (`kept`), though `sentinel.py:9-10` and its test say that a stale file
  never prevents one.
* `_open_stream` stores a stream only once it has started: one that was constructed and
  does not start is left open, and the next run opens another.
* `prepare` deletes a stop file whatever its age, so a request written while the
  program starts, or beside a `--check`, is lost (`swallowed`). `stop.ps1` kills the
  process when its patience ends; the kill is not modelled.
* The connection of the phone is stopped after the services were drained: a command
  that arrives in between spawns a task that nobody waits for (`late`), whose write
  a closed database refuses.
* The docstring of `wait_tasks` says it does not cancel; `asyncio.wait_for` cancels the
  `gather` it waits for. The thread of such a task goes on and may find the database
  closed (`slow`).
* A pipeline that is cancelled while its device is being opened leaves the stream
  open. Only a program that is ending cancels one.

### Proofs of `Supervision` (`ProgramProofs`, first part)

For any number of subsystems, from `SupervisionAssumption`. `Inv` says why a
supervisor or the program is where it is: broken only after more than
`LargestExponent + 1` failures in a row, ended only when the stop event is set, the
stop event set only on request or by a broken supervisor.

* `TypeCorrect`; `OnlyOverflowStopsAlways`: a program that nobody asked to stop goes
  down after that many failures of one subsystem and for no other reason. With an
  IEEE double (`LargestExponent = 1023`) that is the 1025th in a row, on which
  `next_delay` raises `OverflowError` outside of the supervisor's handler: the
  supervisor dies and the program goes down with it.
* `NobodyElseStopsAlways`: if `MaxFailures`, the bound on failures in a row, is below the
  overflow, the program goes down only on request.
* `NothingStartsOnTheWayDown`: no supervisor starts its subsystem again once the stop
  event is set.

`ComesBack` and `RequestsEnd` are liveness and only model-checked.

### Proofs of `Program` (`ProgramProofs`, second part)

For any number of subsystems and tasks, from `SupervisionAssumption` and
`ProgramAssumption`. Every step of `Program` is a step or a stutter of `Supervision`,
or ends the process (`SupervisionStep`), so the invariant of `Supervision`
carries over; `ProgramInv` adds how the rest hangs together.

* `ProgramInvariance`: `ProgramSpec => []ProgramInv`.
* `OnlyAskedStopsAlways`: a stop file that a program finds was written for this run or
  is one that `Prepare` could not delete (`FileIsAsked`), as the sentinel polls only after
  `Build`; hence a request that `Supervision` knows of was asked or comes from such a
  file (`RequestedIsAsked`), and any other stop from a broken supervisor.
* `ClosedUnderLatecomersAlways`. The property speaks of a closed database; `LeftBehind`
  says already of every stage past the services that a task that still runs came late
  or was cancelled in its thread, which is what the later stages preserve.
* `StreamsClosedAlways`, from `PipeSupervised`: while its supervisor waits or is
  through, the pipeline is idle, and it is idle only behind a closed stream or, when it
  was cancelled while opening, in a program that is ending.

## 8. Speech

### `AsrPipeline`

One audio source: the worker thread of `AsrPipeline`, the detector's events, and the
event loop that restarts, unloads and takes over the finals. Audio is the number
of a block; positions, preroll and limit are counted in blocks.

| Variable | Program |
| --- | --- |
| `worker`, `events`, `consumed` | where `_worker_loop` and `_process_block` are |
| `stop`, `loaded`, `pos`, `preroll` | `_stop_event`, `_components`, `_stream_position_ms`, `_preroll` |
| `speech` | the detector's `_in_speech` |
| `open`, `start`, `audio`, `outcome` | `_utterance`, its `start_position_ms` and `buffer`; what became of each |
| `ready`, `tasks` | what the worker handed to the loop; the `_handle_final` tasks in the order of `_final_lock` |
| `stored`, `sent`, `failed` | rows, events, tasks that gave up |
| `closing` | stages 2 to 8 of the shutdown |

| Action | Program |
| --- | --- |
| `Load`, `IdleEnds`, `TakeBlock`, `Flush`, `Stall` | `_worker_loop`, `_load_components`, `check_health` |
| `StartEvent`, `EndEvent`, `BlockEnds`, `Recognised` | `_process_block` with `_begin_utterance`, `_accumulate`, `_push_preroll`, `_maybe_force_finalize`, `_finish_utterance` |
| `Restart`, `WaitEnds` (`Unload`) | `create_pipeline`, `unload` |
| `BeginCall`, `TakeLock`, `InsertEnds`, `Announce` | `spawn_threadsafe`, `_handle_final` |
| `StopPipelines`, `WaitTasks`, `WaitEnds`, `CloseDatabase` | `shutdown` of the service and of the program |

The steps of the worker are as fine as `unload` can tell them apart: it takes the
components and the open utterance away while a block is in hand or an utterance is
with the recogniser. The components catch their own errors, so no block raises.
Settings do not change while an utterance is open. The detector is the environment:
it may report the start or the end of speech, or both, in any block.

| Run | Instance | What it shows |
| --- | --- | --- |
| `AsrPipeline.cfg` | four blocks, two utterances, a preroll of one, a limit of three, fair | no block in two utterances and none skipped in one; no utterance beyond the limit; each has an outcome, also when the worker stops; finals in order, after their row, with no partial behind them; every utterance ends; every recognised sentence is announced or its task gave up |

Four blocks are preroll, an utterance that is forced to end, and a block after it;
two utterances compete for the lock, and one can end in the block in which the
other begins. Fairness: worker and loop go on, SQLite answers, and a device that
delivers nothing is noticed (`Watched`), which is so for the microphone (15 s) but not
for the loopback device: there a sentence stays open until sound comes back.

After a forced finalize (20 s of speech without a pause) the pipeline leaves the
detector as it is: `FsmnVad` is still in speech and reports no new start, and `flush`,
which its docstring says is for this, is not called. What the speaker says until the
next pause is then in no utterance. `SentencesAccounted` speaks of utterances, and no
property of blocks outside of any: what the detector reports is up to a third-party
model, which `StartEvent` leaves free.

What the properties leave open, because the code does: `unload` does run beside the
worker at shutdown (`TranscriptionService.shutdown` waits for tasks, not for the
thread), and a sentence that is open then is lost (outcome `unloaded`); a stalled
device loses the open sentence (`stalled`); and `wait_tasks` cancels what it waited
for when its time is over, as `asyncio.wait_for` cancels the `gather`, so a sentence
may be stored and not announced (`failed`).

### Proofs (`AsrPipelineProofs`)

For every preroll, limit and lag, any number of blocks and utterances, from
`AsrPipelineAssumption`:

* `UtterancesApartAlways`: no block is in two utterances or twice in one, and none is
  skipped within one. The property speaks of neighbours only; `CutInv` relates all of
  them to the newest block that has found its place (`Placed`): every utterance is a
  run of blocks in closed form (`Run`), the utterances are ordered (`Cut`), the preroll
  and the open utterance end with that block and exclude each other (`PrerollNew`,
  `OpenNew`), and nothing of a block is left when the next one is read
  (`BetweenBlocks`). `NoAudioCut` covers the steps that add no audio, `AccumulateCut`
  those that may add the block in hand.
* `SentencesAccountedAlways`: an utterance without an outcome is the newest one and open
  or with the recogniser (`Accounted`), whatever the order of unload, stall and restart.

* `NeverOvergrownAlways`, for a limit above the preroll, whatever the lag. The settings
  allow any two positive lengths; with the built-in ones (20 s and 320 ms) the limit is
  far above. Otherwise an utterance starts with the whole preroll and the block in
  hand, which `GrowthInvariance` covers too (`Limit`). The code counts from where the
  detector dates the start; `GrowthInv` is why that bounds the audio: what is open, with
  the block still to be added, fits between that date and the position.
* `EventsInOrderAlways`: the finals are announced in the order of their utterances, each
  after its row, and no partial after its own final. `OrderInv` follows a final from the
  worker's calls to the tasks and to what was sent: its utterance is behind everything
  that is further (`Follows`), and only the first task holds the lock (`LockInv`).

Only model-checked: `UtterancesEnd` and `FinalsArrive`, which are liveness.

## 9. The conversation

### `ConversationSync`

Sentences on their way from the recognisers into SQLite and onto the phone, beside
clears, histories and questions.

| Variable | Program |
| --- | --- |
| `talk`, `finals` | how far each utterance is; the `_handle_final` tasks in the order of their lock |
| `rows`, `answers` | `messages`; `ai_answers` of the conversation |
| `asked` | sentences an answer is being written to (`LlmRunner`) |
| `reader` | the statement the reader's handler awaits |
| `stray` | the statement a cancelled handler left in its thread |
| `link`, `up`, `down` | both connections, commands and events between them |
| `page` | per sentence the bubbles of `useRealtimeConversation`: heard, final, or copied from a history |
| `missed`, `stale`, `doubled`, `late` | history, the causes the properties name |

| Action | Program |
| --- | --- |
| `Hear`, `Finish`, `Store`, `Refuse`, `Announce` | `on_partial`, `on_final`, `_handle_final` with `insert_message` and its failure |
| `Dispatch`, `HandlerStep`, `HandlerFails` | `handle_conversation_clear`, `handle_history_sync_request`, the look-up of a question |
| `StrayStep` | the thread under a handler that was cancelled with its session |
| `SaveAnswer` | `insert_ai_answer` at the end of a run |
| `Ask`, `PressClear`, `Deliver` | the page; its reducer for each event |
| `CutPhone`, `CutPc`, `Crash`, `Rejoin` | either connection lost, the desktop killed; the reconnection and the phone's request for the history |

One partial is sent per utterance (bound): a second one only changes its text.
`Rejoin` waits for a stray statement, which takes much less than the second a
reconnection does.

| Run | Instance | What it shows |
| --- | --- | --- |
| `ConversationSync.cfg` | two sentences, two clears or questions, two cuts or crashes | when nothing is under way the phone shows the stored conversation; a sentence is shown twice only when a history named it while its bubble was open; an answer is stored with its sentence; each up to the causes named |
| `ConversationSyncDouble.cfg` | the same | a violation: `ShownOnce` |

Two sentences are one that is being announced while another is in the database, two
presses a question and a clear, or a clear beside a clear, two cuts one of either
side. `CHECK_DEADLOCK FALSE`: the instance runs out of sentences. The symmetry of the
sentences is sound: only invariants are checked, and no definition tells them apart.

What the properties leave open, because the code does:

* A history that comes between the partial and the final of a sentence it contains
  copies it beside its open bubble (`doubled`). The hook says that it
  "merges without duplicates" and the PRD that no message is inserted twice (AC-11);
  the merge compares message ids, and an open bubble has none. The violation run
  shows it: a phone that reconnects between partial and final.
* While the PC is cut off, finals are dropped; the phone asks for a history after its
  own reconnection, not when the PC is back (`missed`).
* A clear that ends while the phone is away is not announced later: its page keeps
  the bubbles, and questions about them are refused (`stale`).
* A clear that is cut off between its statements leaves the answers of the messages
  it deleted, and an answer that is being written is stored after its sentence was
  cleared (`late`).

### Proofs (`ConversationSyncProofs`)

For any number of sentences, presses and cuts, from `ConversationSyncAssumption`:

* `TypeCorrect`.
* `ShownInvariance`, `OnlyHistoriesDoubleAlways`. That the page gets a second bubble depends on
  what is still in the queue, so the invariant speaks of it: a row belongs to a sentence
  that is through with its recogniser (`StoredIsThrough`), no partial of a sentence
  comes after a history that names it (`HistoryInv`), nor after a bubble copied from one
  (`CopyInv`). Hence a history meets no bubble, an open one (`doubled`), or one that the
  reducer merges with (`SingleBubble`).
* `AnswersHaveSentencesAlways`, from `AnswersInv`: an answer that is stored or being
  written has its row or is `late`, but while the statement that deletes the answers is
  the next one; a statement of a clear keeps that whether its handler lives or not
  (`StatementKeepsAnswers`).

* `PhoneFollowsStoreAlways`, from `FollowInv`. The page is position 0 and the events on
  their way are positions after it; what shows a sentence at a position has its row,
  or a cause, or a clear behind it (`Backed`), an open bubble has its final behind it
  (`Closes`), and a row is shown by some position that no clear is behind (`Brought`).
  It is stated for one sentence, so that `Calm` can say what a step does to that
  sentence alone, and the lemmas for an event that is appended or delivered serve
  every step.

## 10. Screenshots

### `ScreenshotStore`

| Variable | Program |
| --- | --- |
| `task` | per shot how far `capture_and_analyze` is |
| `disk`, `rows` | its files, original and preview; the rows of `screenshots` |
| `reader`, `stray` | the handler the reader is in, with the statement that is next and the shots it works on; what a cancelled handler left in its thread |
| `link`, `up`, `down`, `page` | both connections, commands, events, the list of `ScreenshotView` |
| `left`, `missed`, `stale` | history, the causes the properties name |

| Action | Program |
| --- | --- |
| `Trigger`, `Grab`, `GrabFails`, `Persist`, `Announce` | hotkey or `capture_screen`, `capture_screen_sync`, `_persist`, `screenshot_created` |
| `Dispatch`, `HandlerStep`, `HandlerFails` (`Work`, `After`, `Reply`) | `handle_screenshot_delete`, `handle_screenshots_clear` and the history, statement by statement |
| `StrayStep` | the thread of a handler that is gone: one `to_thread` call may be several statements, which it finishes |
| `PressDelete`, `PressClear`, `Deliver` | the page |
| `CutPhone`, `CutPc`, `Crash`, `Rejoin` | as in `ConversationSync` |

Files that another program holds stay; the model takes all files of a shot or none
(bound). A preview is written in place: a write that fails half way leaves a file
(`scrap`) that the capture forgets, while the library removes an original it could not
finish. The rounds in which `encode_preview` shrinks an image are data.

| Run | Instance | What it shows |
| --- | --- | --- |
| `ScreenshotStore.cfg` | two shots, two deletes or clears, two cuts or crashes | a row never lacks its image; files without a row, and a phone that differs from the rows, only have the causes named, a half-written preview among them |

Two shots are one that is stored between the two statements of a clear and one that
the clear has selected; two presses and two cuts as above. `CHECK_DEADLOCK FALSE` and
the symmetry of the shots for the same reasons.

What the properties leave open: `clear_screenshots` selects and deletes under two
separate locks, so a shot stored in between loses its row and keeps its files; a
handler that is cut off after its statement leaves the files (both `left`); a history
that was read before a delete, and arrives after it, brings the shot back on the page
(`stale`). A half-written preview is named by no row, so that deleting its shot leaves
it on the disk; `FilesHaveRows` speaks of the other files. Deleting a shot leaves the answers to it in `ai_answers`.

### Proofs (`ScreenshotStoreProofs`)

For any number of shots, presses and cuts, from `ScreenshotStoreAssumption`:

* `TypeCorrect`; `Invariance`: `Spec => []Inv`.
* `RowsHaveImagesAlways`. The property is not inductive: that an `Unlink` never hits a
  shot with a row rests on where the job came from. `Inv` says that a row belongs to a
  capture that is past its `Persist`, that a capture about to persist has its image,
  and that a job at its files holds only shots whose rows are gone and whose captures
  will not write one again (`JobInv`). `JobKeepsStore` does one statement of a job for
  the handler and the stray thread alike.

* `FilesHaveRowsAlways`, from `FilesInv`: files belong to a row, a capture about to
  write one, a job that is past its rows and not past its files, or are in `left`. A
  statement hands what it takes from the rows to the next one or marks it
  (`WorkAccounts`). A second cut must not drop a stray job: its connection does not come
  back before the thread is through (`stray # Idle => link = "pc"`).

* `PhoneAlwaysShowsRows`, with the same positions. `HasInv`: a row is on the page, or on
  its way with no clear behind it, or in `missed`. `LacksInv`: what the page or an event
  shows has its row, is `stale`, or has a clear or delete that will take it off.

## 11. Settings and providers

### `Providers`

Pure operators: environment variables come in blocks of key, address and model, and
a value is abstracted to the block it was set in, so that a credential shows where
each part comes from. `Primed` is `prime_environment`, `Over` is `_RawEnv._first`,
`ToConfig` is `to_config` with the swap by `LLM_PRIMARY`, `HasFallback` is
`fallback_for`, `Answerable` the test at the top of `LlmRunner.submit`.

### `Configuration`

| Variable | Program |
| --- | --- |
| `env`, `providers` | the environment; `EnvConfig` |
| `file`, `memory`, `lock` | `config.yaml`, `ConfigStore._config`, the update that holds `_lock` |
| `thread`, `reader` | how far `update_from_wire` is with each update; the one the reader awaits |
| `making`, `pipes` | per source the settings read for a pipeline that is being made; those its pipeline works with |
| `form`, `linked` | what the phone was told last; the connection |
| `starts`, `running` | the starts of the program |
| `unsaved`, `behind`, `slipped`, `installs`, `acked` | history |

| Action | Program |
| --- | --- |
| `Start` (`Load`), `Stop` | `DesktopApplication.build` with `load_env_config` and `ConfigStore.__init__`; the end of the process, also in the middle of an update |
| `Connect`, `Disconnect` | the session; its thread goes on without it |
| `ReceiveUpdate`, `Install`, `Save`, `Notify`, `Answer` | `handle_settings_update` and the steps of `update` under the lock, with an invalid update and a write that fails |
| `ReceiveGet` | `handle_settings_get` |
| `ReadSettings`, `Register` | `_run_microphone` reads the settings, `create_pipeline` registers the pipeline; no await lies between, but `update` runs in a thread |

An update is what it was sent as: the settings page sends all of its part, so that
the latest replaces the others, and the rest of the file is one value.

| Run | Instance | What it shows |
| --- | --- | --- |
| `Configuration.cfg` | three updates, one invalid, one source, two starts, four environments (legacy names, current names, in part and in full, with a backup or not) under both values of `LLM_PRIMARY` | memory, file, pipelines and phone agree between updates; an acknowledged update is in the file until a later one replaces it; screenshots can be asked about where the conversation can |
| `ConfigurationVision.cfg` | legacy names and a backup | a violation, below |

Two valid updates are one that is acknowledged and one that overtakes it on a second
connection; two starts let the second read what the first left behind.
`CHECK_DEADLOCK FALSE`: updates and starts run out.

What the properties leave open: a failed write leaves memory ahead of the file and
the pipelines (`unsaved`); a file that cannot be read is replaced by the built-in
values in memory, and the next update writes them over the user's; a pipeline that
is registered behind an update of that thread keeps the old settings (`slipped`).

### What the runs found

`VisionFollows` (`ConfigurationVision.cfg`). `prime_environment` writes the legacy
`MODEL_*` values into `VISION_*`, and `to_config` then takes them for an explicit
setting. With `LLM_PRIMARY` set to the backup the conversation moves there and
screenshots stay behind, with the provider they already ask as their backup. The
comment in `env.py` and `test_env_primary.py` say that screenshots follow the swap
unless `VISION_*` is set; the test does not call `prime_environment`.

### Proofs (`ConfigurationProofs`)

For any number of updates, sources and starts, from `ConfigurationAssumption`:

* `TypeCorrect`; `ConfigInvariance`: `Spec => []ConfigInv`.
* `SettingsAgreeAlways`. The property only speaks of moments without the lock; the
  invariant says what holds under it: the update in its thread holds it (`LockInv`),
  memory differs from the file only between `Install` and `Save` (`SavedInv`), and the
  pipelines follow once `Notify` is through (`PipesInv`).
* `AckSurvivesAlways`. The update that is being saved is the last one installed and is
  what memory holds (`NewestSaved`), so whatever reaches the file took effect no earlier
  than what was acknowledged (`AppliedInFile`).

* `VisionAnswersAlways`: `VisionAnswers` for every environment, under either set of
  names, and every value of `LLM_PRIMARY`; the run has four. It rests on
  `ScreenshotsFollow`: the providers of the conversation fill up those of the
  screenshots, in the same order, before and after the swap, and a credential that
  fills up a configured one is configured (`OverConfigured`). Nothing of the sort
  proves `VisionFollows`, which is false.

## 12. Types

`TypeOK` of `LlmRunner`, `RelayPresence` (`PresenceTypeOK`), `RelayTransport`,
`PhoneAnswers`, `Supervision`, `ScreenshotStore`, `Configuration` and
`ConversationSync` is proved, as part of their invariants or on its own.
`ProgramProofs` and `AsrPipelineProofs` prove the types of the variables they speak of
(`EndingType`, `CutType`, `OrderInv`).

## 13. Not modelled

* Rendering, text processing around the recognisers, prompts, token estimates,
  resampling, scaling of images, logging, the relay's application shell, and the
  demonstration relay inside the phone: data, third-party code, or no state between
  calls.
* Of the environment, timeouts, headers and paths; of the database, sessions, schema
  and row conversion; of the scripts, PID files, installation and the kill.
* The queue between the audio callback and the worker: `AsrPipeline` numbers the
  blocks it reads, so a block dropped by a full queue is not part of it.
* Of the client of the language model, what it does within one attempt: a stream
  that ends without its end mark counts as finished, and a provider that refuses
  `stream_options` is asked again without them. Either is one outcome of an attempt
  in `LlmRunner`.
* The phone's cache across a reload, and the answers it shows beside screenshots of
  earlier sessions.

`PROJECT.json` gives each component's status and what of it is left out.
