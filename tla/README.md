# OpenCohost: a formal model of its concurrent core

OpenCohost is an AI co-host for live streams: it listens to the operator
(push-to-talk), to chat and to an agenda, generates text with a language model
and speaks it. This directory holds TLA+ modules translated from its source, TLC
configurations that check them on small instances, and TLAPS proofs of the
safety properties for every value of the constants. Modelled is what decides
*which* turn is answered and spoken *when*: the dispatcher, the queues and the
engine thread, the drafts generated ahead, the agenda and its driver, push-to-talk
and the speech-to-text service behind it, the speech router and the speech pipeline.

The paths below are relative to the repository (`src/` is its root); `router.py`
is `src/opencohost/core/speech/router.py`, `llm_engine_speech.py` is
`src/opencohost/core/engine/llm_engine_speech.py`, `ptt_session.py` is
`src/opencohost/api/ptt_session.py`; `llm_engine*.py` are `llm_engine.py` in
`src/opencohost/core/` and its mixins in `src/opencohost/core/engine/`;
`agenda_driver.py`, `dispatch.py` and `engine_host.py` are in `src/opencohost/api/`
and `kira_agenda_controller.py` in `src/opencohost/smart_aggregator/`.

## 1. Inventory

| component | source | state it keeps | operations | modelled by |
|---|---|---|---|---|
| Speech router | `router.py` | incoming heap, active job, LIFO stack, mic-live hold, boundary owner, owed end; per job: chunks, cursor, sealed, pause request, retry | submit, submit_streaming, append_chunks, seal, pause_speech, hold/release, sweep_sources, the `_loop` thread and `_run_job` | `SpeechRouter`, `SpeechEvents`, `SpeechSlice` (partly) |
| Speech pipeline | `llm_engine_speech.py` | cut flag `_speaking`, cancel token, audio queue, outcome under construction | `_hablar_impl` (producer, consumer, join, drain), `interrupt_speaking`, cancel/clear | `SpeechPipeline`, `SpeechSlice`, and coarsely `SpeechRouter` (partly) |
| Push-to-talk | `ptt_session.py`, `src/opencohost/api/routers/ptt.py` | session slot, press and hold epochs, per session: state, buffer, error, events; deadman timers | start, stop, keepalive, the WebSocket thread, flush, close, deadman | `PttController` (partly) |
| Turn scheduler and engine loop | `src/opencohost/core/turn_scheduler.py`, `llm_engine.py` | dispatch queue, command queue, accumulation buffer, owner bundle, parked verbs | enqueue, trim, expire, pop gate, drains, requeue, the turn cycle | `TurnScheduler`, `EngineLoop`, `TurnLedger` (partly) |
| API dispatcher | `dispatch.py` | bounded gate, idempotency cache | dispatch | `Dispatcher` |
| Pregeneration | `llm_engine_pregen.py`, `llm_engine_agenda.py` | draft slot, worker marker, epoch, frozen stash, detour count | pregenerate, take, clear, freeze, restore, connector | `Pregeneration` (partly) |
| Agenda controller and driver | `kira_agenda_controller.py`, `agenda_driver.py`, `engine_host.py` | agenda state, topic, recovery counters; the driver's mirror of its draft | enable, next action, accept, fail, tick, prefetch, consume, return | `AgendaController`, `AgendaDriver` (partly) |
| Emergency stop and enable handlers | `src/opencohost/api/routers/agenda.py` | none of their own | token, sweep, cut, drop; clear | `SpeechRouter` (what they do to speech), `AgendaDriver` (what they do to the agenda) |
| OBS avatar runtime | `src/opencohost/avatar/obs_runtime.py` | mouth state, flap timer, connection | reacts to speech events | its input protocol is `SpeechEvents` |
| Cloud fallback, models | `src/opencohost/core/engine/llm_engine_cloud.py` | provider epoch, prober | degrade, recover | its spoken notice is a source of `SpeechRouter` and `EngineLoop` |
| STT supervisor | `src/opencohost/stt/supervisor.py`, `src/opencohost/stt/discovery.py`, `src/opencohost/api/routers/ptt.py` | child process, port, model state, exit and shutdown flags; the ensure lock and the URI | spawn, pump of its stdout, waits, shutdown; start and test routes, ensure, prewarm, configure | `SttSupervisor`, `SttService` (partly) |
| Health monitor, notices | `src/opencohost/core/observability/` | samples, thresholds | sample | not modelled |
| Chat aggregator | `src/opencohost/smart_aggregator/aggregator.py` | scores, windows | ingest, select | not modelled (data) |
| Conversation memory, memory v5 shadow | `src/opencohost/core/memory/`, `src/opencohost/core/memory_v5_shadow/` | SQLite rows | store, promote, index | not modelled |
| API host, auth, routers | `src/opencohost/api/` | wiring | HTTP mapping | not modelled |
| Music bed, stream administration, prompt/profile/i18n, packaging | `src/opencohost/core/music/`, `src/opencohost/stream_admin/`, ... | mixer state, platform clients, text | | not modelled (pure I/O or data) |

### How the parts interact

* Any engine thread *submits* a text to the router and returns at once. The
  router thread is the only caller of `_hablar`, so at most one job plays.
* `_hablar` plays the slice `chunks[cursor:]` and returns an outcome; the router
  reconciles it: finished, suspended, retried, discarded, or starved and waiting
  for a producer that is still streaming.
* Everything that wants silence clears the *same* flag, `_speaking`: a PTT
  press, a preempting submit, the emergency stop. What tells them apart is what
  was published before the cut: the hold, the job's pause request, the token.
* The PTT controller drives the router's hold through `set_ptt_hold`.
* The push-to-talk routes reach the speech-to-text service at a URI. If it does not
  answer they have the supervisor spawn it, under `ensure_lock`, and repoint the
  controller to the port the child reports on its stdout; one thread per child pumps
  that stream into the supervisor's fields.
* The router emits `speaking_start`, `speaking_end` and `idle` through
  `ui_callback`; the avatar, the agenda driver and the API event stream react.
* A turn comes through the dispatcher into the command queue (owner questions,
  control verbs) or straight into the priority queue (viewers, the agenda). The
  engine thread serves both; HTTP threads move owner questions from the first to
  the second while it is busy.
* While she speaks, a worker generates the next turn ahead into one slot: the head
  of the queue (triggered by whoever enqueues or frees the slot) or the agenda's
  next beat (triggered by the driver at `speaking_start`). A question displaces the
  agenda's draft, which is frozen and returns after the detour.
* The agenda controller is passive. The driver's tick, the motor's events, the
  routes and the engine thread call it, all under `agenda_lock`; the engine and its
  workers change the slot and the stash under `_prefetch_lock` only.

### What is hard here

Locks are held for short sections and never across playback, callbacks or the
network, so every operation is several critical sections with other threads in
between: the cut races the arming of the flag, a sweep races the claim of the
boundary, the operator's release races late closes of an earlier session. Jobs
nest (preempt, resume, sweep) while one event pair must bracket the outermost
job. Resume indices are relative to a slice that is itself relative to a cursor.
Timeouts abandon threads that go on running. A draft is made for a state of the
history and of the persona that may have moved when it is ready, and the driver
mirrors in its own field what the engine holds under another lock. `PROJECT.json` lists each hazard at
its line with the properties that cover it.

### What makes each component correct

* *Router*: events alternate and every pair closes; no job is in two places;
  nothing plays into a live mic; a press never loses held speech; a finished job
  is never touched again; every job ends.
* *Pipeline*: the cursor reported after a cut is exact; after a join no audio file is
  left but what a failed synthesis or a refused removal left behind; the invocation
  returns even if synthesis hangs.
* *PTT*: the newest live mic stays held whatever earlier presses still do; what was
  dictated is handed to the dispatcher, once, though a full queue may refuse it; hold
  and slot are always given back.
* *STT supervisor*: one child runs at a time and none outlives the shutdown; the exit
  on record is that of the child in hand; pressing again gets past a loading gate.
* *Dispatcher, queues, engine*: an accepted turn is in one place until it ends, and
  ends; an owner question is not dropped for space and keeps its turn; a retry
  replays.
* *Pregeneration*: a draft that waits belongs to the present history and persona;
  the slot is never lost; a connector is kept with its own beat only.
* *Agenda*: a controller that waits for its turn has one coming; after an emergency
  stop at most one utterance of the agenda, on the point of being spoken, is still heard;
  a session ends and a beat that made way returns or is dropped.

## 2. Modules

| module | what it is |
|---|---|
| `SpeechEvents` | abstract specification: what a consumer of the speech events may rely on |
| `SpeechSlice` | abstract specification: one call of `_hablar`, between the router that makes it and the pipeline that serves it |
| `SpeechRouter` | the speech scheduler, its submitters, the operator, the emergency handler, and `_hablar` as the router sees it |
| `SpeechPipeline` | one `_hablar_impl` invocation in detail |
| `PttController` | the controller, its sessions, WebSocket threads and timers |
| `SttSupervisor` | the supervisor, its children and their pump threads |
| `SttService` | extends it with the routes, `ensure_local_service`, prewarm and configuration |
| `TurnLedger` | abstract specification: how a turn may end, by who asked it |
| `TurnScheduler` | operations on the priority queue and the accumulation buffer |
| `Dispatcher` | extends it with the command queue and the idempotency cache |
| `EngineLoop` | extends that with the engine thread, the clients, the drains, speech |
| `AgendaController` | the controller's methods as operators on its record |
| `Pregeneration` | the draft cache's methods as operators on its record |
| `AgendaDriver` | composes the two: driver, events, routes, engine thread, workers |
| `MC...` | the modules model-checked by the configurations |
| `...Proofs` | TLAPS proofs about the module they are named after |

A module without actions (`AgendaController`, `Pregeneration`) stands for a class
that owns no thread: its state is a record, each method an operator from the record
to the next one, and whoever calls it under the lock does so in one action.
Operators marked "Mutant" are broken variants of the definition below them; each
property fails if its variant is put in place.

### SpeechRouter

*State.* A job is its `job_id`; a function per `SpeechJob` field (`kind` for its
source and band, `state`, `chunks`, `split`, `cursor`, `sealed`, `pauseReq`,
`retried`, `started`). `incoming`, `active`, `stack` (a job's height, 0 off the
stack), `pttHeld`, `owner` (`_boundary_owner`) and `owedEnd` are the fields under
`_sched_lock`; `speaking` and `cancelled` are the motor's flag and token. `rpc`,
`spc[t]`, `opc`, `epc` are program counters of the router, the submitting
threads, the operator and the emergency handler, with the locals they still
need. `open` and `ui` record what the callback has received.

*Actions.* One action per critical section or call-out:

| code | actions |
|---|---|
| `submit`, `submit_streaming`, `append_chunks`, `seal` | `Submit`, `SubmitSweep`, `PauseSpeech`, `PauseCut`, `AppendChunks`, `Seal` |
| PTT press and release | `HoldAndPause` (or the hold alone when nothing is active), `HoldCut`, `ReleaseHold` |
| emergency stop, enable | `CancelSpeech`, `EmergencySweep`, `EmergencyCut`, `ClearSpeechCancel` |
| fresh-turn drain of held owner speech | `DrainForNewTurn` |
| `_loop`: owed-end flush, deferred idle, pick | `LoopTop`, `FlushEnd`, `FlushIdle`, `FlushEmitIdle`, `PickIncoming`, `PickStack`, `PickNone` |
| `_run_job`: token, claim, start, window checks | `CheckCancelled`, `ClaimBoundary`, `CollectOwedEnd`, `BoundaryStart`, `BoundaryStartRaises`, `WindowCheck` |
| `_hablar` as seen by the router | `Hablar`, `Arm`, `RecheckPause`, `PlayFragment`, `PlayCompletes`, `PlayIsCut`, `PlayCutUnseen`, `PlayTimesOut`, `HablarRaises` |
| reconcile | `ReadCancel`, `ReconcileRaised`, `ReconcileRefused`, `ReconcileDrained`, `ReconcileCut`, `StarvedWait` |
| terminal verdict and end of the pair | `Finish`, `FinishEnd`, `IdleCheck`, `FinishIdle` |

`_hablar` is not in this module: the `Play...` actions are what a call of it may do
according to `SpeechSlice`. `PlayCutUnseen` is the outcome of a cut the producer saw
first: the slice is reported complete. Both halves of that interface are proved: the
pipeline does no more than `SpeechSlice` allows (`ImplementsSlice`), the router's
playback is a call of `SpeechSlice` (`RouterPlaysByTheCall`), and nothing such a call
may do is missing from it (`RouterMissesNoCall`).

*Simplifications.* The text of a job is its number of fragments. Priorities keep
the band and the age. The press and release are serialised, as the controller's
lock does; the emergency stop and enable are serialised, as `agenda_lock` does
(callbacks that block on it give fewer interleavings than the model has).

*Left out.* `stop()` (the thread is a daemon and the engine keeps it for the life
of the process), the catch-all `_release` of the loop (reached only by an
exception out of the scheduler's own code), the wake sentinel, the chat-turn
callback, the legacy path with the router switched off, and the `None` outcome a
stubbed `_hablar` returns in tests.

### SpeechPipeline

The producer (`ProducerCheck`, `Synthesise`, `Put`, `PutFin`) and the consumer
(`Guard`, `Dequeue`, `DequeueTimesOut`, `PrePlay`, `Play`, `PlaybackFails`,
`Played`, `Join`, `JoinTimesOut`, `DrainOne`, `Return`) are separate threads over
a bounded queue. `InterruptSpeaking` may come at any step, and `NextArms` lets a
later invocation raise the flag again under a producer that was not joined.

*Files.* A synthesis that fails may leave the file it had opened, and one that succeeds
after a failed attempt (a fallback voice) may leave an earlier one; the consumer's and
the drain's `os.remove` may be refused, which the code swallows. `stray` is history: the
fragments whose file nothing will remove any more. `NoFileForgotten` says that there is
no other way to leave a file behind once the producer is joined.

As a call of `SpeechSlice` (`SliceAt`, `SliceVerdict`), the position `at` is the
fragment the consumer has in hand, else what the outcome says, else one past the last
fragment it has met; the call returns when the consumer is done. A fragment is heard
only in its turn and only while the flag is up, and the call never goes back.

### PttController

One program counter per start handler, one for the stop handler, one per
WebSocket thread, and a set of armed deadman timers. The two releases of a stop
(session callback and controller) carry the same epoch and are idempotent, so
they are one step. Keepalive starvation may occur at any time while listening.
`FlushBuffer` empties the buffer and hands the text to `_dispatch` (`Deliver`): the
turn is sent, or refused, because the queue is full or the callback raises; the code
looks at neither. `delivery` records who was sent how often (`sent`), who dictated a
turn's worth and who was refused; the last two are history. `lastError` says only
whether there is one. `StartTimesOut` fuses the end of the wait with `_state = IDLE`,
but does not ask that the connection be missing, so the thread may connect in between;
the connect and the event it sets are one step.
Left out: the text and its cap, the audible cue, `set_ws_uri`, exceptions other than a
lost connection and those of the dispatch, and a second stop for a press already ended.

### SttSupervisor, SttService

*State.* A child is a number, in the order of the spawns, a port a number. `life`,
`bound`, `model` and `pipe` (events on its stdout nobody has read) are the child's own;
`pump[k]` and `target[k]` its pump thread with the process that thread reads; `manual`
the port of a LiveAudio started by hand. `sup` holds the supervisor's fields and, while
`shutdown` runs, the child it is about to end. `uri` is the controller's, `lock` the
holder of `ensure_lock`, `call[c]` the program counter and the locals of a route.

| code | actions |
|---|---|
| `LiveAudioSupervisor.ensure_started`, `shutdown` | `EnsureStarted`, `Shutdown`, `Terminate` |
| `_pump_stdout`, `_handle_event` | `PumpStarts`, `PumpReads`, `PumpEnds` (`Noted`) |
| `post_ptt_start`, `post_ptt_test` | `PressStart`, `Gate`, `WaitReady`, `StartHold`; `PressTest`, `ProbeTested` |
| `ensure_local_service` | `TakeLock`, `ProbeConfigured`, `StartService`, `WaitPort`, `ScanPorts`, `ProbeCandidate`, `Repoint`, `Outcome` |
| prewarm thread, `PUT /api/ptt/config` | `Prewarm`, `Configure` |
| the service and the operator (not in the repository) | `Bind`, `ModelLoads`, `Die`, `ManualStarts`, `ManualQuits` |

*Simplifications.* The service is its contract in the docstring: a port at once, the
model on the first client, an exit at any time. A bounded wait may time out whenever
its condition does not hold; a fatal code ends it early, which is the same. The pump
thread reads `self._proc` when it first runs, so it may read another child than its own.

*Left out.* The generic `except` of the pump (`supervisor.py:471`), by which it may
record an exit while its child lives: only the end of the stream ends a pump here. A
`terminate` that fails, which `shutdown` logs and swallows (the child's own watchdog on
its parent is the fallback). How the executable is found, fatal codes and warnings, `status()`, URIs that
are not `ws://` on the loopback host (the routes skip the supervisor), persistence.

### TurnScheduler, Dispatcher, EngineLoop

*State.* A turn is a number, given in the order of arrival. `pq`, `acc` and `cq` are
the priority queue, the accumulation buffer and the command queue; `ts` the
insertion timestamps; `key` and `cache` the idempotency cache; `hand` and `bundle`
the locals of the engine thread; `dhand[th]` that of a drain; `fate` how a turn
ended. `speech` is `_speech_active`, all the engine sees of the router.

| code | actions or operators |
|---|---|
| `TurnScheduler.enqueue`, trim, `enqueue_accumulation` | `Enqueue`, `Trimmed`, `Accumulate` |
| `replace_pending`, `drop_pending_sources`, `take_owner_prefix`, `sweep` | `ReplacePending`, `DropPending`, `OwnerPrefixes`, `Expirable` |
| `CommandDispatcher.dispatch` | `Accept`, `Replay`, `AcceptVerb` (`Holds`, `Expiries`, `Room`) |
| `post_chat_turn` after the acknowledgement | `Dispatch`, `LeaveToEngine`, `BeginDrain` |
| `_drain_pending_direct_into_priority_queue` | `BeginDrain`, `DrainPop`, `DrainEnqueue`, `EndDrain` |
| `run`, `_dispatch_command` | `GetTurn`, `GetVerb`, `GetBoundary`, `IdleTick`, `DropUnready`, `EnqueueBusy`, `AnswerNow` |
| `_process_priority_queue` | `ReadGate`, `Sweep`, `PopHead`, `PopBlocked`, `FlushAccumulation`, `TakeBundle` |
| `_ejecutar_inferencia`, `_requeue_owner_bundle_followers` | `Answer`, `GenerationFails` |
| `_complete_processing_cycle`, `_drain_control_commands` | `DrainControl` |
| the router as seen from here | `NoticeSpeaks`, `SpeechEnds`, `PostBoundary` |

*Simplifications.* Trim and accumulation, and the drop and enqueue of
`replace_pending`, are one step each; reading the clock and inserting are one. The
size bound a drain sets itself may end it anywhere. The character caps of the buffer
and of a bundle are choices. A draft taken at the pop is a bundle of none. Ways of
ending that the properties do not tell apart share a fate. A control verb's effect
is left out: what is modelled is that it is parked and applied; `AcceptVerb` has no
idempotency key, although a verb may bring one (`chat.py:109`) and then occupy or evict
an entry of the cache like any other dispatch. The engine without
the speech interrupt appears in one scene.

*Promise.* `TurnLedger` keeps of all this only `source` and `fate`: a turn is accepted
once and ends once; a spoken question (`ptt`) ends in no way but served, a typed one
(`direct`) may outlive its TTL, and only viewers' and the agenda's turns are ever
discarded. "Served" includes a generation that failed and a model that was away: what
is promised is that the turn had its go at the model, not that words came of it.

### AgendaController, Pregeneration, AgendaDriver

*State.* `agenda` is the controller; `cache` the slot, the marker
(`_pregen_inflight`), the workers, the stash, the detour count, the connector and
`_llm_generating`; `mirror` the driver's `_prefetch`. Epochs only serve to compare,
so a worker is `valid` as long as its own is current. `stale` and `dead` are history:
they mark whatever existed when a turn was committed, or when the persona changed or
the session was stopped, and no action reads them. `asks`, `items`, `hand`, `job`,
`playing`, `voice` and `ending` are what is left of the engine and the router: `voice`
says how far the utterance in `playing` is (taken, started, past its last look at the
token, heard with the flag armed, cut). `cancelled` is the token; `locked` what the
holder of `agenda_lock` is in the middle of, a return of the frozen beat or an emergency
stop. `straggles` is history: the cut came between the last look of what is in `playing`
and its arming.

| code | actions or operators |
|---|---|
| `KiraAgendaController`: `enable`, `soft_stop`, `emergency_stop`, `can_auto_resume`, `next_action`, `prefetch_action_after_current_speech`, `start_prefetched_action`, `accept_output`, `on_speech_complete`, `register_failure` | `Enabled`, `SoftStop`, `EmergencyStopped`, `AutoResume`, `NextAction`, `Preview`, `Adopted`, `AcceptEmpty`, `AcceptRejected`, `Accepted`, `SpeechComplete`, `Failed` |
| `pregenerate`, its worker, `_take_pregen_if_match`, the clears, `_commit_history` | `MaySpawn`, `Spawned`, `SpawnFailed`, `Landed`, `Released`, `Taken`, `Cleared...`, `Committed` |
| stash: freeze, discard, restore, `_note_detour_turn`, connector | `Frozen`, `Discarded`, `Restored`, `Noted`, `UpgradeFree`, `UpgradeLanded` |
| `AgendaDriver._tick_locked`, `_maybe_return_frozen_stash`, `_maybe_consume_prefetch` | `Tick`, `FinishReturn` (`Skips`, `Returns`, `Consumed`, `Decided`) |
| `route_motor_event_to_agenda`, `maybe_start_prefetch` | `SpeechStarts`, `SpeechEnded`, `Prefetching` |
| router and `_hablar` | `PickJob`, `DiscardJob`, `CheckToken`, `ArmVoice`, `SpeechFinishes` |
| session routes | `Enable`, `SoftStopSession` |
| emergency stop: `cancel_speech_for_sources`, `interrupt_speaking`, `drop_pending_sources` | `EmergencyStopSession`, `CutSpeech`, `DropItems`, `DropDraft`, `DropStash` |
| `_maybe_trigger_interactive_pregen` | `Triggered`, then `LateSpawn` |
| engine thread: pop, wait for a draft, speak, generate, commit, fail; `set_profile` | `Pop`, `EndWait`, `SpeakDraft`, `Generated`, `GenerationFailed`, `SetProfile`, `InvalidateStash` |
| workers | `WorkerEnds`, `WorkerReleases`, `ConnectorEnds` |

*Simplifications and named bounds.* A tick is one step (it holds `agenda_lock`),
except that the return of a frozen beat is two, because the engine can drop the
stash between the adoption and the restoration. Popping a turn and taking its draft
are one step, as are a draft's end and its storing. One trigger at a time is between
its gates and its spawn (`NoneLate`) and a third worker waits while two have not
ended (`WorkerFree`). A rejected draft's retry is a longer generation. At most one
agenda text per source is queued, as `replace_pending` ensures; a question is never
popped while she speaks (push-to-talk, which may, is left out here). Whether a
pause's cooldown has run and whether a stash is too old are parameters of `Tick`.
`turns` is capped at its maximum and the detour count saturates one above its own.
The emergency stop is five steps under `agenda_lock`, with the engine, the router and the
workers in between; its sweep of suspended speech has nothing to do here, where nothing
is suspended, and is in `SpeechRouter`.

*Left out.* Chat and streamer actions of the agenda, topic editing, the text
guardrails (their verdict is a choice), persistence, TTL of the queue and the
accumulation buffer (they are in `EngineLoop`), the cloud gate, the failure of the
driver's own spawn (that of a trigger is modelled), `resume()`, which nothing calls.

## 3. Runs

| run | bounds | result |
|---|---|---|
| `router` | three scenes of jobs of 2 fragments and 1 submitter: 1 job, owner or agenda, with a press and a stop; 2 with one of the two; or 3 that nest by preemption and sweeps | about 1.1 million states: `BoundaryBalanced`, `OneHome`, `HoldSilences`, `InterruptedOnlyByBareCut`, `PairAccounted`, `OutermostOnly`, `TerminalIsFinal` and the refinement `EventsSpec` hold |
| `router_live` | 2 streaming jobs of at most 1 chunk (owner, agenda, notice), 1 press | `JobsTerminate` and `PairsClose` hold under fairness |
| `pipeline` | 5 fragments, queue of 3 | `ResumeLosesNothing`, `NoFileForgotten` and the refinement `SliceSpec` hold; under fairness `AlwaysReturns` |
| `ptt` | 2 presses, 2 words, a turn needs 2 | `LiveMicIsHeld`, `AtMostOneTurn`, `DictationAccounted` hold; under fairness `HoldEnds`, `SlotIsFreed` |
| `engine` | 5 scenes of up to 3 turns (owner, viewer, agenda), 2 clients, queue and buffer of 1, command queue of 2, cache of 1 | `EveryTurnOneHome`, `DrainsKeepOrder`, `NoDoubleFire` and the refinement `LedgerSpec` hold; under fairness `NothingStrands` |
| `agenda` | 9 scenes: up to 2 topics of 2 turns, 3 questions, 2 sessions, stops, a profile change, 4 failures | `DraftsAreFresh`, `OneLiveGeneration`, `SlotHasWorker`, `ConnectorFits`, `OnlyStragglerIsHeard`, `StrandedOnlyByStop` hold; under fairness `SessionEnds`, `ReturnResolves` |
| `stt` | 2 children, 1 port, a starter, a tester, a LiveAudio by hand | about 2.3 million states: `OneChild`, `ExitIsOfChild` hold |
| `router_stop` | 1 agenda job, 1 emergency stop | **violated**: `StopSilencesAgenda` |
| `router_own_sweep` | 2 owner jobs, 1 press | **violated**: `SweepSparesOwnJob` |
| `pipeline_ledger` | 3 fragments | **violated**: `LedgerIsExact` |
| `ptt_one_session` | 2 presses | **violated**: `OneLiveSession` |
| `stt_gate` | 1 child, 2 ports, 1 starter | **violated**, under fairness: `GateOpens` |

*Why the bounds suffice to be interesting.* Two jobs give preemption, suspension,
resume and a sweep of the other; two fragments give a cut in the middle, hence a
resume from a non-zero cursor. Three jobs give a stack of depth two (an agenda
job suspended under an owner reply under a newer one), the least at which the
pair's owner is neither the top of the stack nor the running job, and a pair's
owner can be swept from under jobs that go on playing. An empty slice occurs in
`router_live`, as a stream sealed before its first chunk. Five fragments exceed
the queue of three by the one in the producer's hand and the one in the
consumer's, so every blocking position occurs. Two presses are the least at which
something late from the first can hurt the second. Two children are the least for a
pump thread that reads another child than its own, and for a respawn under a caller
that waits; two ports with one starter were checked without error in 4.3 million states. In `engine` a queue of one is
full with the second turn and a buffer of one with the second it takes, so every
trim and overflow happens; three turns are the least for a bundle with a follower
whose order can be wrong, and for two retries around an eviction. A *scene* of
`engine` or `agenda` fixes who asks and how often the outside may act; a run explores
every order of every scene. Two topics give a change of topic, two turns a
continuation and a goodbye; two questions interrupt one beat twice (a third, with a
second worker in flight, was checked without error as larger instances of the safety
properties, up to 5 million states). The safety properties of every module
do not rest on the bounds: they are proved (section 5).

*Fairness.* In `router_live` the router thread keeps running (its loop polls
every 0.25 s and playback of a fragment ends), a submit that has begun returns, a
streaming producer seals on every exit (its `finally` does), and a press is
released by the key or by the 15 s deadman. Nothing obliges a submit, a press or
a stop to happen, and starvation by newer jobs is bounded only by `MaxJobs`. In
`pipeline` only the consumer is fair: the synthesis thread may hang for ever. In
`ptt`, as long as a handler, a WebSocket thread or a timer can move, one does;
every press takes finitely many steps, so weak fairness of their disjunction is
enough. In `stt_gate` the routes and the pumps run, a thread that waits for
`ensure_lock` gets it in the end (strong fairness: others may pass it meanwhile, but no
holder keeps it), and the operator keeps pressing; without the last the violation would
only say that nobody pressed. The child owes nothing. In `engine` the engine thread runs, a drain that has begun goes on and speech
ends; nothing obliges anyone to ask, to retry or to drain, nor the sentinel to
arrive. In `agenda` the driver (whose cooldowns and holds do run out), the engine, the
router and the workers make progress as a whole; the owner and the viewers need not.

*Deadlock* checking is off: once all bounded submits, presses and stops are
spent, an idle system has nothing left to do.

## 4. Findings

1. `router_stop`: `_hablar` checks the cancel token, then arms `_speaking`
   unconditionally; the check after the arming looks at the hold and the pause
   request but not at the token. An emergency stop in between is undone and the
   agenda text plays with its source cancelled, against the docstring at
   `llm_engine_speech.py:252`. How far this goes is what `OnlyStragglerIsHeard` of the
   `agenda` run says: it is that one utterance, and nothing else of the agenda is heard.
2. `router_own_sweep`: an owner submit sweeps suspended owner speech after it
   has let the lock go. If the router has already started the new job and a press
   has suspended it, the sweep discards the newest answer.
3. `pipeline_ledger`: when the producer sees the cut first it ends the queue; a
   consumer already waiting reports a clean completion, so unheard fragments are
   in neither `spoken`, `skipped` nor pending.
4. `ptt_one_session`: a WebSocket thread whose `start()` has timed out may still
   connect and set LISTENING next to a newer session. (And if it connects between the end
   of the wait and `_state = IDLE`, the session is idle while its thread goes on
   receiving until the connection drops.)
5. `stt_gate`: `is_loading` (`supervisor.py:421`) asks neither whether the child lives
   nor is `_asr_state` reset when it exits, so a child that dies while its model loads
   keeps the gate of `post_ptt_start` closed, however often the operator presses, against
   the docstring at `src/opencohost/api/routers/ptt.py:131`. `POST /api/ptt/test` opens
   it if it comes to spawn another child; it does not if a LiveAudio started by hand
   answers the test.

Also seen, with no run of their own:

* `IdleSettles` (defined in `SpeechRouter`, not checked) is false: if a sweep
  takes the last suspended job and it is not the boundary owner, nothing
  re-checks `has_work` and `idle` is not emitted (`router.py:496`).
* A cut seen before a dequeue leaves the audio queue full, so the producer is blocked in
  `put` and the join waits out its 2 s; the comment at `llm_engine_speech.py:1160` says
  the producer always makes progress.
* Push-to-talk: the comment at `ptt_session.py:298` says of the text a starved
  hold has buffered that it is delivered, not discarded. It is handed on, but the answer of
  the dispatch is not looked at (`:554`): with the queue full, or when the callback
  raises (`:381`), the words are gone after the buffer was emptied.
  `DictationAccounted` therefore counts refusals apart.
* Audio files: a synthesis that fails after it has opened its file leaves it
  (`tts_piper.py:138`; `_drop` at `llm_engine_speech.py:801` removes nothing), and a
  failed `os.remove` is swallowed. `NoFileForgotten` exempts exactly these.
* STT: after a repoint the scan starts from the port repointed to, not from the
  configured one; `ensure_local_service` overwrites a URI that `PUT /api/ptt/config` set
  while it ran; a respawn keeps the port and the model state of the child before it, so
  the wait for its port may be answered with the old one (the probe that follows tells).
* The emergency stop clears the one shared flag, so it also cuts an owner or chat
  reply that plays at that moment; reconcile then discards it as interrupted.
  `InterruptedOnlyByBareCut` names exactly the sources that can do this.
* A stop handled while the session is still CONNECTING releases the hold, and the
  connect that follows opens the mic unheld until the watchdog ends it.
  `LiveMicIsHeld` therefore speaks of presses nobody has ended.
* Engine: `run()` takes an owner question off the command queue and enqueues it (busy)
  without `_direct_drain_lock`, so it may pass or be passed by one that a drain has
  in hand (`llm_engine.py:1132` and `:1279`; the comment at `:843` speaks of all).
  `DrainsKeepOrder` therefore speaks of turns the drains move. A parked control verb
  may be applied after one that was posted later and not parked, and before owner
  questions that were asked earlier.
* Two drafts can be generated at once (`OneGeneration`, defined in `AgendaDriver` and
  not checked, is false): `restore_frozen_stash` fills the slot while a worker is in
  flight, and a question may take a filled slot by priority although the docstring at
  `llm_engine_pregen.py:211` refuses a second spawn. What holds is
  `OneLiveGeneration`: the first worker's draft is never stored.
* `HeldBack`: a beat is frozen, its question has been noted, and the controller has
  left the boundary through a rejection or a pause. `_maybe_return_frozen_stash`
  holds every tick until the state is `WAITING_SIGNAL`, which only a tick would
  restore; the deadline (`agenda_driver.py:535`) applies only while no detour was
  noted. The session stalls until the operator acts.
* `Stranded`: an agenda generation that ends rejected after an emergency stop finds no
  topic and queued topics, and `register_failure` sets the state to idle
  (`kira_agenda_controller.py:1070`). The driver opens the next topic, whose speech
  the token refuses: the controller waits in `GENERATING` for ever, also after the
  next enable, which changes only `OFF`. `StrandedOnlyByStop` and `SessionEnds` name
  this state.
* Any speech advances the agenda: `route_motor_event_to_agenda` looks at the state
  only, so the answer to a question is taken for the agenda's own turn if it is
  spoken while a text of the agenda is queued.
* `set_profile` clears the slot and then the stash, without `agenda_lock`: the driver
  may return the stash in between, and the draft of the old persona is spoken
  (`llm_engine.py:1429` says it must never be). `DraftsAreFresh` exempts returned
  drafts for this reason.
* `set_profile` and `_commit_history` move the epoch before they change the prompt or
  the history; a worker spawned in between is taken for current. The model makes both
  one step.
* An agenda job refused by the token is classified finished, not cancelled, if
  the token is cleared between the refusal and the second read.

## 5. Proofs

Every invariant and every action property the passing runs check is proved for every
value of the constants, assuming only the named `ASSUME`s (the constants have their types).

| module | theorem | states |
|---|---|---|
| `SpeechRouterProofs` | `Invariance` | `Spec => []IInv` |
| | `TypeCorrect`, `CursorsStayInRange`, `BoundaryIsInductive` | `TypeOK`, `CursorsInRange`, `BoundaryInv` |
| | `Balanced`, `IdleIsOutside` | never more than one open pair; `idle` only outside it |
| | `EveryJobOneHome` | a live job is in exactly the place its state names |
| | `OnlyOutermostSpeaks`, `EveryPairAccounted` | only the boundary owner has started; an open pair has exactly one thing left to close it |
| | `ImplementsEvents` | `SpeechRouter` implements `SpeechEvents` (`speaking <- open > 0`) |
| | `HoldIsSilent`, `TerminalStaysFinal`, `PressLosesNoJob` | nothing plays into a held mic; no step moves an ended job; no job is lost to a press |
| | `RouterPlaysByTheCall`, `RouterMissesNoCall` | the router's playback is a call of `SpeechSlice`, and all of it |
| `SpeechPipelineProofs` | `TypeCorrect`, `ResumeIsExact`, `NothingRepeated`, `FilesAccounted` | the reported cursor is exact after a cut; a joined producer leaves no file but strays |
| | `ImplementsSlice` | `SpeechPipeline` implements `SpeechSlice` |
| `SttServiceProofs` | `Invariance`, `TypeCorrect`, `OneChildRuns`, `ExitIsBelieved` | `IInv`, `TypeOK`, `OneChild`, `ExitIsOfChild` |
| `PttControllerProofs` | `TypeCorrect`, `LiveMicIsAlwaysHeld`, `OneTurnAtMost`, `EveryDictationCounts` | the newest live mic is held; dictation makes one turn at most, and a turn's worth makes one unless it is refused |
| `EngineLoopProofs` | `TypeCorrect`, `NoTurnLostOrDoubled`, `OwnersKept`, `DrainsKeepTheOrder`, `RetriesReplay` | `EveryTurnOneHome`, `OwnersAreKept` (an invariant of the proofs, not of a run), `DrainsKeepOrder`, `NoDoubleFire` |
| | `ImplementsLedger` | `EngineLoop` implements `TurnLedger` |
| `AgendaDriverProofs` | `TypeCorrect`, `DraftsStayFresh`, `OneDraftComes`, `MarkerIsReleased`, `ConnectorsFit`, `OnlyOneStraggles`, `WaitsForSomething` | `DraftsAreFresh`, `OneLiveGeneration`, `SlotHasWorker`, `ConnectorFits`, `OnlyStragglerIsHeard`, `StrandedOnlyByStop` |

`AgendaControllerProofs` and `PregenerationProofs` hold the lemmas on which the last
row rests: what each method of the two classes preserves.

*The arguments.* None of the properties is inductive as it stands; each proofs module
states the strengthening and why it is needed, and has one step per action.

* *Router*: `TypeOK /\ CursorsInRange /\ BoundaryInv`. A resumed slice has
  `chunks - cursor` fragments, a natural number only while the cursor is in range,
  and it stays so only because an outcome never reports more than the slice.
  `BoundaryBalanced` depends on who claimed the pair, on whether that job still lives
  and on an end being owed at most once. `PressLosesNoJob` and `HoldIsSilent` need
  more about the hold and the cut (`HoldInv`, `CutInv`).
* *Pipeline*: what the cursor says follows from where the end of the queue stands in
  the slice. `QueueInv`: the queue holds, in order, the fragments the producer has
  left and the consumer has not taken, although a placeholder for a lost fragment
  does not say which one it stands for; so what was taken is settled one by one.
  The refinement of `SpeechSlice` needs `FlagInv` besides: an end of the queue that
  comes short of the last fragment, and an outcome marked interrupted, are only met with
  the flag down, which stays down until the call has returned (the router thread that
  made the call is the only one to raise it). The end marker is only met when the
  producer is done (`MarkerIsLast`), so a lost fragment is a move of `at`, never a return.
* *Router and pipeline together*: `SpeechSlice` is what passes between them. One way,
  each router step during a playback is a step of the call, or a raise before the first
  fragment, and the call begins at 0 (`CallInv`: from the entry of `_hablar` to its
  return the outcome reports nothing but progress). The other way, for a router in its
  invariant, every move and every return of the call is a `Playback` step. So a
  behaviour of the pipeline is neither missed by the router's model nor made up in it,
  but that the router is told less: not which fragments were heard.
* *STT*: `TypeOK` is not inductive, since a caller that probes a candidate must have
  one. A child that is up is the one in hand or the one `shutdown` is ending
  (`ChildInv`). The exit on record is right although any pump may read any child,
  because a pump that ends believes only the exit of the child in hand, and the pump of
  the child in hand reads that very child (`ExitInv`).
* *Push-to-talk*: a hold is safe because of how far the WebSocket thread of its press
  has come (`NewestPressHolds`): nobody releases the newest press's hold before that
  thread is done or the press was ended. A turn is sent once because of what the
  buffer contains when (`Delivery`).
* *Engine*: a turn is in one place because a thread takes one only with empty hands
  (`HandsInv`) and the engine drains only at its own program point. The order of the
  drains needs `OrderInv`: the command queue is sorted by arrival, what is drained
  was asked before what is still queued, and the turn in the drainer's hand is the
  latest drained. `NoDoubleFire` needs that the keys on record are those in the
  cache and older, evicted ones (`KeysInv`), and counts. `TurnLedger` follows from two
  of these: what a step ends is what it takes from some place, so it was live
  (`Homes`), and what it discards was accumulated or trimmed, so the owner did not ask
  it (`OwnersAreKept`).
* *Agenda*: a fresh draft needs that a worker whose epoch is current is itself fresh
  (every commit that outdates it moves the epoch in the same step), that such a worker
  is the one the marker names and the slot is empty (`PartsOK`), and, because the
  stash outlives the slot for a moment when the persona changes, that a draft returned
  in that moment sits in the slot only while nothing is spoken and nobody is about to
  spawn (`DeadInv`), so that it cannot be frozen again. Nobody is stranded because
  every decision that lets the controller wait enqueues a text in the same step
  (`Honest`) and every other step that takes a text away puts it where it is seen
  again, moves the controller on or is a stop's. Only a straggler is heard because
  nothing passes its last look at the token while that stands (`StopInv`): what is armed
  after the cut had passed it before, and was in the router's hands at the cut.

*Only proved.* The `router` run has no streaming producer: that
`InterruptedOnlyByBareCut` holds while a chunk list grows is shown by `PressLosesNoJob`
alone.

*Only model-checked.* Liveness (`JobsTerminate`, `PairsClose`, `AlwaysReturns`,
`HoldEnds`, `SlotIsFreed`, `NothingStrands`, `SessionEnds`, `ReturnResolves`):
liveness under fairness and `ENABLED` are beyond the proof system. Where a condition
ends at once if it does not hold, "P leads to Q" is written as its equivalent `[]<>Q`
(`HoldEnds`, `SlotIsFreed`, `SessionEnds`, `ReturnResolves`).

## 6. Not modelled, and what is left to do

* *Cloud fallback.* Provider epochs and the prober; only the spoken notice appears.
* *Avatar.* The flap timer and the connection loop; the events they consume are
  `SpeechEvents`.
* *Memory promotion.* The bounded retry of failed promotions, on rows of SQLite.
* *Composition.* `EngineLoop` sees the router as one flag and one sentinel;
  `AgendaDriver` sees engine and router as one turn in hand and one utterance.
  Neither is shown to be an abstraction of `SpeechRouter` beyond `SpeechEvents`, and
  the press and release of `SpeechRouter` are not derived from `PttController`.
* Not planned: the chat aggregator, prompts, profiles, i18n and configuration (text
  and scoring, no concurrency of their own); music bed, stream administration, OBS
  client, packaging (calls to other programs); HTTP mapping and authentication; the
  memory v5 shadow, which by design changes nothing a turn reads.
