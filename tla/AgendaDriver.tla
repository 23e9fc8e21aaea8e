---------------------------- MODULE AgendaDriver ----------------------------
(***************************************************************************)
(* An agenda session: the driver thread (api/agenda_driver.py), the motor  *)
(* events and the routes that act on the controller under agenda_lock, and *)
(* the engine and its pregeneration workers, which do not take that lock.  *)
(* Of the engine and the router only what the agenda sees of them is here: *)
(* owner questions and agenda texts in the priority queue, the turn in     *)
(* hand, and one utterance after the other.                                *)
(***************************************************************************)
EXTENDS AgendaController, Pregeneration, Sequences

CONSTANTS Scenes   \* how often may happen what the outside decides: a set of
                   \* records of budgets

ASSUME DriverAssumption ==
  /\ AgendaTexts \subseteq Texts
  /\ Scenes \subseteq [topics : 0..Topics, asks : Nat, enables : Nat, stops : Nat, emergencies : Nat,
                        profiles : Nat, faults : Nat]
  /\ \A s \in Scenes : \A q \in 1..s.asks : <<"ask", q>> \in Texts

VARIABLES
  agenda,     \* the KiraAgendaController
  cache,      \* the engine's drafts
  mirror,     \* the driver's _prefetch: the text it expects a draft of
  locked,     \* what whoever holds agenda_lock is in the middle of
  asks,       \* the owner questions in the priority queue
  items,      \* the agenda texts in the priority queue
  hand,       \* the engine thread: what it does, with which turn
  job,        \* an utterance the router has queued,
  playing,    \* the one it has taken,
  voice,      \* how far that is with being spoken,
  ending,     \* and whether it still owes the speaking_end of one
  late,       \* a pregeneration that passed its gates and is about to spawn
  cancelled,  \* the speech of the agenda is cancelled
  straggles,  \* history: what is taken had passed its last check at the cut
  left        \* what may still happen

driver == <<mirror, locked>>
queue == <<asks, items>>
router == <<job, playing, voice, ending>>
token == <<cancelled, straggles>>
speech == <<router, token>>
vars == <<agenda, cache, driver, queue, hand, speech, late, left>>

AtRest == [st |-> "idle", text |-> <<"ask", 0>>, draft |-> {}, rest |-> <<>>]

Init ==
  /\ left \in Scenes
  /\ agenda = [NewAgenda EXCEPT !.opened = Topics - left.topics]
  /\ cache = NewCache
  /\ mirror = {} /\ locked = "no"
  /\ asks = <<>> /\ items = <<>> /\ hand = AtRest
  /\ job = {} /\ playing = {} /\ voice = "off" /\ ending = FALSE
  /\ late = {} /\ cancelled = FALSE /\ straggles = FALSE

\* One of the budgets is used.
Spend(what) == left[what] > 0 /\ left' = [left EXCEPT ![what] = @ - 1]

\* Nobody is inside a tick ("return": the frozen beat is adopted and has still to be
\* restored) or inside an emergency stop (the steps it has before it).
AgendaLockFree == locked = "no"
Stopping == {"cut", "items", "draft", "stash"}

-----------------------------------------------------------------------------
(* What the engine lets others see. *)

IsSpeaking == job # {} \/ playing # {}
IsProcessing == hand.st \in {"ready", "generate"}

\* _has_non_agenda_audio_work: speech that has not started has no source yet.
OtherAudioWork ==
  \/ IsProcessing /\ Asked(hand.text)
  \/ IsSpeaking /\ (voice = "picked" \/ \A x \in playing : Asked(x))

HeadOf(qs, its) ==
  IF qs # <<>> THEN {<<"ask", qs[1]>>} ELSE IF its # <<>> THEN {its[1]} ELSE {}

\* The draft in the slot, or the one in flight, is of this text.
Occupies(c, x) == Holds(c, x) \/ InFlightFor(c, x)

\* _maybe_trigger_interactive_pregen: the head of the queue is worth a draft
\* while she speaks and the model is free, unless a bundle will take it.
Triggered(c, qs, its) ==
  {x \in HeadOf(qs, its) : /\ IsSpeaking /\ ~c.llm /\ ~IsProcessing
                           /\ Asked(x) => Len(qs) < 2
                           /\ ~Occupies(c, x)}

\* Named bound: one trigger at a time is between its gates and its spawn.
NoneLate == late = {}

\* Named bound: a third worker thread does not start while two have not ended.
WorkerFree == \E w \in Workers : cache.work[w].st = "off"

\* The trigger's pregenerate: the head may have been taken meanwhile.
LateSpawn ==
  \E x \in late :
    /\ WorkerFree
    /\ late' = {}
    /\ IF MaySpawn(cache, x)
       THEN \/ cache' = Spawned(cache, x) /\ UNCHANGED left
            \/ cache' = SpawnFailed(cache) /\ Spend("faults")
       ELSE UNCHANGED <<cache, left>>
    /\ UNCHANGED <<agenda, driver, queue, hand, speech>>

-----------------------------------------------------------------------------
(* The driver: what a tick or an event makes of the state under agenda_lock. *)

World == [agenda |-> agenda, cache |-> cache, mirror |-> mirror, items |-> items]

Becomes(o) ==
  /\ agenda' = o.agenda /\ cache' = o.cache /\ mirror' = o.mirror
  /\ items' = o.items
  /\ late' = IF o.items = items THEN late ELSE Triggered(o.cache, asks, o.items)

\* replace_pending drops what the same source has queued, so at most one item of
\* each of the two sources is.
SameSource(x, y) == (x[1] = "closing") = (y[1] = "closing")
Replaced(its, text) ==
  LET kept == {i \in 1..Len(its) : ~SameSource(its[i], text)}
  IN  IF kept = {} THEN <<text>> ELSE <<its[CHOOSE i \in kept : TRUE], text>>

\* enqueue_agenda_action, with the driver's mirror dropped.
Enqueued(o, text) ==
  [o EXCEPT !.cache = ClearedUnless(@, text), !.mirror = {},
            !.items = Replaced(@, text)]

\* _clear_prefetch.
Dropped(o) == [o EXCEPT !.mirror = {}, !.cache = ClearedAgenda(@)]

\* The mirror's topic is not the active one (or there is none).
Astray(o) == \A x \in o.mirror : x[2] # o.agenda.topic \/ x[2] = 0

\* _maybe_consume_prefetch: whether it settles the tick, and what it does.
Waits(o) == \* the draft is still being generated
  /\ o.cache.frozen = {} /\ o.mirror # {} /\ ~Astray(o)
  /\ o.agenda.st = "waiting" /\ asks = <<>> /\ ~OtherAudioWork
  /\ ~HoldsAgenda(o.cache) /\ Pending(o.cache)

Ready(o) ==
  /\ o.cache.frozen = {} /\ o.mirror # {} /\ ~Astray(o)
  /\ o.agenda.st = "waiting" /\ asks = <<>> /\ ~OtherAudioWork
  /\ HoldsAgenda(o.cache)

Consumed(o) ==
  IF o.cache.frozen # {} \/ o.mirror = {} \/ Waits(o) THEN o
  ELSE IF Astray(o) THEN Dropped(o)
  ELSE IF o.agenda.st # "waiting" THEN o
  ELSE IF ~Ready(o) THEN Dropped(o)
  ELSE LET text == CHOOSE x \in o.mirror : TRUE
       IN  Enqueued([o EXCEPT !.agenda = Adopted(@, text)], text)

\* _discard_frozen.
Skipped(o) == [o EXCEPT !.cache = Discarded(@), !.mirror = {}]

\* Mutant: no backstop for a beat whose question is never noted.
SkipsUnaged(o, aged) ==
  \/ o.mirror = {} \/ Astray(o)
  \/ o.agenda.st \in {"off", "hard", "closing"}
  \/ o.cache.detour > DetourMax

\* _maybe_return_frozen_stash: the beat is skipped, returns, or is held back;
\* aged: it has been held for FROZEN_STASH_MAX_HOLD_SECONDS.
Skips(o, aged) ==
  \/ o.mirror = {} \/ Astray(o)
  \/ o.agenda.st \in {"off", "hard", "closing"}
  \/ o.cache.detour > DetourMax
  \/ o.cache.detour = 0 /\ aged

Returns(o) ==
  /\ o.cache.detour > 0 /\ o.agenda.st = "waiting"
  /\ ~OtherAudioWork /\ asks = <<>>

-----------------------------------------------------------------------------
(* The rest of a tick, in the order of _tick_locked. *)

Decided(o, due) ==
  LET a == IF o.agenda.st = "paused" THEN AutoResume(o.agenda, due) ELSE o.agenda
      d == NextAction(a, IsProcessing \/ IsSpeaking)
      b == [o EXCEPT !.agenda = d.agenda]
  IN  IF a.st \in {"paused", "hard"} \/ asks # <<>> THEN [o EXCEPT !.agenda = a]
      ELSE IF d.text # {} THEN Enqueued(b, CHOOSE x \in d.text : TRUE)
      ELSE IF b.agenda.st = "idle" /\ b.agenda.topic = 0 /\ ~Queued(b.agenda)
           THEN [b EXCEPT !.agenda.st = "off"]
      ELSE b

Ticked(o, due) ==
  IF o.agenda.st \in {"off", "hard"}
  THEN IF o.mirror # {} THEN Dropped(o) ELSE o
  ELSE IF Waits(o) \/ Ready(o) THEN Consumed(o)
  ELSE Decided(Consumed(o), due)

\* One tick; due: the cooldown of a pause has run.
Tick(due, aged) ==
  /\ AgendaLockFree /\ NoneLate
  /\ LET o == World IN
     IF cache.frozen = {} \/ agenda.st = "paused"
     THEN Becomes(Ticked(o, due)) /\ UNCHANGED locked
     ELSE IF Skips(o, aged)
     THEN Becomes(Ticked(Skipped(o), due)) /\ UNCHANGED locked
     ELSE /\ Returns(o)
          /\ \E x \in mirror : agenda' = Adopted(agenda, x)
          /\ locked' = "return"
          /\ UNCHANGED <<cache, mirror, items, late>>
  /\ UNCHANGED <<asks, hand, speech, left>>

\* Mutant: a beat whose stash was dropped is not enqueued.
FinishRestored ==
  /\ locked = "return" /\ NoneLate
  /\ IF cache.frozen = {}
     THEN mirror' = {} /\ UNCHANGED <<agenda, cache, items, late>>
     ELSE \E x \in mirror : Becomes(Enqueued([World EXCEPT !.cache = Restored(@)], x))
  /\ locked' = "no"
  /\ UNCHANGED <<asks, hand, speech, left>>

\* The second half of the return: the engine may have dropped the stash meanwhile;
\* the adopted turn is enqueued either way.
FinishReturn ==
  /\ locked = "return" /\ NoneLate
  /\ \E x \in mirror :
       Becomes(Enqueued([World EXCEPT !.cache = IF @.frozen = {} THEN @
                                                ELSE Restored(@)], x))
  /\ locked' = "no"
  /\ UNCHANGED <<asks, hand, speech, left>>

-----------------------------------------------------------------------------
(* The motor's events and the routes. *)

\* maybe_start_prefetch: only while she speaks for the agenda.
Prefetching(o, spoken) ==
  {x \in Preview(o.agenda) : /\ o.mirror = {} /\ ~Asked(spoken) /\ asks = <<>>
                             /\ MaySpawn(o.cache, x)}

\* Mutant: the token is not looked at.
HeardAnyway(x) == TRUE

\* The token lets it be spoken.
Heard(x) == cancelled => Asked(x)

\* The router takes a job, but for one whose speech is cancelled.
PickJob ==
  /\ ~ending /\ playing = {}
  /\ \E x \in job : Heard(x) /\ playing' = {x} /\ job' = job \ {x}
  /\ voice' = "picked"
  /\ UNCHANGED <<agenda, cache, driver, queue, hand, ending, token, late, left>>

DiscardJob ==
  /\ ~ending /\ playing = {}
  /\ \E x \in job : ~Heard(x) /\ job' = job \ {x}
  /\ UNCHANGED <<agenda, cache, driver, queue, hand, playing, voice, ending, token, late, left>>

\* speaking_start: whatever is spoken, a controller that waits for its own turn to
\* be spoken takes it for its own.
SpeechStarts ==
  /\ AgendaLockFree /\ WorkerFree /\ voice = "picked"
  /\ \E x \in playing :
       LET own == agenda.st \in {"speaking", "generating", "closing"}
           o == [World EXCEPT !.agenda = IF own THEN Accepted(@) ELSE @]
           ahead == IF own THEN Prefetching(o, x) ELSE {}
       IN  /\ agenda' = o.agenda
           /\ mirror' = IF ahead = {} THEN mirror ELSE ahead
           /\ cache' = IF ahead = {} THEN cache
                       ELSE Spawned(cache, CHOOSE y \in ahead : TRUE)
  /\ voice' = "started"
  /\ UNCHANGED <<locked, queue, hand, job, playing, ending, token, late, left>>

\* _hablar and _hablar_impl look at the token for the last time,
CheckToken ==
  /\ voice = "started"
  /\ IF \A x \in playing : Heard(x)
     THEN voice' = "checked" /\ UNCHANGED <<playing, ending>>
     ELSE voice' = "off" /\ playing' = {} /\ ending' = TRUE
  /\ UNCHANGED <<agenda, cache, driver, queue, hand, job, token, late, left>>

\* and only then arm the flag by which speech is cut.  Under an answer the connector
\* of a frozen beat may be generated.
ArmVoice ==
  /\ voice = "checked"
  /\ voice' = "heard"
  /\ \/ UNCHANGED cache
     \/ /\ \A x \in playing : Asked(x)
        /\ UpgradeFree(cache) /\ ~IsProcessing
        /\ cache' = [cache EXCEPT !.upgrade = "own", !.llm = TRUE]
  /\ UNCHANGED <<agenda, driver, queue, hand, job, playing, ending, token, late, left>>

\* All is spoken, or the consumer has seen the cut.
SpeechFinishes ==
  /\ voice \in {"heard", "cut"}
  /\ voice' = "off" /\ playing' = {} /\ ending' = TRUE /\ straggles' = FALSE
  /\ UNCHANGED <<agenda, cache, driver, queue, hand, job, cancelled, late, left>>

\* speaking_end: the turn is complete, and a draft that is ready is consumed.
SpeechEnded ==
  /\ AgendaLockFree /\ NoneLate /\ ending
  /\ ending' = FALSE
  /\ IF agenda.st \in {"speaking", "generating"}
     THEN Becomes(Consumed([World EXCEPT !.agenda = SpeechComplete(@)]))
     ELSE UNCHANGED <<agenda, cache, mirror, items, late>>
  /\ UNCHANGED <<locked, asks, hand, job, playing, voice, token, left>>

\* POST /api/agenda/session/action.
Enable ==
  /\ AgendaLockFree
  /\ Queued(agenda) \/ agenda.topic # 0
  /\ Spend("enables")
  /\ agenda' = Enabled(agenda) /\ cancelled' = FALSE
  /\ UNCHANGED <<cache, driver, queue, hand, router, straggles, late>>

\* The route of a soft stop enqueues without the driver: its mirror is kept.
SoftStopSession ==
  /\ AgendaLockFree /\ NoneLate
  /\ Spend("stops")
  /\ LET d == SoftStop(agenda)
         o == [World EXCEPT !.agenda = d.agenda]
     IN  Becomes(IF d.text = {} THEN o
                 ELSE [Enqueued(o, CHOOSE x \in d.text : TRUE)
                         EXCEPT !.mirror = mirror])
  /\ UNCHANGED <<locked, asks, hand, speech>>

\* The emergency stop, under agenda_lock, which the engine, the router's voice and the
\* workers do not take: the session is off and its speech cancelled,
EmergencyStopSession ==
  /\ AgendaLockFree
  /\ Spend("emergencies")
  /\ agenda' = EmergencyStopped(agenda)
  /\ cancelled' = TRUE
  /\ locked' = "cut"
  /\ UNCHANGED <<cache, mirror, queue, hand, router, straggles, late>>

\* whoever speaks is cut, which does nothing to what has yet to be armed,
CutSpeech ==
  /\ locked = "cut"
  /\ voice' = IF voice = "heard" THEN "cut" ELSE voice
  /\ straggles' = (voice = "checked")
  /\ locked' = "items"
  /\ UNCHANGED <<agenda, cache, mirror, queue, hand, job, playing, ending, cancelled, late, left>>

\* what is queued is dropped,
DropItems ==
  /\ locked = "items"
  /\ items' = <<>>
  /\ locked' = "draft"
  /\ UNCHANGED <<agenda, cache, mirror, asks, hand, speech, late, left>>

\* then the draft,
DropDraft ==
  /\ locked = "draft"
  /\ cache' = Cleared(Outdated(cache))
  /\ locked' = "stash"
  /\ UNCHANGED <<agenda, mirror, queue, hand, speech, late, left>>

\* then the stash.
DropStash ==
  /\ locked = "stash"
  /\ cache' = Discarded(cache)
  /\ locked' = "no"
  /\ UNCHANGED <<agenda, mirror, queue, hand, speech, late, left>>

-----------------------------------------------------------------------------
(* Owner questions and the engine thread. *)

\* A question is answered at once by an engine that is idle, and queued else.
Ask ==
  /\ NoneLate
  /\ Spend("asks")
  /\ LET q == left.asks IN
     IF hand.st = "idle" /\ ~IsSpeaking
     THEN /\ hand' = [AtRest EXCEPT !.st = "generate", !.text = <<"ask", q>>]
          /\ cache' = [Noted(cache, <<"ask", q>>) EXCEPT !.llm = TRUE]
          /\ UNCHANGED <<asks, late>>
     ELSE /\ asks' = Append(asks, q)
          /\ late' = Triggered(cache, asks', items)
          /\ UNCHANGED <<hand, cache>>
  /\ UNCHANGED <<agenda, driver, items, speech>>

\* A turn is to be spoken from its draft or generated, an owner question (unless
\* it has a draft) with those queued behind it.
Speakable(x, d, c) ==
  /\ hand' = [AtRest EXCEPT !.st = "ready", !.text = x, !.draft = d]
  /\ cache' = Noted(c, x)

Generates(x, c, qs) ==
  LET rest == IF Asked(x) THEN qs ELSE <<>>
      absorbed == {<<"ask", rest[i]>> : i \in 1..Len(rest)}
  IN  /\ hand' = [AtRest EXCEPT !.st = "generate", !.text = x, !.rest = rest]
      /\ cache' = [Noted(ClearedFor(c, absorbed), x) EXCEPT !.llm = TRUE]
      /\ asks' = IF Asked(x) THEN <<>> ELSE qs

\* Nothing is popped while she speaks.
Pop ==
  /\ hand.st = "idle" /\ ~IsSpeaking
  /\ \E x \in HeadOf(asks, items) :
       LET qs == IF Asked(x) THEN Tail(asks) ELSE asks IN
       /\ items' = IF Asked(x) THEN items ELSE Tail(items)
       /\ IF Holds(cache, x)
          THEN Speakable(x, cache.slot, Taken(cache)) /\ asks' = qs
          ELSE IF InFlightFor(cache, x)
          THEN /\ hand' = [AtRest EXCEPT !.st = "waiting", !.text = x]
               /\ asks' = qs /\ UNCHANGED cache
          ELSE Generates(x, cache, qs)
  /\ UNCHANGED <<agenda, driver, speech, late, left>>

\* _wait_or_invalidate_pregen: the worker is done or the watchdog's time is over.
EndWait ==
  /\ hand.st = "waiting"
  /\ IF Holds(cache, hand.text)
     THEN Speakable(hand.text, cache.slot, Taken(cache)) /\ UNCHANGED asks
     ELSE Generates(hand.text, cache, asks)
  /\ UNCHANGED <<agenda, driver, items, speech, late, left>>

\* _speak_or_submit: the router looks at the token when it takes the job.
Submit(x) == job' = job \cup {x}

\* _speak_pregenerated.
SpeakDraft ==
  /\ hand.st = "ready"
  /\ cache' = Committed(cache)
  /\ Submit(hand.text)
  /\ hand' = AtRest
  /\ UNCHANGED <<agenda, driver, queue, playing, voice, ending, token, late, left>>

\* The answer is accepted (by the controller if it is the agenda's), committed
\* and submitted.
Generated ==
  /\ hand.st = "generate"
  /\ IF Asked(hand.text) THEN UNCHANGED agenda
     ELSE AgendaLockFree /\ agenda' = Succeeded(agenda)
  /\ cache' = [Committed(cache) EXCEPT !.llm = FALSE]
  /\ Submit(hand.text)
  /\ hand' = AtRest
  /\ UNCHANGED <<driver, queue, playing, voice, ending, token, late, left>>

\* Nothing came of it, or the controller's guardrails refused it; the questions
\* that were bundled are queued again.
GenerationFailed ==
  /\ hand.st = "generate"
  /\ Spend("faults")
  /\ IF Asked(hand.text) THEN UNCHANGED agenda
     ELSE AgendaLockFree /\ agenda' \in {AcceptEmpty(agenda), AcceptRejected(agenda)}
  /\ cache' = [Cleared(cache) EXCEPT !.llm = FALSE]
  /\ asks' = hand.rest \o asks
  /\ hand' = AtRest
  /\ UNCHANGED <<driver, items, speech, late>>

\* set_profile, between two turns, clears the slot and then the stash, without
\* agenda_lock.
SetProfile ==
  /\ hand.st = "idle" /\ ~IsSpeaking
  /\ Spend("profiles")
  /\ cache' = Cleared(Outdated(cache))
  /\ hand' = [AtRest EXCEPT !.st = "settle"]
  /\ UNCHANGED <<agenda, driver, queue, speech, late>>

InvalidateStash ==
  /\ hand.st = "settle"
  /\ cache' = Discarded(cache)
  /\ hand' = AtRest
  /\ UNCHANGED <<agenda, driver, queue, speech, late, left>>

-----------------------------------------------------------------------------
(* The pregeneration workers. *)

WorkerEnds(w) ==
  /\ cache.work[w].st = "gen"
  /\ \/ cache' = Landed(cache, w, TRUE) /\ UNCHANGED left
     \/ cache' = Landed(cache, w, FALSE) /\ Spend("faults")
  /\ UNCHANGED <<agenda, driver, queue, hand, speech, late>>

\* Whoever frees the slot looks at the head of the queue again, unless the head is
\* what it has just worked on.
WorkerReleases(w) ==
  /\ cache.work[w].st = "landed"
  /\ cache' = Released(cache, w)
  /\ IF cache.marker = w
     THEN /\ NoneLate
          /\ late' = Triggered(cache', asks, items) \ {cache.work[w].text}
     ELSE UNCHANGED late
  /\ UNCHANGED <<agenda, driver, queue, hand, speech, left>>

ConnectorEnds ==
  /\ cache.upgrade # "off"
  /\ \E line \in BOOLEAN : cache' = UpgradeLanded(cache, line)
  /\ UNCHANGED <<agenda, driver, queue, hand, speech, late, left>>

-----------------------------------------------------------------------------

EngineStep ==
  \/ Pop \/ EndWait \/ SpeakDraft \/ Generated \/ GenerationFailed
  \/ InvalidateStash

SpeechStep ==
  \/ PickJob \/ DiscardJob \/ SpeechStarts \/ CheckToken \/ ArmVoice
  \/ SpeechFinishes \/ SpeechEnded

StopStep == CutSpeech \/ DropItems \/ DropDraft \/ DropStash

WorkerStep ==
  \/ \E w \in Workers : WorkerEnds(w) \/ WorkerReleases(w)
  \/ ConnectorEnds \/ LateSpawn

Next ==
  \/ \E due, aged \in BOOLEAN : Tick(due, aged)
  \/ FinishReturn
  \/ Enable \/ SoftStopSession \/ EmergencyStopSession
  \/ Ask \/ SetProfile
  \/ StopStep \/ EngineStep \/ SpeechStep \/ WorkerStep

Spec == Init /\ [][Next]_vars

\* As long as the driver, whose pauses and holds come to their time, the engine,
\* the router or a worker can move, one of them does.  The owner does as he likes.
\* (The budgets make every session finite, so this is enough.)
Progress ==
  Tick(TRUE, TRUE) \/ FinishReturn \/ StopStep \/ EngineStep \/ SpeechStep \/ WorkerStep
FairSpec == Spec /\ WF_vars(Progress)

-----------------------------------------------------------------------------

TypeOK ==
  /\ agenda \in AgendaRecord
  /\ cache \in CacheRecord
  /\ Cardinality(cache.slot) <= 1 /\ Cardinality(cache.frozen) <= 1
  /\ mirror \subseteq AgendaTexts /\ Cardinality(mirror) <= 1
  /\ locked \in {"no", "return"} \cup Stopping
  /\ asks \in Seq(Nat) /\ items \in Seq(AgendaTexts)
  /\ hand.st \in {"idle", "waiting", "ready", "generate", "settle"}
  /\ hand.text \in Texts \cup {AtRest.text} /\ hand.draft \subseteq Draft
  /\ hand.rest \in Seq(Nat)
  /\ job \subseteq Texts /\ playing \subseteq Texts
  /\ voice \in {"off", "picked", "started", "checked", "heard", "cut"}
  /\ ending \in BOOLEAN /\ cancelled \in BOOLEAN /\ straggles \in BOOLEAN
  /\ late \subseteq Texts /\ Cardinality(late) <= 1

\* A draft that waits to be spoken was generated for the history and the persona
\* as they are, but for one that returns from the stash; nothing outdated is
\* kept frozen, but while a profile is being changed or a session stopped.
\* (llm_engine.py:1429.)
DraftsAreFresh ==
  /\ \A d \in cache.slot : d.resumed \/ ~(d.stale \/ d.dead)
  /\ \A d \in cache.frozen : d.dead => hand.st = "settle" \/ locked = "stash"

\* A worker whose draft may still be stored holds the slot, and the slot is empty: no
\* two of them generate at once, and no draft that waits is overwritten.
\* (llm_engine_pregen.py:211, :353 and :387; llm_engine_agenda.py:103.)
OneLiveGeneration ==
  \A w \in Workers :
    cache.work[w].st = "gen" /\ cache.work[w].valid => cache.marker = w /\ cache.slot = {}

\* No two drafts are generated at once on the single model.  Not checked, for it is
\* false: a stash that returns while a worker is in flight makes the slot look like
\* one that may be taken by priority.  (llm_engine_pregen.py:214.)
OneGeneration ==
  \A w \in Workers : cache.work[w].st = "gen" => cache.marker = w

\* The slot is only ever held by a worker that has yet to release it, even if a
\* thread does not start or ends late: it is never lost to the drafts to come.
\* (llm_engine_pregen.py:408.)
SlotHasWorker ==
  cache.marker # Nobody => cache.work[cache.marker].st # "off"

\* A connector is only ever kept with the beat it was made for.
\* (llm_engine_agenda.py:271.)
ConnectorFits ==
  \A d \in cache.slot \cup cache.frozen \cup hand.draft : d.conn # "alien"

\* The agenda texts that are queued, in hand or with the router.
AgendaTurns ==
  {items[i] : i \in 1..Len(items)}
    \cup {x \in {hand.text} : hand.st \in {"waiting", "ready", "generate"}}
    \cup job \cup playing

\* The controller waits for a turn of which there is no trace.
Stranded ==
  /\ agenda.st = "generating" /\ locked # "return" /\ ~ending
  /\ \A x \in AgendaTurns : Asked(x)

\* A controller that waits for its turn has one coming, whatever takes its draft or
\* its stash meanwhile: no step strands it, but while its speech is cancelled.
\* (agenda_driver.py:563.)
StrandedOnlyByStop == [][Stranded' => Stranded \/ cancelled]_vars

\* Once an emergency stop has cut the voice, nothing of the agenda is heard until a
\* session is enabled again, though its generation may end and be submitted later:
\* but for one utterance that had passed its last look at the token and was not armed
\* yet, which no cut reaches.  (routers/agenda.py:323, llm_engine_speech.py:719.)
OnlyStragglerIsHeard ==
  cancelled /\ locked # "cut" /\ voice = "heard" =>
    straggles \/ \A x \in playing : Asked(x)

\* A frozen beat holds the driver back while the controller, which left the
\* boundary by a rejection or a pause, cannot reach it again.
HeldBack == cache.frozen # {} /\ agenda.st \in {"regen", "idle"}

\* A session comes to its end, whatever is asked, rejected or interrupted: neither
\* a lost draft nor a beat that waits for a question stalls it, but for HeldBack and a
\* controller that the token has stranded.  (llm_engine_agenda.py:45.)
SessionEnds == []<>(agenda.st \in {"off", "hard"} \/ HeldBack \/ Stranded)

\* A frozen beat returns or is dropped, even if the question it made way for is
\* never noted as a detour, but for HeldBack.  (agenda_driver.py:525.)
ReturnResolves == []<>(cache.frozen = {} \/ HeldBack)
=============================================================================
