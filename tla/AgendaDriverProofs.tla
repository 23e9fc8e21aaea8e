------------------------- MODULE AgendaDriverProofs -------------------------
(***************************************************************************)
(* What holds of an agenda session for any topics, texts, caps and budgets.*)
(*                                                                         *)
(* DraftsAreFresh is not inductive.  A fresh draft needs a worker whose    *)
(* epoch is not current when it outdates (CacheOK of PregenerationProofs); *)
(* and the stash, which a change of persona drops only after the slot      *)
(* (hand.st = "settle"), can come back outdated in between: DeadInv says   *)
(* that such a draft sits in the slot only while nothing is spoken and no  *)
(* trigger is under way, so nothing can displace it into the stash again.  *)
(* An emergency stop does the same in two steps of its own (locked =       *)
(* "stash"), but holds the lock without which no stash returns.            *)
(*                                                                         *)
(* OnlyStragglerIsHeard needs to know of the utterance before it is armed: *)
(* StopInv says it of what has passed its last look at the token, too.     *)
(*                                                                         *)
(* StrandedOnlyByStop is a property of single steps: whoever makes the     *)
(* controller wait has a text queued in the same step, and a step that     *)
(* takes a text away shows it elsewhere or moves the controller on.        *)
(***************************************************************************)
EXTENDS AgendaDriver, AgendaControllerProofs, PregenerationProofs, FiniteSetTheorems,
        SequenceTheorems

USE DriverAssumption, PregenerationAssumption
USE DEF Stopping

Asks == {q \in Nat : <<"ask", q>> \in Texts}
Voices == {"off", "picked", "started", "checked", "heard", "cut"}
Holders == {"no", "return"} \cup Stopping
HandStates == {"idle", "waiting", "ready", "generate", "settle"}
Hand == [st : HandStates, text : Texts \cup {AtRest.text}, draft : SUBSET Draft, rest : Seq(Asks)]
Budgets == [topics : Int, asks : Int, enables : Int, stops : Int, emergencies : Int,
            profiles : Int, faults : Int]

WorldInv ==
  /\ agenda \in AgendaRecord /\ CacheOK(cache)
  /\ mirror \in SUBSET AgendaTexts /\ AtMostOne(mirror)
  /\ items \in Seq(AgendaTexts)

HandInv ==
  /\ hand \in Hand
  /\ \A d \in hand.draft : d.conn # "alien"
  /\ hand.st \in {"waiting", "ready", "generate"} => hand.text \in Texts

SpeechInv ==
  /\ job \in SUBSET Texts /\ playing \in SUBSET Texts /\ voice \in Voices
  /\ voice # "off" => playing # {}
  /\ ending \in BOOLEAN /\ cancelled \in BOOLEAN /\ straggles \in BOOLEAN
  /\ locked \in Holders /\ (locked \in Stopping => cancelled)

LateInv == late \in SUBSET Texts /\ AtMostOne(late)

LeftInv ==
  /\ asks \in Seq(Asks)
  /\ left \in Budgets /\ \A q \in 1..left.asks : <<"ask", q>> \in Texts

\* What is still to be armed passed its check before the speech was cancelled, or else
\* it straggles.
StopInv ==
  cancelled /\ locked # "cut" /\ voice \in {"checked", "heard"} =>
    straggles \/ \A x \in playing : Asked(x)

\* Where an outdated draft may be.
DeadInv ==
  /\ SomeDead(cache.frozen) => hand.st = "settle" \/ locked = "stash"
  /\ hand.st = "settle" => job = {} /\ playing = {}
  /\ SomeDead(cache.slot) => job = {} /\ playing = {} /\ late = {}

IInv ==
  /\ WorldInv /\ HandInv /\ SpeechInv /\ LateInv /\ LeftInv
  /\ DeadInv /\ StopInv

-----------------------------------------------------------------------------
(* What a tick makes of the world. *)

WorldOK(o) ==
  /\ o \in [agenda : AgendaRecord, cache : CacheRecord, mirror : SUBSET AgendaTexts,
            items : Seq(AgendaTexts)]
  /\ CacheOK(o.cache) /\ AtMostOne(o.mirror)

\* No draft of c is outdated but where one of p was.
NoNewDead(c, p) ==
  /\ SomeDead(c.slot) => SomeDead(p.slot)
  /\ SomeDead(c.frozen) => SomeDead(p.frozen)

LEMMA WorldIsOK == ASSUME WorldInv PROVE WorldOK(World)
BY DEF WorldInv, WorldOK, World, CacheOK

LEMMA NothingDead == ~SomeDead({})
BY DEF SomeDead

LEMMA ClearedKeeps ==
  ASSUME NEW p, CacheOK(p), NEW c \in {p, Cleared(p), EpochMoved(p), Discarded(p)}
  PROVE  CacheOK(c) /\ NoNewDead(c, p)
<1>0. p \in CacheRecord
  BY DEF CacheOK
<1>1. CASE c = p
  BY <1>1 DEF NoNewDead
<1>2. CASE c = Cleared(p)
  BY <1>0, <1>2, ClearedOK, ClearedParts, NothingDead DEF NoNewDead, HasParts
<1>3. CASE c = EpochMoved(p)
  BY <1>0, <1>3, EpochMovedOK DEF NoNewDead, HasParts
<1>4. CASE c = Discarded(p)
  BY <1>0, <1>4, DiscardedOK, DiscardedParts, NothingDead DEF NoNewDead, HasParts
<1> QED BY <1>1, <1>2, <1>3, <1>4

LEMMA NoneNewTrans ==
  ASSUME NEW c, NEW d, NEW p, NoNewDead(c, d), NoNewDead(d, p)
  PROVE  NoNewDead(c, p)
BY DEF NoNewDead

LEMMA ReplacedType ==
  ASSUME NEW its \in Seq(AgendaTexts), NEW text \in AgendaTexts
  PROVE  Replaced(its, text) \in Seq(AgendaTexts)
<1> DEFINE kept == {i \in 1..Len(its) : ~SameSource(its[i], text)}
           k == CHOOSE i \in kept : TRUE
<1>1. <<text>> \in Seq(AgendaTexts)
  OBVIOUS
<1>2. ASSUME kept # {} PROVE <<its[k], text>> \in Seq(AgendaTexts)
  <2>1. k \in kept
    BY <1>2
  <2>2. its[k] \in AgendaTexts
    BY <2>1
  <2> QED BY <2>2
<1> QED BY <1>1, <1>2 DEF Replaced

LEMMA EnqueuedOK ==
  ASSUME NEW o, WorldOK(o), NEW text \in AgendaTexts
  PROVE  WorldOK(Enqueued(o, text)) /\ NoNewDead(Enqueued(o, text).cache, o.cache)
<1> DEFINE c == ClearedUnless(o.cache, text)
           its == Replaced(o.items, text)
<1>1. CacheOK(c) /\ NoNewDead(c, o.cache)
  BY ClearingCases, ClearedKeeps DEF WorldOK
<1>2. its \in Seq(AgendaTexts)
  BY ReplacedType DEF WorldOK
<1>3. Enqueued(o, text) = [o EXCEPT !.cache = c, !.mirror = {}, !.items = its]
  BY DEF Enqueued
<1> HIDE DEF c, its
<1>4. /\ Enqueued(o, text).cache = c /\ Enqueued(o, text).mirror = {}
      /\ Enqueued(o, text).items = its /\ Enqueued(o, text).agenda = o.agenda
      /\ Enqueued(o, text) \in [agenda : AgendaRecord, cache : CacheRecord,
                                mirror : SUBSET AgendaTexts, items : Seq(AgendaTexts)]
  BY <1>1, <1>2, <1>3 DEF WorldOK, CacheOK
<1> QED BY <1>1, <1>4 DEF WorldOK, AtMostOne

LEMMA DroppedOK ==
  ASSUME NEW o, WorldOK(o)
  PROVE  WorldOK(Dropped(o)) /\ NoNewDead(Dropped(o).cache, o.cache)
<1> DEFINE c == ClearedAgenda(o.cache)
<1>1. CacheOK(c) /\ NoNewDead(c, o.cache)
  BY ClearingCases, ClearedKeeps DEF WorldOK
<1>2. Dropped(o) = [o EXCEPT !.mirror = {}, !.cache = c]
  BY DEF Dropped
<1> HIDE DEF c
<1>3. /\ Dropped(o).cache = c /\ Dropped(o).mirror = {}
      /\ Dropped(o) \in [agenda : AgendaRecord, cache : CacheRecord,
                         mirror : SUBSET AgendaTexts, items : Seq(AgendaTexts)]
  BY <1>1, <1>2 DEF WorldOK, CacheOK
<1> QED BY <1>1, <1>3 DEF WorldOK, AtMostOne

LEMMA SkippedOK ==
  ASSUME NEW o, WorldOK(o)
  PROVE  WorldOK(Skipped(o)) /\ NoNewDead(Skipped(o).cache, o.cache)
<1> DEFINE c == Discarded(o.cache)
<1>1. CacheOK(c) /\ NoNewDead(c, o.cache)
  BY ClearedKeeps DEF WorldOK
<1>2. Skipped(o) = [o EXCEPT !.cache = c, !.mirror = {}]
  BY DEF Skipped
<1> HIDE DEF c
<1>3. /\ Skipped(o).cache = c /\ Skipped(o).mirror = {}
      /\ Skipped(o) \in [agenda : AgendaRecord, cache : CacheRecord,
                         mirror : SUBSET AgendaTexts, items : Seq(AgendaTexts)]
  BY <1>1, <1>2 DEF WorldOK, CacheOK
<1> QED BY <1>1, <1>3 DEF WorldOK, AtMostOne

\* Another controller in the same world.
LEMMA AgendaReplaced ==
  ASSUME NEW o, WorldOK(o), NEW a \in AgendaRecord
  PROVE  /\ WorldOK([o EXCEPT !.agenda = a])
         /\ [o EXCEPT !.agenda = a].cache = o.cache /\ [o EXCEPT !.agenda = a].agenda = a
         /\ [o EXCEPT !.agenda = a].mirror = o.mirror /\ [o EXCEPT !.agenda = a].items = o.items
<1>1. [o EXCEPT !.agenda = a] \in [agenda : AgendaRecord, cache : CacheRecord,
                                   mirror : SUBSET AgendaTexts, items : Seq(AgendaTexts)]
  BY DEF WorldOK
<1>2. /\ [o EXCEPT !.agenda = a].cache = o.cache /\ [o EXCEPT !.agenda = a].agenda = a
      /\ [o EXCEPT !.agenda = a].mirror = o.mirror /\ [o EXCEPT !.agenda = a].items = o.items
  BY DEF WorldOK
<1> QED BY <1>1, <1>2 DEF WorldOK

LEMMA ConsumedOK ==
  ASSUME NEW o, WorldOK(o)
  PROVE  WorldOK(Consumed(o)) /\ NoNewDead(Consumed(o).cache, o.cache)
<1> DEFINE text == CHOOSE x \in o.mirror : TRUE
           b == [o EXCEPT !.agenda = Adopted(@, text)]
<1>1. \/ Consumed(o) = o
      \/ Consumed(o) = Dropped(o)
      \/ o.mirror # {} /\ Consumed(o) = Enqueued(b, text)
  BY DEF Consumed
<1>2. ASSUME o.mirror # {}
      PROVE  WorldOK(Enqueued(b, text)) /\ NoNewDead(Enqueued(b, text).cache, o.cache)
  <2>1. text \in AgendaTexts
    BY <1>2 DEF WorldOK
  <2>2. Adopted(o.agenda, text) \in AgendaRecord
    BY OutcomeTypes DEF WorldOK
  <2>3. b = [o EXCEPT !.agenda = Adopted(o.agenda, text)]
    BY DEF WorldOK
  <2> HIDE DEF b, text
  <2>4. WorldOK(b) /\ b.cache = o.cache
    BY <2>2, <2>3, AgendaReplaced
  <2> QED BY <2>1, <2>4, EnqueuedOK
<1>3. NoNewDead(o.cache, o.cache)
  BY DEF NoNewDead
<1> QED BY <1>1, <1>2, <1>3, DroppedOK

LEMMA DecidedOK ==
  ASSUME NEW o, WorldOK(o), NEW due \in BOOLEAN
  PROVE  WorldOK(Decided(o, due)) /\ NoNewDead(Decided(o, due).cache, o.cache)
<1> DEFINE a == IF o.agenda.st = "paused" THEN AutoResume(o.agenda, due) ELSE o.agenda
           d == NextAction(a, IsProcessing \/ IsSpeaking)
           b == [o EXCEPT !.agenda = d.agenda]
           text == CHOOSE x \in d.text : TRUE
           off == [b EXCEPT !.agenda.st = "off"]
<1>1. a \in AgendaRecord
  BY AutoResumeType DEF WorldOK
<1>2. IsDecision(d)
  BY <1>1, NextActionType
<1>3. \/ Decided(o, due) = [o EXCEPT !.agenda = a]
      \/ d.text # {} /\ Decided(o, due) = Enqueued(b, text)
      \/ Decided(o, due) = off
      \/ Decided(o, due) = b
  BY DEF Decided
<1> HIDE DEF a, d
<1>4. /\ WorldOK([o EXCEPT !.agenda = a]) /\ [o EXCEPT !.agenda = a].cache = o.cache
      /\ WorldOK(b) /\ b.cache = o.cache
  BY <1>1, <1>2, AgendaReplaced DEF IsDecision
<1>5. d.text # {} => text \in AgendaTexts
  BY <1>2 DEF IsDecision
<1> HIDE DEF text, b
<1>6. d.text # {} => WorldOK(Enqueued(b, text)) /\ NoNewDead(Enqueued(b, text).cache, o.cache)
  BY <1>4, <1>5, EnqueuedOK
<1>7. WorldOK(off) /\ off.cache = o.cache
  <2>1. [b.agenda EXCEPT !.st = "off"] \in AgendaRecord
    BY <1>4 DEF WorldOK, AgendaRecord, States
  <2>2. off = [b EXCEPT !.agenda = [b.agenda EXCEPT !.st = "off"]]
    BY <1>4 DEF WorldOK
  <2> QED BY <1>4, <2>1, <2>2, AgendaReplaced
<1> HIDE DEF off
<1>8. NoNewDead(o.cache, o.cache)
  BY DEF NoNewDead
<1> QED BY <1>3, <1>4, <1>6, <1>7, <1>8

LEMMA TickedOK ==
  ASSUME NEW o, WorldOK(o), NEW due \in BOOLEAN
  PROVE  WorldOK(Ticked(o, due)) /\ NoNewDead(Ticked(o, due).cache, o.cache)
<1>1. Ticked(o, due) \in {o, Dropped(o), Consumed(o), Decided(Consumed(o), due)}
  BY DEF Ticked
<1>2. WorldOK(Consumed(o)) /\ NoNewDead(Consumed(o).cache, o.cache)
  BY ConsumedOK
<1>3. /\ WorldOK(Decided(Consumed(o), due))
      /\ NoNewDead(Decided(Consumed(o), due).cache, Consumed(o).cache)
  BY <1>2, DecidedOK
<1>4. NoNewDead(Decided(Consumed(o), due).cache, o.cache)
  BY <1>2, <1>3, NoneNewTrans
<1>5. NoNewDead(o.cache, o.cache)
  BY DEF NoNewDead
<1> QED BY <1>1, <1>2, <1>3, <1>4, <1>5, DroppedOK

LEMMA TriggeredOK ==
  ASSUME NEW c, NEW qs \in Seq(Asks), NEW its \in Seq(AgendaTexts)
  PROVE  /\ Triggered(c, qs, its) \in SUBSET Texts /\ AtMostOne(Triggered(c, qs, its))
         /\ Triggered(c, qs, its) # {} => job # {} \/ playing # {}
<1>1. HeadOf(qs, its) \in SUBSET Texts /\ AtMostOne(HeadOf(qs, its))
  <2>1. qs # <<>> => qs[1] \in Asks
    OBVIOUS
  <2>2. its # <<>> => its[1] \in AgendaTexts
    OBVIOUS
  <2> QED BY <2>1, <2>2 DEF HeadOf, Asks, AtMostOne
<1> QED BY <1>1 DEF Triggered, AtMostOne, IsSpeaking

\* A step of the driver that makes o of its world.
LEMMA BecomesOK ==
  ASSUME IInv, NEW o, WorldOK(o), Becomes(o)
  PROVE  WorldInv' /\ LateInv' /\ (late' # {} => late # {} \/ job # {} \/ playing # {})
<1>1. WorldInv'
  BY DEF Becomes, WorldOK, WorldInv
<1>2. LateInv' /\ (late' # {} => late # {} \/ job # {} \/ playing # {})
  <2>1. asks \in Seq(Asks) /\ o.items \in Seq(AgendaTexts)
    BY DEF IInv, LeftInv, WorldOK
  <2>2. late' = late \/ late' = Triggered(o.cache, asks, o.items)
    BY DEF Becomes
  <2> QED BY <2>1, <2>2, TriggeredOK DEF IInv, LateInv
<1> QED BY <1>1, <1>2

-----------------------------------------------------------------------------
(* The steps of the driver, the motor and the routes. *)

\* A step of the driver is one of its world only.
LEMMA DriverStep ==
  ASSUME IInv, NEW o, WorldOK(o), Becomes(o), locked \in {"no", "return"}, locked' = "no",
         UNCHANGED <<asks, hand, speech, left>>,
         SomeDead(o.cache.frozen) => hand.st = "settle",
         SomeDead(o.cache.slot) => job = {} /\ playing = {} /\ late = {}
  PROVE  IInv'
<1> USE DEF speech, router, token
<1>1. WorldInv' /\ LateInv' /\ (late' # {} => late # {} \/ job # {} \/ playing # {})
  BY BecomesOK
<1>2. HandInv' /\ SpeechInv' /\ LeftInv' /\ StopInv'
  BY DEF IInv, HandInv, SpeechInv, Holders, LeftInv, StopInv
<1>3. cache' = o.cache
  BY DEF Becomes
<1>4. DeadInv'
  BY <1>1, <1>3 DEF IInv, DeadInv
<1> QED BY <1>1, <1>2, <1>4 DEF IInv

LEMMA TickStep ==
  ASSUME IInv, NEW due \in BOOLEAN, NEW aged \in BOOLEAN, Tick(due, aged)
  PROVE  IInv'
<1>1. WorldOK(World) /\ World.cache = cache
  BY WorldIsOK DEF IInv, World
<1>2. /\ WorldOK(Ticked(World, due)) /\ NoNewDead(Ticked(World, due).cache, cache)
      /\ WorldOK(Ticked(Skipped(World), due)) /\ NoNewDead(Ticked(Skipped(World), due).cache, cache)
  BY <1>1, TickedOK, SkippedOK, NoneNewTrans
<1>3. CASE Becomes(Ticked(World, due)) /\ UNCHANGED locked
  <2>1. locked = "no" /\ locked' = "no" /\ UNCHANGED <<asks, hand, speech, left>>
    BY <1>3 DEF Tick, AgendaLockFree
  <2> QED BY <1>2, <1>3, <2>1, DriverStep DEF NoNewDead, IInv, DeadInv
<1>4. CASE Becomes(Ticked(Skipped(World), due)) /\ UNCHANGED locked
  <2>1. locked = "no" /\ locked' = "no" /\ UNCHANGED <<asks, hand, speech, left>>
    BY <1>4 DEF Tick, AgendaLockFree
  <2> QED BY <1>2, <1>4, <2>1, DriverStep DEF NoNewDead, IInv, DeadInv
<1>5. CASE /\ \E x \in mirror : agenda' = Adopted(agenda, x)
           /\ locked' = "return"
           /\ UNCHANGED <<cache, mirror, items, late>>
  <2>1. locked = "no" /\ UNCHANGED <<asks, hand, job, playing, voice, ending, cancelled, straggles, left>>
    BY DEF Tick, AgendaLockFree, speech, router, token
  <2>2. WorldInv'
    BY <1>5, OutcomeTypes DEF IInv, WorldInv
  <2>3. HandInv' /\ SpeechInv' /\ LateInv' /\ LeftInv'
    BY <1>5, <2>1 DEF IInv, HandInv, SpeechInv, Holders, LateInv, LeftInv
  <2>4. DeadInv' /\ StopInv'
    BY <1>5, <2>1 DEF IInv, DeadInv, StopInv
  <2> QED BY <2>2, <2>3, <2>4 DEF IInv
<1> QED BY <1>3, <1>4, <1>5 DEF Tick

\* The stash that returns is outdated only while a profile is being changed, when
\* nothing is spoken.
LEMMA FinishReturnStep ==
  ASSUME IInv, FinishReturn
  PROVE  IInv'
<1> DEFINE c == IF cache.frozen = {} THEN cache ELSE Restored(cache)
           o == [World EXCEPT !.cache = c]
<1>1. PICK x \in mirror : Becomes(Enqueued(o, x))
  BY DEF FinishReturn, World
<1>2. x \in AgendaTexts
  BY DEF IInv, WorldInv
<1>3. CacheOK(cache) /\ cache \in CacheRecord /\ cache.frozen \in SUBSET Draft
  BY PartsTypes DEF IInv, WorldInv, CacheOK
<1>4. CacheOK(c)
  BY <1>3, RestoredOK
<1>5. SomeDead(c.frozen) => SomeDead(cache.frozen)
  BY <1>3, RestoredParts, NothingDead DEF HasParts
<1>6. SomeDead(c.slot) => SomeDead(cache.slot) \/ SomeDead(cache.frozen)
  BY <1>3, RestoredParts, MarkedDead DEF HasParts
<1> HIDE DEF c
<1>7. WorldOK(o) /\ o.cache = c
  BY <1>4, WorldIsOK DEF IInv, WorldOK, World, CacheOK
<1> HIDE DEF o
<1>8. WorldOK(Enqueued(o, x)) /\ NoNewDead(Enqueued(o, x).cache, c)
  BY <1>2, <1>7, EnqueuedOK
<1>9. /\ late = {} /\ locked = "return" /\ locked' = "no"
      /\ UNCHANGED <<asks, hand, speech, left>>
  BY DEF FinishReturn, NoneLate
<1>10. SomeDead(Enqueued(o, x).cache.frozen) => hand.st = "settle"
  BY <1>5, <1>8, <1>9 DEF NoNewDead, IInv, DeadInv
<1>11. SomeDead(Enqueued(o, x).cache.slot) => job = {} /\ playing = {} /\ late = {}
  BY <1>6, <1>8, <1>9 DEF NoNewDead, IInv, DeadInv
<1> QED BY <1>1, <1>8, <1>9, <1>10, <1>11, DriverStep

\* A step of the router's voice alone.
LEMMA VoiceStep ==
  ASSUME IInv, UNCHANGED <<agenda, mirror, locked, queue, hand, late, left, cancelled>>,
         CacheOK(cache'), NoNewDead(cache', cache),
         job' \in SUBSET job, playing' \in SUBSET (playing \cup job),
         voice' \in Voices, voice' # "off" => playing' # {}, ending' \in BOOLEAN,
         straggles' \in BOOLEAN, StopInv'
  PROVE  IInv'
<1> USE DEF queue
<1>1. WorldInv' /\ HandInv' /\ LateInv' /\ LeftInv'
  BY DEF IInv, WorldInv, HandInv, LateInv, LeftInv
<1>2. SpeechInv' /\ DeadInv'
  BY DEF IInv, SpeechInv, DeadInv, NoNewDead
<1> QED BY <1>1, <1>2 DEF IInv

LEMMA CacheStays ==
  ASSUME IInv, UNCHANGED cache
  PROVE  CacheOK(cache') /\ NoNewDead(cache', cache)
BY DEF IInv, WorldInv, NoNewDead

LEMMA PickJobStep ==
  ASSUME IInv, PickJob \/ DiscardJob
  PROVE  IInv'
<1>1. /\ UNCHANGED <<agenda, mirror, locked, queue, hand, late, left, cancelled, straggles, cache, ending>>
      /\ playing = {}
  BY DEF PickJob, DiscardJob, driver, token
<1>2. CASE PickJob
  <2>1. /\ job' \in SUBSET job /\ playing' \in SUBSET (playing \cup job)
        /\ voice' = "picked" /\ playing' # {}
    BY <1>2 DEF PickJob
  <2>2. StopInv'
    BY <2>1 DEF StopInv
  <2>3. ending' \in BOOLEAN /\ straggles' \in BOOLEAN
    BY <1>1 DEF IInv, SpeechInv
  <2> QED BY <1>1, <2>1, <2>2, <2>3, CacheStays, VoiceStep DEF Voices
<1>3. CASE DiscardJob
  <2>1. job' \in SUBSET job /\ UNCHANGED <<playing, voice>>
    BY <1>3 DEF DiscardJob
  <2>2. /\ StopInv' /\ ending' \in BOOLEAN /\ straggles' \in BOOLEAN
        /\ voice' \in Voices /\ (voice' # "off" => playing' # {})
    BY <1>1, <2>1 DEF IInv, SpeechInv, StopInv
  <2> QED BY <1>1, <2>1, <2>2, CacheStays, VoiceStep
<1> QED BY <1>2, <1>3

\* The last look at the token: what passes it is not cancelled.
LEMMA CheckTokenStep ==
  ASSUME IInv, CheckToken
  PROVE  IInv'
<1>1. /\ voice = "started"
      /\ UNCHANGED <<agenda, mirror, locked, queue, hand, late, left, cancelled, straggles, cache, job>>
  BY DEF CheckToken, driver, token
<1>2. \/ (\A x \in playing : Heard(x)) /\ voice' = "checked" /\ UNCHANGED <<playing, ending>>
      \/ voice' = "off" /\ playing' = {} /\ ending' = TRUE
  BY DEF CheckToken
<1>3. StopInv'
  BY <1>1, <1>2 DEF StopInv, Heard
<1>4. /\ voice' \in Voices /\ (voice' # "off" => playing' # {}) /\ playing' \in SUBSET playing
      /\ ending' \in BOOLEAN /\ straggles' \in BOOLEAN
  BY <1>1, <1>2 DEF IInv, SpeechInv, Voices
<1> QED BY <1>1, <1>3, <1>4, CacheStays, VoiceStep

LEMMA ArmVoiceStep ==
  ASSUME IInv, ArmVoice
  PROVE  IInv'
<1>1. /\ voice = "checked" /\ voice' = "heard"
      /\ UNCHANGED <<agenda, mirror, locked, queue, hand, late, left, cancelled, straggles, job, playing, ending>>
  BY DEF ArmVoice, driver, token
<1>2. CacheOK(cache') /\ NoNewDead(cache', cache)
  <2>1. CASE cache' = [cache EXCEPT !.upgrade = "own", !.llm = TRUE]
    BY <2>1, UpgradeOK DEF IInv, WorldInv, HasParts, NoNewDead
  <2> QED BY <2>1, CacheStays DEF ArmVoice
<1>3. StopInv'
  BY <1>1 DEF IInv, StopInv
<1>4. /\ voice' \in Voices /\ playing' # {} /\ ending' \in BOOLEAN /\ straggles' \in BOOLEAN
  BY <1>1 DEF IInv, SpeechInv, Voices
<1> QED BY <1>1, <1>2, <1>3, <1>4, VoiceStep

LEMMA SpeechFinishesStep ==
  ASSUME IInv, SpeechFinishes
  PROVE  IInv'
<1>1. /\ voice' = "off" /\ playing' = {} /\ ending' = TRUE /\ straggles' = FALSE
      /\ UNCHANGED <<agenda, mirror, locked, queue, hand, late, left, cancelled, cache, job>>
  BY DEF SpeechFinishes, driver
<1>2. StopInv'
  BY <1>1 DEF StopInv
<1> QED BY <1>1, <1>2, CacheStays, VoiceStep DEF Voices

\* A prefetch is spawned while a job is taken, so what it freezes is not outdated.
LEMMA SpeechStartsStep ==
  ASSUME IInv, SpeechStarts
  PROVE  IInv'
<1> DEFINE own == agenda.st \in {"speaking", "generating", "closing"}
           o == [World EXCEPT !.agenda = IF own THEN Accepted(@) ELSE @]
<1> DEFINE ahead(x) == IF own THEN Prefetching(o, x) ELSE {}
<1>1. PICK x \in playing :
        /\ agenda' = o.agenda
        /\ mirror' = IF ahead(x) = {} THEN mirror ELSE ahead(x)
        /\ cache' = IF ahead(x) = {} THEN cache
                    ELSE Spawned(cache, CHOOSE y \in ahead(x) : TRUE)
  BY DEF SpeechStarts
<1>2. /\ WorkerFree /\ locked = "no" /\ voice' = "started"
      /\ UNCHANGED <<locked, asks, items, hand, job, playing, ending, cancelled, straggles, late, left>>
  BY DEF SpeechStarts, AgendaLockFree, queue, token
<1> DEFINE a == ahead(x)
<1>3. o.agenda \in AgendaRecord
  BY OutcomeTypes DEF IInv, WorldInv, World
<1>4. a \in SUBSET AgendaTexts /\ AtMostOne(a)
  <2>1. Preview(o.agenda) \in SUBSET AgendaTexts /\ AtMostOne(Preview(o.agenda))
    BY <1>3, PreviewType
  <2> QED BY <2>1 DEF Prefetching, AtMostOne
<1>5. CacheOK(cache) /\ ~SomeDead(cache.slot)
  BY DEF IInv, WorldInv, DeadInv
<1>6. /\ CacheOK(cache') /\ ~SomeDead(cache'.slot)
      /\ SomeDead(cache'.frozen) => SomeDead(cache.frozen)
  <2>1. CASE a = {}
    BY <1>1, <1>5, <2>1
  <2>2. CASE a # {}
    <3>1. (CHOOSE y \in a : TRUE) \in Texts /\ MaySpawn(cache, CHOOSE y \in a : TRUE)
      <4>1. \A y \in a : MaySpawn(cache, y)
        BY DEF Prefetching, World
      <4> QED BY <1>4, <2>2, <4>1
    <3>2. cache' = Spawned(cache, CHOOSE y \in a : TRUE)
      BY <1>1, <2>2
    <3> HIDE DEF a
    <3> QED BY <1>2, <1>5, <3>1, <3>2, SpawnedOK, NothingDead DEF WorkerFree
  <2> QED BY <2>1, <2>2
<1>7. mirror' = (IF a = {} THEN mirror ELSE a)
  BY <1>1
<1> HIDE DEF a
<1>8. WorldInv'
  BY <1>1, <1>2, <1>3, <1>4, <1>6, <1>7 DEF IInv, WorldInv
<1>9. HandInv' /\ SpeechInv' /\ LateInv' /\ LeftInv'
  BY <1>1, <1>2 DEF IInv, HandInv, SpeechInv, Voices, LateInv, LeftInv
<1>10. DeadInv' /\ StopInv'
  BY <1>1, <1>2, <1>6 DEF IInv, DeadInv, StopInv
<1> QED BY <1>8, <1>9, <1>10 DEF IInv

LEMMA SpeechEndedStep ==
  ASSUME IInv, SpeechEnded
  PROVE  IInv'
<1> DEFINE o == [World EXCEPT !.agenda = SpeechComplete(@)]
<1>1. /\ late = {} /\ ending' = FALSE
      /\ UNCHANGED <<locked, asks, hand, job, playing, voice, cancelled, straggles, left>>
  BY DEF SpeechEnded, NoneLate, token
<1>2. HandInv' /\ SpeechInv' /\ LeftInv' /\ StopInv'
  BY <1>1 DEF IInv, HandInv, SpeechInv, LeftInv, StopInv
<1>3. CASE Becomes(Consumed(o))
  <2>1. WorldOK(o) /\ o.cache = cache
    <3>1. SpeechComplete(agenda) \in AgendaRecord
      BY OutcomeTypes DEF IInv, WorldInv
    <3>2. o = [World EXCEPT !.agenda = SpeechComplete(agenda)] /\ World.cache = cache
      BY DEF World
    <3> QED BY <3>1, <3>2, WorldIsOK, AgendaReplaced DEF IInv
  <2> HIDE DEF o
  <2>2. WorldOK(Consumed(o)) /\ NoNewDead(Consumed(o).cache, cache)
    BY <2>1, ConsumedOK
  <2>3. WorldInv' /\ LateInv' /\ (late' # {} => late # {} \/ job # {} \/ playing # {})
    BY <1>3, <2>2, BecomesOK
  <2>4. cache' = Consumed(o).cache
    BY <1>3 DEF Becomes
  <2>5. DeadInv'
    BY <1>1, <2>2, <2>3, <2>4 DEF IInv, DeadInv, NoNewDead
  <2> QED BY <1>2, <2>3, <2>5 DEF IInv
<1>4. CASE UNCHANGED <<agenda, cache, mirror, items, late>>
  <2>1. WorldInv' /\ LateInv' /\ DeadInv'
    BY <1>1, <1>4 DEF IInv, WorldInv, LateInv, DeadInv
  <2> QED BY <1>2, <2>1 DEF IInv
<1> QED BY <1>3, <1>4 DEF SpeechEnded

\* A budget that is used leaves the others as they are.
LEMMA SpendKeeps ==
  ASSUME IInv, NEW what \in {"enables", "stops", "emergencies", "asks", "profiles", "faults"},
         Spend(what)
  PROVE  /\ left' \in Budgets /\ \A q \in 1..left'.asks : <<"ask", q>> \in Texts
         /\ what = "asks" => left.asks \in Asks
<1>1. left \in Budgets /\ left' = [left EXCEPT ![what] = @ - 1] /\ left[what] > 0
  BY DEF Spend, IInv, LeftInv
<1>2. left' \in Budgets
  <2>1. CASE what = "enables"
    BY <1>1, <2>1 DEF Budgets
  <2>2. CASE what = "stops"
    BY <1>1, <2>2 DEF Budgets
  <2>3. CASE what = "emergencies"
    BY <1>1, <2>3 DEF Budgets
  <2>4. CASE what = "asks"
    BY <1>1, <2>4 DEF Budgets
  <2>5. CASE what = "profiles"
    BY <1>1, <2>5 DEF Budgets
  <2>6. CASE what = "faults"
    BY <1>1, <2>6 DEF Budgets
  <2> QED BY <2>1, <2>2, <2>3, <2>4, <2>5, <2>6
<1>3. left'.asks = IF what = "asks" THEN left.asks - 1 ELSE left.asks
  BY <1>1 DEF Budgets
<1>4. left.asks \in Int
  BY <1>1 DEF Budgets
<1>5. \A q \in 1..left'.asks : q \in 1..left.asks
  BY <1>3, <1>4
<1>6. what = "asks" => left.asks \in 1..left.asks
  BY <1>1, <1>4
<1> QED BY <1>1, <1>2, <1>4, <1>5, <1>6 DEF IInv, LeftInv, Asks

LEMMA EnableStep ==
  ASSUME IInv, Enable
  PROVE  IInv'
<1> USE DEF Enable, driver, queue, router
<1>1. WorldInv'
  BY ControlsType DEF IInv, WorldInv
<1>2. HandInv' /\ LateInv' /\ DeadInv' /\ StopInv'
  BY DEF IInv, HandInv, LateInv, DeadInv, StopInv
<1>4. SpeechInv'
  BY DEF AgendaLockFree, IInv, SpeechInv
<1>3. LeftInv'
  BY SpendKeeps DEF IInv, LeftInv
<1> QED BY <1>1, <1>2, <1>3, <1>4 DEF IInv

LEMMA SoftStopStep ==
  ASSUME IInv, SoftStopSession
  PROVE  IInv'
<1> DEFINE d == SoftStop(agenda)
           o == [World EXCEPT !.agenda = d.agenda]
           text == CHOOSE x \in d.text : TRUE
           e == [Enqueued(o, text) EXCEPT !.mirror = mirror]
           r == IF d.text = {} THEN o ELSE e
<1>1. Becomes(r) /\ late = {}
  BY DEF SoftStopSession, NoneLate
<1>2. IsDecision(d)
  BY SoftStopType DEF IInv, WorldInv
<1> HIDE DEF d
<1>3. WorldOK(World) /\ World.cache = cache
  BY WorldIsOK DEF IInv, World
<1>4. WorldOK(o) /\ o.cache = cache
  BY <1>2, <1>3, AgendaReplaced DEF IsDecision
<1> HIDE DEF o
<1>5. d.text # {} => text \in AgendaTexts
  BY <1>2 DEF IsDecision
<1> HIDE DEF text
<1>6. ASSUME d.text # {} PROVE WorldOK(e) /\ NoNewDead(e.cache, cache)
  <2> DEFINE n == Enqueued(o, text)
  <2>1. WorldOK(n) /\ NoNewDead(n.cache, cache)
    BY <1>4, <1>5, <1>6, EnqueuedOK
  <2> HIDE DEF n
  <2>2. /\ [n EXCEPT !.mirror = mirror].cache = n.cache /\ [n EXCEPT !.mirror = mirror].mirror = mirror
        /\ [n EXCEPT !.mirror = mirror] \in [agenda : AgendaRecord, cache : CacheRecord,
                                             mirror : SUBSET AgendaTexts, items : Seq(AgendaTexts)]
    BY <2>1 DEF WorldOK, IInv, WorldInv
  <2>3. WorldOK([n EXCEPT !.mirror = mirror]) /\ NoNewDead([n EXCEPT !.mirror = mirror].cache, cache)
    BY <2>1, <2>2 DEF WorldOK, IInv, WorldInv
  <2> QED BY <2>3 DEF n
<1> HIDE DEF e
<1>7. WorldOK(r) /\ NoNewDead(r.cache, cache)
  BY <1>4, <1>6 DEF NoNewDead
<1> HIDE DEF r
<1>8. UNCHANGED <<locked, asks, hand, job, playing, voice, ending, cancelled, straggles>> /\ Spend("stops")
  BY DEF SoftStopSession, speech, router, token
<1>9. WorldInv' /\ LateInv' /\ (late' # {} => late # {} \/ job # {} \/ playing # {})
  BY <1>1, <1>7, BecomesOK
<1>10. HandInv' /\ SpeechInv' /\ StopInv'
  BY <1>8 DEF IInv, HandInv, SpeechInv, StopInv
<1>11. LeftInv'
  BY <1>8, SpendKeeps DEF IInv, LeftInv
<1>12. cache' = r.cache
  BY <1>1 DEF Becomes
<1>13. DeadInv'
  BY <1>1, <1>7, <1>8, <1>9, <1>12 DEF IInv, DeadInv, NoNewDead
<1> QED BY <1>9, <1>10, <1>11, <1>13 DEF IInv

\* The steps of an emergency stop: the speech is cancelled, which lets no check pass,
LEMMA EmergencyStopStep ==
  ASSUME IInv, EmergencyStopSession
  PROVE  IInv'
<1>1. /\ agenda' = EmergencyStopped(agenda) /\ cancelled' = TRUE /\ locked = "no" /\ locked' = "cut"
      /\ UNCHANGED <<cache, mirror, asks, items, hand, job, playing, voice, ending, straggles, late>>
      /\ Spend("emergencies")
  BY DEF EmergencyStopSession, AgendaLockFree, queue, router
<1>2. WorldInv' /\ HandInv' /\ LateInv'
  BY <1>1, ControlsType DEF IInv, WorldInv, HandInv, LateInv
<1>3. SpeechInv' /\ StopInv'
  BY <1>1 DEF IInv, SpeechInv, Holders, StopInv
<1>4. LeftInv'
  BY <1>1, SpendKeeps DEF IInv, LeftInv
<1>5. DeadInv'
  BY <1>1 DEF IInv, DeadInv
<1> QED BY <1>2, <1>3, <1>4, <1>5 DEF IInv

\* what has passed its check by the cut straggles,
LEMMA CutSpeechStep ==
  ASSUME IInv, CutSpeech
  PROVE  IInv'
<1>1. /\ locked = "cut" /\ locked' = "items"
      /\ voice' = (IF voice = "heard" THEN "cut" ELSE voice) /\ straggles' = (voice = "checked")
      /\ UNCHANGED <<agenda, cache, mirror, asks, items, hand, job, playing, ending, cancelled, late, left>>
  BY DEF CutSpeech, queue
<1>2. WorldInv' /\ HandInv' /\ LateInv' /\ LeftInv' /\ DeadInv'
  BY <1>1 DEF IInv, WorldInv, HandInv, LateInv, LeftInv, DeadInv
<1>3. straggles' \in BOOLEAN
  BY <1>1
<1>4. voice' \in Voices /\ (voice' # "off" => playing # {})
  BY <1>1 DEF IInv, SpeechInv, Voices
<1>5. SpeechInv'
  BY <1>1, <1>3, <1>4 DEF IInv, SpeechInv, Holders
<1>6. StopInv'
  <2>1. voice' \in {"checked", "heard"} => straggles'
    BY <1>1
  <2> QED BY <2>1 DEF StopInv
<1> QED BY <1>2, <1>5, <1>6 DEF IInv

\* and nothing outdated outlives it.
LEMMA DropsStep ==
  ASSUME IInv, DropItems \/ DropDraft \/ DropStash
  PROVE  IInv'
<1>1. /\ locked \in {"items", "draft", "stash"} /\ locked' \in {"draft", "stash", "no"}
      /\ UNCHANGED <<agenda, mirror, asks, hand, job, playing, voice, ending, cancelled, straggles, late, left>>
  BY DEF DropItems, DropDraft, DropStash, queue, speech, router, token
<1>2. items' \in Seq(AgendaTexts)
  <2>1. items' = <<>> \/ items' = items
    BY DEF DropItems, DropDraft, DropStash, queue
  <2>2. items \in Seq(AgendaTexts) /\ <<>> \in Seq(AgendaTexts)
    BY DEF IInv, WorldInv
  <2> QED BY <2>1, <2>2
<1>3. /\ CacheOK(cache') /\ (SomeDead(cache'.slot) => SomeDead(cache.slot))
      /\ SomeDead(cache'.frozen) => hand.st = "settle" \/ locked' = "stash"
  <2>1. CASE DropItems
    BY <2>1 DEF DropItems, IInv, WorldInv, DeadInv
  <2>2. CASE DropDraft
    BY <2>2, OutdatedOK, NothingDead DEF DropDraft, IInv, WorldInv
  <2>3. CASE DropStash
    BY <2>3, ClearedKeeps, DiscardedParts, NothingDead
       DEF DropStash, IInv, WorldInv, CacheOK, HasParts, NoNewDead
  <2> QED BY <2>1, <2>2, <2>3
<1>4. WorldInv' /\ HandInv' /\ LateInv' /\ LeftInv'
  BY <1>1, <1>2, <1>3 DEF IInv, WorldInv, HandInv, LateInv, LeftInv
<1>5. SpeechInv' /\ StopInv'
  BY <1>1 DEF IInv, SpeechInv, Holders, StopInv
<1>6. DeadInv'
  BY <1>1, <1>3 DEF IInv, DeadInv
<1> QED BY <1>4, <1>5, <1>6 DEF IInv

LEMMA StopStepStep ==
  ASSUME IInv, StopStep
  PROVE  IInv'
BY CutSpeechStep, DropsStep DEF StopStep

-----------------------------------------------------------------------------
(* The steps of the owner's questions and of the engine. *)

\* The hands that the engine takes up.
LEMMA RestingHand ==
  /\ AtRest \in Hand /\ AtRest.draft = {} /\ AtRest.st = "idle"
<1>1. AtRest.st = "idle" /\ AtRest.draft = {} /\ AtRest.rest = <<>>
  BY DEF AtRest
<1>2. {} \in SUBSET Draft /\ <<>> \in Seq(Asks) /\ <<"ask", 0>> \in Texts \cup {AtRest.text}
  BY DEF AtRest
<1>3. "idle" \in HandStates
  BY DEF HandStates
<1>4. AtRest \in Hand
  BY <1>2, <1>3 DEF AtRest, Hand
<1> QED BY <1>1, <1>4

LEMMA SettlingHand ==
  LET h == [AtRest EXCEPT !.st = "settle"]
  IN  h \in Hand /\ h.st = "settle" /\ h.draft = {}
BY RestingHand DEF Hand, HandStates

HandIs(h, s, x, D) == h \in Hand /\ h.st = s /\ h.text = x /\ h.draft = D

LEMMA TurnInHand ==
  ASSUME NEW s \in {"waiting", "ready", "generate"}, NEW x \in Texts
  PROVE  /\ HandIs([AtRest EXCEPT !.st = s, !.text = x], s, x, {})
         /\ \A D \in SUBSET Draft : HandIs([AtRest EXCEPT !.st = s, !.text = x, !.draft = D], s, x, D)
         /\ \A r \in Seq(Asks) : HandIs([AtRest EXCEPT !.st = s, !.text = x, !.rest = r], s, x, {})
<1>1. AtRest \in Hand /\ AtRest.draft = {} /\ s \in HandStates
  BY RestingHand DEF HandStates
<1> DEFINE h == [AtRest EXCEPT !.st = s]
           k == [h EXCEPT !.text = x]
<1>2. h \in Hand /\ h.st = s /\ h.draft = {}
  BY <1>1 DEF Hand
<1>3. [AtRest EXCEPT !.st = s, !.text = x] = k
  OBVIOUS
<1>4. \A D : [AtRest EXCEPT !.st = s, !.text = x, !.draft = D] = [k EXCEPT !.draft = D]
  OBVIOUS
<1>5. \A r : [AtRest EXCEPT !.st = s, !.text = x, !.rest = r] = [k EXCEPT !.rest = r]
  OBVIOUS
<1> HIDE DEF h
<1>6. HandIs(k, s, x, {})
  BY <1>2 DEF Hand, HandIs
<1> HIDE DEF k
<1>7. ASSUME NEW D \in SUBSET Draft PROVE HandIs([k EXCEPT !.draft = D], s, x, D)
  BY <1>6 DEF Hand, HandIs
<1>8. ASSUME NEW r \in Seq(Asks) PROVE HandIs([k EXCEPT !.rest = r], s, x, {})
  BY <1>6 DEF Hand, HandIs
<1> QED BY <1>3, <1>4, <1>5, <1>6, <1>7, <1>8

LEMMA TurnTaken ==
  ASSUME NEW s \in {"waiting", "ready", "generate"}, NEW x \in Texts, NEW D,
         \A d \in D : d.conn # "alien", HandIs(hand', s, x, D)
  PROVE  HandInv' /\ hand'.st = s
BY DEF HandIs, HandInv

\* A step that only moves the engine on: the hand, the queue of questions, the cache.
LEMMA EngineKeeps ==
  ASSUME IInv, HandInv', LeftInv', agenda' \in AgendaRecord, items' \in Seq(AgendaTexts),
         CacheOK(cache'), DeadInv',
         UNCHANGED <<mirror, locked, playing, voice, ending, cancelled, straggles, late>>,
         job' \in SUBSET Texts
  PROVE  IInv'
<1>1. WorldInv' /\ LateInv'
  BY DEF IInv, WorldInv, LateInv
<1>2. SpeechInv' /\ StopInv'
  BY DEF IInv, SpeechInv, StopInv
<1> QED BY <1>1, <1>2 DEF IInv

\* Taking a draft, noting a question and starting to generate leave the drafts where
\* they are, or drop the one in the slot.
LEMMA NotedKeeps ==
  ASSUME NEW p, CacheOK(p), NEW x
  PROVE  CacheOK(Noted(p, x)) /\ NoNewDead(Noted(p, x), p)
BY NotedOK DEF NoNewDead

LEMMA TakenKeeps ==
  ASSUME NEW p, CacheOK(p)
  PROVE  CacheOK(Taken(p)) /\ NoNewDead(Taken(p), p)
BY TakenOK, TakenParts, NothingDead DEF NoNewDead, HasParts, CacheOK

LEMMA ModelKeeps ==
  ASSUME NEW p, CacheOK(p), NEW b \in BOOLEAN
  PROVE  CacheOK([p EXCEPT !.llm = b]) /\ NoNewDead([p EXCEPT !.llm = b], p)
BY ModelOK DEF NoNewDead, HasParts

LEMMA CommittedKeeps ==
  ASSUME NEW p, CacheOK(p)
  PROVE  /\ CacheOK(Committed(p)) /\ ~SomeDead(Committed(p).slot)
         /\ SomeDead(Committed(p).frozen) => SomeDead(p.frozen)
<1>1. p \in CacheRecord /\ p.frozen \in SUBSET Draft
  BY PartsTypes DEF CacheOK
<1> QED BY <1>1, CommittedOK, CommittedParts, NothingDead, MarkedDead DEF HasParts

LEMMA AskStep ==
  ASSUME IInv, Ask
  PROVE  IInv'
<1> DEFINE q == left.asks
<1>1. q \in Asks /\ <<"ask", q>> \in Texts /\ left' \in Budgets
      /\ \A i \in 1..left'.asks : <<"ask", i>> \in Texts
  BY SpendKeeps DEF Ask, Asks
<1>2. /\ late = {}
      /\ UNCHANGED <<agenda, mirror, locked, items, job, playing, voice, ending, cancelled, straggles>>
  BY DEF Ask, NoneLate, driver, speech, router, token
<1>3. agenda' \in AgendaRecord /\ items' \in Seq(AgendaTexts) /\ job' \in SUBSET Texts
  BY <1>2 DEF IInv, WorldInv, SpeechInv
<1>4. CASE hand.st = "idle" /\ ~IsSpeaking
  <2> DEFINE n == Noted(cache, <<"ask", q>>)
  <2>1. /\ hand' = [AtRest EXCEPT !.st = "generate", !.text = <<"ask", q>>]
        /\ cache' = [n EXCEPT !.llm = TRUE]
        /\ UNCHANGED <<asks, late>>
    BY <1>4 DEF Ask
  <2> HIDE DEF q
  <2>2. HandInv' /\ hand'.st = "generate"
    <3>1. HandIs(hand', "generate", <<"ask", q>>, {})
      BY <1>1, <2>1, TurnInHand
    <3> QED BY <1>1, <3>1, TurnTaken
  <2>3. CacheOK(n) /\ NoNewDead(n, cache)
    BY NotedKeeps DEF IInv, WorldInv
  <2> HIDE DEF n
  <2>4. CacheOK(cache') /\ NoNewDead(cache', cache)
    BY <2>1, <2>3, ModelKeeps, NoneNewTrans
  <2>5. LeftInv'
    BY <1>1, <2>1 DEF IInv, LeftInv
  <2>6. DeadInv'
    BY <1>2, <1>4, <2>1, <2>2, <2>4 DEF IInv, DeadInv, NoNewDead
  <2> QED BY <1>2, <1>3, <2>1, <2>2, <2>4, <2>5, <2>6, EngineKeeps
<1>5. CASE ~(hand.st = "idle" /\ ~IsSpeaking)
  <2>1. /\ asks' = Append(asks, q)
        /\ late' = Triggered(cache, asks', items)
        /\ UNCHANGED <<hand, cache>>
    BY <1>5 DEF Ask
  <2>2. asks' \in Seq(Asks)
    BY <1>1, <2>1 DEF IInv, LeftInv
  <2>3. LateInv' /\ (late' # {} => job # {} \/ playing # {})
    BY <2>1, <2>2, TriggeredOK DEF IInv, WorldInv, LateInv
  <2>4. WorldInv' /\ HandInv' /\ SpeechInv'
    BY <1>2, <2>1 DEF IInv, WorldInv, HandInv, SpeechInv
  <2>5. LeftInv'
    BY <1>1, <2>2 DEF LeftInv
  <2>6. DeadInv' /\ StopInv'
    BY <1>2, <2>1, <2>3 DEF IInv, DeadInv, StopInv
  <2> QED BY <2>3, <2>4, <2>5, <2>6 DEF IInv
<1> QED BY <1>4, <1>5

\* What a turn becomes when it is to be spoken from its draft,
LEMMA SpeakableKeeps ==
  ASSUME IInv, NEW x \in Texts, NEW c, CacheOK(c), NoNewDead(c, cache),
         Speakable(x, cache.slot, c)
  PROVE  HandInv' /\ hand'.st = "ready" /\ CacheOK(cache') /\ NoNewDead(cache', cache)
<1>1. cache.slot \in SUBSET Draft /\ \A d \in cache.slot : d.conn # "alien"
  BY PartsTypes DEF IInv, WorldInv, CacheOK, PartsOK
<1>2. hand' = [AtRest EXCEPT !.st = "ready", !.text = x, !.draft = cache.slot] /\ cache' = Noted(c, x)
  BY DEF Speakable
<1>3. HandInv' /\ hand'.st = "ready"
  <2>1. HandIs(hand', "ready", x, cache.slot)
    BY <1>1, <1>2, TurnInHand
  <2> QED BY <1>1, <2>1, TurnTaken
<1> QED BY <1>2, <1>3, NotedKeeps, NoneNewTrans

\* and when it is to be generated.
LEMMA GeneratesKeeps ==
  ASSUME IInv, NEW x \in Texts, NEW qs \in Seq(Asks), Generates(x, cache, qs)
  PROVE  /\ HandInv' /\ hand'.st = "generate" /\ asks' \in Seq(Asks)
         /\ CacheOK(cache') /\ NoNewDead(cache', cache)
<1> DEFINE rest == IF Asked(x) THEN qs ELSE <<>>
           absorbed == {<<"ask", rest[i]>> : i \in 1..Len(rest)}
           c == ClearedFor(cache, absorbed)
           n == Noted(c, x)
<1>1. /\ hand' = [AtRest EXCEPT !.st = "generate", !.text = x, !.rest = rest]
      /\ cache' = [n EXCEPT !.llm = TRUE]
      /\ asks' = IF Asked(x) THEN <<>> ELSE qs
  BY DEF Generates
<1>2. rest \in Seq(Asks) /\ asks' \in Seq(Asks)
  BY <1>1
<1>3. CacheOK(c) /\ NoNewDead(c, cache)
  BY ClearingCases, ClearedKeeps DEF IInv, WorldInv
<1> HIDE DEF rest, c
<1>4. HandInv' /\ hand'.st = "generate"
  <2>1. HandIs(hand', "generate", x, {})
    BY <1>1, <1>2, TurnInHand
  <2> QED BY <2>1, TurnTaken
<1>5. CacheOK(n) /\ NoNewDead(n, cache)
  BY <1>3, NotedKeeps, NoneNewTrans
<1> HIDE DEF n
<1>6. CacheOK(cache') /\ NoNewDead(cache', cache)
  BY <1>1, <1>5, ModelKeeps, NoneNewTrans
<1> QED BY <1>2, <1>4, <1>6

LEMMA PopStep ==
  ASSUME IInv, Pop
  PROVE  IInv'
<1>1. /\ hand.st = "idle" /\ job = {} /\ playing = {}
      /\ UNCHANGED <<agenda, mirror, locked, job, playing, voice, ending, cancelled, straggles, late, left>>
  BY DEF Pop, IsSpeaking, driver, speech, router, token
<1>2. PICK x \in HeadOf(asks, items) :
        LET qs == IF Asked(x) THEN Tail(asks) ELSE asks IN
        /\ items' = IF Asked(x) THEN items ELSE Tail(items)
        /\ IF Holds(cache, x)
           THEN Speakable(x, cache.slot, Taken(cache)) /\ asks' = qs
           ELSE IF InFlightFor(cache, x)
           THEN /\ hand' = [AtRest EXCEPT !.st = "waiting", !.text = x]
                /\ asks' = qs /\ UNCHANGED cache
           ELSE Generates(x, cache, qs)
  BY DEF Pop
<1> DEFINE qs == IF Asked(x) THEN Tail(asks) ELSE asks
<1>3. asks \in Seq(Asks) /\ items \in Seq(AgendaTexts)
  BY DEF IInv, LeftInv, WorldInv
<1>4. \/ asks # <<>> /\ x = <<"ask", asks[1]>>
      \/ items # <<>> /\ x = items[1]
  BY DEF HeadOf
<1>5. x \in Texts /\ (Asked(x) => asks # <<>>) /\ (~Asked(x) => items # <<>>)
  <2>1. CASE asks # <<>> /\ x = <<"ask", asks[1]>>
    <3>1. asks[1] \in Asks /\ Asked(x)
      BY <1>3, <2>1 DEF Asked
    <3> QED BY <2>1, <3>1 DEF Asks
  <2>2. CASE items # <<>> /\ x = items[1]
    <3>1. items[1] \in AgendaTexts
      BY <1>3, <2>2
    <3>2. \A y \in AgendaTexts : ~Asked(y)
      BY DEF AgendaTexts, Asked
    <3> QED BY <2>2, <3>1, <3>2
  <2> QED BY <1>4, <2>1, <2>2
<1>6. qs \in Seq(Asks) /\ items' \in Seq(AgendaTexts)
  BY <1>2, <1>3, <1>5
<1>7. /\ HandInv' /\ hand'.st # "settle" /\ asks' \in Seq(Asks)
      /\ CacheOK(cache') /\ NoNewDead(cache', cache)
  <2> HIDE DEF qs
  <2>1. CASE Speakable(x, cache.slot, Taken(cache)) /\ asks' = qs
    <3>1. CacheOK(Taken(cache)) /\ NoNewDead(Taken(cache), cache)
      BY TakenKeeps DEF IInv, WorldInv
    <3>2. HandInv' /\ hand'.st = "ready" /\ CacheOK(cache') /\ NoNewDead(cache', cache)
      BY <1>5, <2>1, <3>1, SpeakableKeeps
    <3> QED BY <1>6, <2>1, <3>2
  <2>2. CASE /\ hand' = [AtRest EXCEPT !.st = "waiting", !.text = x]
             /\ asks' = qs /\ UNCHANGED cache
    <3>1. HandInv' /\ hand'.st = "waiting"
      <4>1. HandIs(hand', "waiting", x, {})
        BY <1>5, <2>2, TurnInHand
      <4> QED BY <1>5, <4>1, TurnTaken
    <3>2. CacheOK(cache') /\ NoNewDead(cache', cache)
      BY <2>2 DEF IInv, WorldInv, NoNewDead
    <3> QED BY <1>6, <2>2, <3>1, <3>2
  <2>3. CASE Generates(x, cache, qs)
    BY <1>5, <1>6, <2>3, GeneratesKeeps
  <2> QED BY <1>2, <2>1, <2>2, <2>3 DEF qs
<1>8. LeftInv'
  BY <1>1, <1>7 DEF IInv, LeftInv
<1>9. DeadInv'
  BY <1>1, <1>7 DEF IInv, DeadInv, NoNewDead
<1>10. agenda' \in AgendaRecord /\ job' \in SUBSET Texts
  BY <1>1 DEF IInv, WorldInv, SpeechInv
<1> QED BY <1>1, <1>6, <1>7, <1>8, <1>9, <1>10, EngineKeeps

LEMMA EndWaitStep ==
  ASSUME IInv, EndWait
  PROVE  IInv'
<1>1. /\ hand.st = "waiting" /\ hand.text \in Texts
      /\ UNCHANGED <<agenda, mirror, locked, items, job, playing, voice, ending, cancelled, straggles, late, left>>
  BY DEF EndWait, driver, speech, router, token, IInv, HandInv
<1>2. asks \in Seq(Asks)
  BY DEF IInv, LeftInv
<1>3. /\ HandInv' /\ hand'.st # "settle" /\ asks' \in Seq(Asks)
      /\ CacheOK(cache') /\ NoNewDead(cache', cache)
  <2>1. CASE Speakable(hand.text, cache.slot, Taken(cache)) /\ UNCHANGED asks
    <3>1. CacheOK(Taken(cache)) /\ NoNewDead(Taken(cache), cache)
      BY TakenKeeps DEF IInv, WorldInv
    <3>2. HandInv' /\ hand'.st = "ready" /\ CacheOK(cache') /\ NoNewDead(cache', cache)
      BY <1>1, <2>1, <3>1, SpeakableKeeps
    <3> QED BY <1>2, <2>1, <3>2
  <2>2. CASE Generates(hand.text, cache, asks)
    <3>1. hand'.st = "generate" /\ HandInv' /\ asks' \in Seq(Asks) /\ CacheOK(cache') /\ NoNewDead(cache', cache)
      BY <1>1, <1>2, <2>2, GeneratesKeeps
    <3> QED BY <3>1
  <2> QED BY <2>1, <2>2 DEF EndWait
<1>4. LeftInv'
  BY <1>1, <1>3 DEF IInv, LeftInv
<1>5. DeadInv'
  BY <1>1, <1>3 DEF IInv, DeadInv, NoNewDead
<1>6. agenda' \in AgendaRecord /\ job' \in SUBSET Texts /\ items' \in Seq(AgendaTexts)
  BY <1>1 DEF IInv, WorldInv, SpeechInv
<1> QED BY <1>1, <1>3, <1>4, <1>5, <1>6, EngineKeeps

LEMMA HandAtRest ==
  ASSUME hand' = AtRest
  PROVE  HandInv' /\ hand'.st = "idle"
BY RestingHand DEF HandInv

\* Every turn that is spoken is committed, which outdates the slot but not the stash's
\* persona.
LEMMA SpeakDraftStep ==
  ASSUME IInv, SpeakDraft
  PROVE  IInv'
<1>1. /\ hand.st = "ready" /\ hand.text \in Texts
      /\ cache' = Committed(cache) /\ hand' = AtRest /\ job' = job \cup {hand.text}
      /\ UNCHANGED <<agenda, mirror, locked, asks, items, playing, voice, ending, cancelled, straggles, late, left>>
  BY DEF SpeakDraft, Submit, driver, queue, token, IInv, HandInv
<1>2. CacheOK(cache') /\ ~SomeDead(cache'.slot) /\ (SomeDead(cache'.frozen) => SomeDead(cache.frozen))
  BY <1>1, CommittedKeeps DEF IInv, WorldInv
<1>3. HandInv' /\ hand'.st = "idle"
  BY <1>1, HandAtRest
<1>4. LeftInv' /\ agenda' \in AgendaRecord /\ items' \in Seq(AgendaTexts) /\ job' \in SUBSET Texts
  BY <1>1 DEF IInv, LeftInv, WorldInv, SpeechInv
<1>5. DeadInv'
  BY <1>1, <1>2, <1>3 DEF IInv, DeadInv
<1> QED BY <1>1, <1>2, <1>3, <1>4, <1>5, EngineKeeps

LEMMA GeneratedStep ==
  ASSUME IInv, Generated
  PROVE  IInv'
<1> DEFINE c == Committed(cache)
<1>1. /\ hand.st = "generate" /\ hand.text \in Texts /\ agenda' \in {agenda, Succeeded(agenda)}
      /\ cache' = [c EXCEPT !.llm = FALSE] /\ hand' = AtRest /\ job' = job \cup {hand.text}
      /\ UNCHANGED <<mirror, locked, asks, items, playing, voice, ending, cancelled, straggles, late, left>>
  BY DEF Generated, Submit, driver, queue, token, IInv, HandInv
<1>2. CacheOK(c) /\ ~SomeDead(c.slot) /\ (SomeDead(c.frozen) => SomeDead(cache.frozen))
  BY CommittedKeeps DEF IInv, WorldInv
<1> HIDE DEF c
<1>3. CacheOK(cache') /\ NoNewDead(cache', c)
  BY <1>1, <1>2, ModelKeeps
<1>4. HandInv' /\ hand'.st = "idle"
  BY <1>1, HandAtRest
<1>5. agenda' \in AgendaRecord
  BY <1>1, SettledType DEF IInv, WorldInv
<1>6. LeftInv' /\ items' \in Seq(AgendaTexts) /\ job' \in SUBSET Texts
  BY <1>1 DEF IInv, LeftInv, WorldInv, SpeechInv
<1>7. DeadInv'
  BY <1>1, <1>2, <1>3, <1>4 DEF IInv, DeadInv, NoNewDead
<1> QED BY <1>1, <1>3, <1>4, <1>5, <1>6, <1>7, EngineKeeps

LEMMA GenerationFailedStep ==
  ASSUME IInv, GenerationFailed
  PROVE  IInv'
<1> DEFINE c == Cleared(cache)
<1>1. /\ hand.st = "generate" /\ agenda' \in {agenda, AcceptEmpty(agenda), AcceptRejected(agenda)}
      /\ cache' = [c EXCEPT !.llm = FALSE] /\ hand' = AtRest /\ asks' = hand.rest \o asks
      /\ UNCHANGED <<mirror, locked, items, job, playing, voice, ending, cancelled, straggles, late>>
      /\ Spend("faults")
  BY DEF GenerationFailed, driver, speech, router, token
<1>2. CacheOK(c) /\ NoNewDead(c, cache)
  BY ClearedKeeps DEF IInv, WorldInv
<1> HIDE DEF c
<1>3. CacheOK(cache') /\ NoNewDead(cache', cache)
  BY <1>1, <1>2, ModelKeeps, NoneNewTrans
<1>4. HandInv' /\ hand'.st = "idle"
  BY <1>1, HandAtRest
<1>5. agenda' \in AgendaRecord
  BY <1>1, RejectionTypes DEF IInv, WorldInv
<1>6. LeftInv'
  <2>1. hand.rest \in Seq(Asks) /\ asks \in Seq(Asks)
    BY DEF IInv, HandInv, Hand, LeftInv
  <2>2. asks' \in Seq(Asks)
    BY <1>1, <2>1
  <2> QED BY <1>1, <2>2, SpendKeeps DEF LeftInv
<1>7. items' \in Seq(AgendaTexts) /\ job' \in SUBSET Texts
  BY <1>1 DEF IInv, WorldInv, SpeechInv
<1>8. DeadInv'
  BY <1>1, <1>3, <1>4 DEF IInv, DeadInv, NoNewDead
<1> QED BY <1>1, <1>3, <1>4, <1>5, <1>6, <1>7, <1>8, EngineKeeps

\* A change of persona outdates the stash, and drops it in a second step.
LEMMA SetProfileStep ==
  ASSUME IInv, SetProfile
  PROVE  IInv'
<1>1. /\ job = {} /\ playing = {}
      /\ cache' = Cleared(Outdated(cache)) /\ hand' = [AtRest EXCEPT !.st = "settle"]
      /\ UNCHANGED <<agenda, mirror, locked, asks, items, job, playing, voice, ending, cancelled, straggles, late>>
      /\ Spend("profiles")
  BY DEF SetProfile, IsSpeaking, driver, queue, speech, router, token
<1>2. CacheOK(cache') /\ cache'.slot = {}
  BY <1>1, OutdatedOK DEF IInv, WorldInv
<1>3. HandInv' /\ hand'.st = "settle"
  BY <1>1, SettlingHand DEF HandInv
<1>4. LeftInv'
  BY <1>1, SpendKeeps DEF IInv, LeftInv
<1>5. agenda' \in AgendaRecord /\ items' \in Seq(AgendaTexts) /\ job' \in SUBSET Texts
  BY <1>1 DEF IInv, WorldInv, SpeechInv
<1>6. DeadInv'
  BY <1>1, <1>2, <1>3, NothingDead DEF DeadInv
<1> QED BY <1>1, <1>2, <1>3, <1>4, <1>5, <1>6, EngineKeeps

LEMMA InvalidateStashStep ==
  ASSUME IInv, InvalidateStash
  PROVE  IInv'
<1>1. /\ cache' = Discarded(cache) /\ hand' = AtRest
      /\ UNCHANGED <<agenda, mirror, locked, asks, items, job, playing, voice, ending, cancelled, straggles, late, left>>
  BY DEF InvalidateStash, driver, queue, speech, router, token
<1>2. CacheOK(cache') /\ NoNewDead(cache', cache) /\ cache'.frozen = {}
  BY <1>1, ClearedKeeps, DiscardedParts DEF IInv, WorldInv, CacheOK, HasParts
<1>3. HandInv' /\ hand'.st = "idle"
  BY <1>1, HandAtRest
<1>4. LeftInv' /\ agenda' \in AgendaRecord /\ items' \in Seq(AgendaTexts) /\ job' \in SUBSET Texts
  BY <1>1 DEF IInv, LeftInv, WorldInv, SpeechInv
<1>5. DeadInv'
  BY <1>1, <1>2, <1>3, NothingDead DEF IInv, DeadInv, NoNewDead
<1> QED BY <1>1, <1>2, <1>3, <1>4, <1>5, EngineKeeps

-----------------------------------------------------------------------------
(* The steps of the workers. *)

LEMMA CacheStep ==
  ASSUME IInv, CacheOK(cache'), NoNewDead(cache', cache),
         left' \in Budgets, \A q \in 1..left'.asks : <<"ask", q>> \in Texts,
         LateInv', late' # {} => late # {} \/ job # {} \/ playing # {},
         UNCHANGED <<agenda, driver, queue, hand, speech>>
  PROVE  IInv'
<1> USE DEF driver, queue, speech, router, token
<1>1. WorldInv' /\ HandInv' /\ SpeechInv' /\ LeftInv'
  BY DEF IInv, WorldInv, HandInv, SpeechInv, LeftInv
<1>2. DeadInv' /\ StopInv'
  BY DEF IInv, DeadInv, NoNewDead, StopInv
<1> QED BY <1>1, <1>2 DEF IInv

LEMMA WorkerEndsStep ==
  ASSUME IInv, NEW w \in Workers, WorkerEnds(w)
  PROVE  IInv'
<1>1. /\ UNCHANGED <<agenda, driver, queue, hand, speech, late>>
      /\ cache.work[w].st = "gen"
      /\ \E made \in BOOLEAN : cache' = Landed(cache, w, made)
      /\ UNCHANGED left \/ Spend("faults")
  BY DEF WorkerEnds
<1>2. CacheOK(cache') /\ NoNewDead(cache', cache)
  BY <1>1, LandedOK DEF IInv, WorldInv, NoNewDead
<1>3. left' \in Budgets /\ \A q \in 1..left'.asks : <<"ask", q>> \in Texts
  BY <1>1, SpendKeeps DEF IInv, LeftInv
<1>4. LateInv' /\ (late' # {} => late # {})
  BY <1>1 DEF IInv, LateInv
<1> QED BY <1>1, <1>2, <1>3, <1>4, CacheStep

LEMMA WorkerReleasesStep ==
  ASSUME IInv, NEW w \in Workers, WorkerReleases(w)
  PROVE  IInv'
<1>1. /\ UNCHANGED <<agenda, driver, queue, hand, speech, left>>
      /\ cache' = Released(cache, w)
      /\ \/ late' = Triggered(cache', asks, items) \ {cache.work[w].text}
         \/ late' = late
  BY DEF WorkerReleases
<1>2. CacheOK(cache') /\ NoNewDead(cache', cache)
  BY <1>1, ReleasedOK DEF IInv, WorldInv, NoNewDead
<1>3. left' \in Budgets /\ \A q \in 1..left'.asks : <<"ask", q>> \in Texts
  BY <1>1 DEF IInv, LeftInv
<1>4. LateInv' /\ (late' # {} => late # {} \/ job # {} \/ playing # {})
  <2>1. asks \in Seq(Asks) /\ items \in Seq(AgendaTexts)
    BY DEF IInv, LeftInv, WorldInv
  <2>2. /\ Triggered(cache', asks, items) \in SUBSET Texts /\ AtMostOne(Triggered(cache', asks, items))
        /\ Triggered(cache', asks, items) # {} => job # {} \/ playing # {}
    BY <2>1, TriggeredOK
  <2> QED BY <1>1, <2>2 DEF IInv, LateInv, AtMostOne
<1> QED BY <1>1, <1>2, <1>3, <1>4, CacheStep

LEMMA ConnectorEndsStep ==
  ASSUME IInv, ConnectorEnds
  PROVE  IInv'
<1>1. /\ UNCHANGED <<agenda, driver, queue, hand, speech, late, left>>
      /\ \E line \in BOOLEAN : cache' = UpgradeLanded(cache, line)
  BY DEF ConnectorEnds
<1>2. CacheOK(cache') /\ NoNewDead(cache', cache)
  BY <1>1, UpgradeLandedOK DEF IInv, WorldInv, NoNewDead
<1>3. left' \in Budgets /\ \A q \in 1..left'.asks : <<"ask", q>> \in Texts
  BY <1>1 DEF IInv, LeftInv
<1>4. LateInv' /\ (late' # {} => late # {})
  BY <1>1 DEF IInv, LateInv
<1> QED BY <1>1, <1>2, <1>3, <1>4, CacheStep

\* A trigger is under way, so the draft that it displaces is not outdated.
LEMMA LateSpawnStep ==
  ASSUME IInv, LateSpawn
  PROVE  IInv'
<1>1. PICK x \in late :
        /\ WorkerFree
        /\ late' = {}
        /\ \/ cache' = Spawned(cache, x) /\ UNCHANGED left
           \/ cache' = SpawnFailed(cache) /\ Spend("faults")
           \/ UNCHANGED <<cache, left>>
        /\ MaySpawn(cache, x) \/ UNCHANGED <<cache, left>>
        /\ UNCHANGED <<agenda, driver, queue, hand, speech>>
  BY Zenon DEF LateSpawn
<1>2. x \in Texts /\ CacheOK(cache) /\ ~SomeDead(cache.slot)
  BY DEF IInv, LateInv, WorldInv, DeadInv
<1>3. \E w \in Workers : cache.work[w].st = "off"
  BY <1>1 DEF WorkerFree
<1>4. CacheOK(cache') /\ NoNewDead(cache', cache)
  <2>1. CASE cache' = Spawned(cache, x) /\ MaySpawn(cache, x)
    BY <1>2, <1>3, <2>1, SpawnedOK, NothingDead DEF NoNewDead
  <2>2. CASE cache' = SpawnFailed(cache) /\ MaySpawn(cache, x)
    BY <1>2, <2>2, SpawnFailedOK, NothingDead DEF NoNewDead
  <2>3. CASE cache' = cache
    BY <1>2, <2>3 DEF NoNewDead
  <2> QED BY <1>1, <2>1, <2>2, <2>3
<1>5. left' \in Budgets /\ \A q \in 1..left'.asks : <<"ask", q>> \in Texts
  BY <1>1, SpendKeeps DEF IInv, LeftInv
<1>6. LateInv'
  BY <1>1 DEF LateInv, AtMostOne
<1> QED BY <1>1, <1>4, <1>5, <1>6, CacheStep

-----------------------------------------------------------------------------
(* The invariant, and what follows from it. *)

LEMMA NewCacheOK == CacheOK(NewCache) /\ NewCache.slot = {} /\ NewCache.frozen = {}
<1>1. Idle \in Worker /\ Idle.st = "off" /\ ~Idle.valid
  BY DEF Idle, Worker
<1> DEFINE W == [w \in Workers |-> Idle]
<1>2. W \in [Workers -> Worker] /\ \A i \in Workers : W[i] = Idle
  BY <1>1
<1> HIDE DEF W
<1>3. NewCache = [slot |-> {}, marker |-> Nobody, work |-> W, frozen |-> {}, detour |-> 0,
                  upgrade |-> "off", llm |-> FALSE]
  BY DEF NewCache, W
<1>4. 0 \in 0..(DetourMax + 1)
  OBVIOUS
<1>5. HasParts(NewCache, {}, Nobody, W, {}, 0, "off", FALSE)
  BY <1>2, <1>3, <1>4 DEF HasParts, CacheRecord
<1>6. PartsOK({}, Nobody, W, {})
  BY <1>1, <1>2 DEF PartsOK, OneDraft, Live
<1> QED BY <1>5, <1>6, OKParts DEF HasParts

LEMMA InitIInv == Init => IInv
<1> SUFFICES ASSUME Init PROVE IInv
  OBVIOUS
<1> USE DEF Init
<1>1. left \in Scenes /\ left.topics \in 0..Topics
  <2>1. Scenes \subseteq [topics : 0..Topics, asks : Nat, enables : Nat, stops : Nat,
                         emergencies : Nat, profiles : Nat, faults : Nat]
    BY DriverAssumption
  <2> QED BY <2>1
<1>2. agenda \in AgendaRecord
  <2>1. Topics - left.topics \in 0..Topics
    BY <1>1, ControllerAssumption
  <2> QED BY <2>1, NewAgendaType
<1>3. WorldInv
  BY <1>2, NewCacheOK DEF WorldInv, AtMostOne
<1>4. HandInv
  BY RestingHand DEF HandInv
<1>5. SpeechInv /\ LateInv
  BY DEF SpeechInv, Voices, Holders, LateInv, AtMostOne
<1>6. LeftInv
  <2>1. left \in Budgets
    BY <1>1, ControllerAssumption, DriverAssumption DEF Budgets
  <2> QED BY <1>1, <2>1, DriverAssumption DEF LeftInv
<1>7. DeadInv /\ StopInv
  BY NewCacheOK, NothingDead, RestingHand DEF DeadInv, StopInv
<1> QED BY <1>3, <1>4, <1>5, <1>6, <1>7 DEF IInv

LEMMA StutterStep ==
  ASSUME IInv, UNCHANGED vars
  PROVE  IInv'
<1> USE DEF vars, driver, queue, speech, router, token
<1>1. WorldInv' /\ HandInv' /\ SpeechInv' /\ LateInv' /\ LeftInv'
  BY DEF IInv, WorldInv, HandInv, SpeechInv, LateInv, LeftInv
<1>2. DeadInv' /\ StopInv'
  BY DEF IInv, DeadInv, StopInv
<1> QED BY <1>1, <1>2 DEF IInv

LEMMA NextIInv == IInv /\ [Next]_vars => IInv'
<1> SUFFICES ASSUME IInv, [Next]_vars PROVE IInv'
  OBVIOUS
<1>1. CASE \E due, aged \in BOOLEAN : Tick(due, aged)
  BY <1>1, TickStep
<1>2. CASE FinishReturn \/ Enable \/ SoftStopSession \/ EmergencyStopSession \/ Ask \/ SetProfile
  BY <1>2, FinishReturnStep, EnableStep, SoftStopStep, EmergencyStopStep, AskStep, SetProfileStep
<1>3. CASE EngineStep
  BY <1>3, PopStep, EndWaitStep, SpeakDraftStep, GeneratedStep, GenerationFailedStep,
     InvalidateStashStep DEF EngineStep
<1>4. CASE SpeechStep
  BY <1>4, PickJobStep, SpeechStartsStep, CheckTokenStep, ArmVoiceStep, SpeechFinishesStep,
     SpeechEndedStep DEF SpeechStep
<1>7. CASE StopStep
  BY <1>7, StopStepStep
<1>5. CASE WorkerStep
  BY <1>5, WorkerEndsStep, WorkerReleasesStep, ConnectorEndsStep, LateSpawnStep DEF WorkerStep
<1>6. CASE UNCHANGED vars
  BY <1>6, StutterStep
<1> QED BY <1>1, <1>2, <1>3, <1>4, <1>5, <1>6, <1>7 DEF Next

LEMMA AlwaysIInv == Spec => []IInv
BY InitIInv, NextIInv, PTL DEF Spec

LEMMA AtMostOneCounts ==
  ASSUME NEW S, AtMostOne(S)
  PROVE  Cardinality(S) <= 1
<1>1. CASE S = {}
  BY <1>1, FS_EmptySet
<1>2. CASE S # {}
  <2>1. PICK x : x \in S
    BY <1>2
  <2>2. S = {x}
    BY <2>1 DEF AtMostOne
  <2>3. Cardinality({x}) = 1
    BY FS_Singleton
  <2> QED BY <2>2, <2>3
<1> QED BY <1>1, <1>2

LEMMA NumbersAsked ==
  ASSUME NEW s \in Seq(Asks)
  PROVE  s \in Seq(Nat)
<1>1. Asks \in SUBSET Nat
  BY DEF Asks
<1> QED BY <1>1, SeqMonotonic

LEMMA IInvTypes == IInv => TypeOK
<1> SUFFICES ASSUME IInv PROVE TypeOK
  OBVIOUS
<1>1. agenda \in AgendaRecord /\ cache \in CacheRecord
  BY DEF IInv, WorldInv, CacheOK
<1>2. Cardinality(cache.slot) <= 1 /\ Cardinality(cache.frozen) <= 1
  <2>1. AtMostOne(cache.slot) /\ AtMostOne(cache.frozen)
    BY DEF IInv, WorldInv, CacheOK, PartsOK, OneDraft, AtMostOne
  <2> QED BY <2>1, AtMostOneCounts
<1>3. mirror \subseteq AgendaTexts /\ Cardinality(mirror) <= 1
  BY AtMostOneCounts DEF IInv, WorldInv
<1>4. late \subseteq Texts /\ Cardinality(late) <= 1
  BY AtMostOneCounts DEF IInv, LateInv
<1>5. asks \in Seq(Nat) /\ items \in Seq(AgendaTexts)
  BY NumbersAsked DEF IInv, LeftInv, WorldInv
<1>6. /\ hand.st \in HandStates /\ hand.text \in Texts \cup {AtRest.text} /\ hand.draft \subseteq Draft
      /\ hand.rest \in Seq(Nat)
  BY NumbersAsked DEF IInv, HandInv, Hand
<1>7. /\ job \subseteq Texts /\ playing \subseteq Texts
      /\ voice \in Voices /\ ending \in BOOLEAN /\ cancelled \in BOOLEAN
      /\ straggles \in BOOLEAN /\ locked \in Holders
  BY DEF IInv, SpeechInv
<1> QED BY <1>1, <1>2, <1>3, <1>4, <1>5, <1>6, <1>7 DEF TypeOK, HandStates, Voices, Holders

\* The controller, the cache and the queue only ever hold what their methods are
\* written for, and the slot, the stash and the mirror at most one thing each.
THEOREM TypeCorrect == Spec => []TypeOK
BY AlwaysIInv, IInvTypes, PTL

\* However a draft's worker, a commit, a change of persona, a stop and the return of a
\* stash interleave, no draft made before the last of them waits to be spoken, but for
\* the one that returns.
THEOREM DraftsStayFresh == Spec => []DraftsAreFresh
<1>1. IInv => DraftsAreFresh
  BY DEF IInv, WorldInv, CacheOK, PartsOK, DeadInv, SomeDead, DraftsAreFresh
<1> QED BY <1>1, AlwaysIInv, PTL

\* However late workers end and whatever displaces, discards or returns a draft, at most
\* one worker generates what may still be stored, and it finds the slot empty.
THEOREM OneDraftComes == Spec => []OneLiveGeneration
<1>1. IInv => OneLiveGeneration
  BY DEF IInv, WorldInv, CacheOK, PartsOK, Live, OneLiveGeneration
<1> QED BY <1>1, AlwaysIInv, PTL

\* Late workers, threads that do not start and displaced drafts never leave the marker
\* with a worker that is gone.
THEOREM MarkerIsReleased == Spec => []SlotHasWorker
<1>1. IInv => SlotHasWorker
  BY DEF IInv, WorldInv, CacheOK, PartsOK, SlotHasWorker
<1> QED BY <1>1, AlwaysIInv, PTL

\* A connector whose stash was dropped, restored or replaced while it was generated is
\* never kept, queued or spoken with another beat.
THEOREM ConnectorsFit == Spec => []ConnectorFits
<1>1. IInv => ConnectorFits
  BY DEF IInv, WorldInv, HandInv, CacheOK, PartsOK, ConnectorFits
<1> QED BY <1>1, AlwaysIInv, PTL

\* Once the emergency stop has cut the voice, nothing that was generating, queued or taken
\* is heard, however late it comes, but for the utterance whose last look at the token
\* was before the stop and whose arming was after the cut.
THEOREM OnlyOneStraggles == Spec => []OnlyStragglerIsHeard
<1>1. IInv => OnlyStragglerIsHeard
  BY DEF IInv, StopInv, OnlyStragglerIsHeard
<1> QED BY <1>1, AlwaysIInv, PTL
-----------------------------------------------------------------------------
(* A controller that waits for its turn has one coming: whoever lets it wait   *)
(* enqueues a text in the same step, and a text only goes where it is seen.    *)

Coming == \E x \in AgendaTurns : ~Asked(x)
Spared == Stranded' => Stranded \/ cancelled

LEMMA AgendaTextsNotAsked == \A x \in AgendaTexts : ~Asked(x)
BY DEF AgendaTexts, Asked

LEMMA QueuedComes ==
  ASSUME items' \in Seq(AgendaTexts), items' # <<>>
  PROVE  Coming'
<1>1. items'[1] \in AgendaTexts /\ 1 \in 1..Len(items')
  OBVIOUS
<1> QED BY <1>1, AgendaTextsNotAsked DEF Coming, AgendaTurns

\* Steps that let nobody wait and lose no text.
LEMMA NothingLost ==
  ASSUME agenda'.st = "generating" => agenda.st = "generating", locked = "return" => locked' = "return",
         ending => ending', Coming => Coming'
  PROVE  Spared
BY DEF Spared, Stranded, Coming

\* World o lets the controller wait only with a text queued, or as world p did.
Honest(o, p) ==
  o.agenda.st = "generating" =>
    o.items # <<>> \/ (p.agenda.st = "generating" /\ o.items = p.items)

LEMMA HonestTrans ==
  ASSUME NEW o, NEW q, NEW p, Honest(o, q), Honest(q, p)
  PROVE  Honest(o, p)
BY DEF Honest

LEMMA EnqueuedHonest ==
  ASSUME NEW o, WorldOK(o), NEW text \in AgendaTexts, NEW p
  PROVE  Honest(Enqueued(o, text), p) /\ Enqueued(o, text).items # <<>>
<1> DEFINE kept == {i \in 1..Len(o.items) : ~SameSource(o.items[i], text)}
           k == CHOOSE i \in kept : TRUE
<1>1. <<text>> # <<>> /\ <<o.items[k], text>> # <<>>
  OBVIOUS
<1>2. Replaced(o.items, text) # <<>>
  BY <1>1 DEF Replaced
<1> DEFINE its == Replaced(o.items, text)
           c == ClearedUnless(o.cache, text)
<1>3. Enqueued(o, text) = [o EXCEPT !.cache = c, !.mirror = {}, !.items = its]
  BY DEF Enqueued
<1> HIDE DEF its, c
<1>4. Enqueued(o, text).items = its
  BY <1>3 DEF WorldOK
<1> QED BY <1>2, <1>4 DEF Honest, its

LEMMA DroppedHonest ==
  ASSUME NEW o, WorldOK(o)
  PROVE  Honest(o, o) /\ Honest(Dropped(o), o) /\ Honest(Skipped(o), o)
<1> DEFINE c == ClearedAgenda(o.cache)
           d == Discarded(o.cache)
<1>1. Dropped(o) = [o EXCEPT !.mirror = {}, !.cache = c]
  BY DEF Dropped
<1>2. Skipped(o) = [o EXCEPT !.cache = d, !.mirror = {}]
  BY DEF Skipped
<1> HIDE DEF c, d
<1>3. /\ Dropped(o).agenda = o.agenda /\ Dropped(o).items = o.items
      /\ Skipped(o).agenda = o.agenda /\ Skipped(o).items = o.items
  BY <1>1, <1>2 DEF WorldOK
<1> QED BY <1>3 DEF Honest

LEMMA ConsumedHonest ==
  ASSUME NEW o, WorldOK(o)
  PROVE  Honest(Consumed(o), o)
<1> DEFINE text == CHOOSE x \in o.mirror : TRUE
           b == [o EXCEPT !.agenda = Adopted(@, text)]
<1>1. \/ Consumed(o) = o
      \/ Consumed(o) = Dropped(o)
      \/ o.mirror # {} /\ Consumed(o) = Enqueued(b, text)
  BY DEF Consumed
<1>2. ASSUME o.mirror # {}
      PROVE  Honest(Enqueued(b, text), o)
  <2>1. text \in AgendaTexts
    BY <1>2 DEF WorldOK
  <2>2. Adopted(o.agenda, text) \in AgendaRecord
    BY OutcomeTypes DEF WorldOK
  <2>3. b = [o EXCEPT !.agenda = Adopted(o.agenda, text)]
    BY DEF WorldOK
  <2> HIDE DEF b, text
  <2>4. WorldOK(b)
    BY <2>2, <2>3, AgendaReplaced
  <2> QED BY <2>1, <2>4, EnqueuedHonest
<1> QED BY <1>1, <1>2, DroppedHonest

\* A decision without a text lets nobody wait.
LEMMA DecisionHonest ==
  ASSUME NEW a \in AgendaRecord, NEW busy \in BOOLEAN,
         NextAction(a, busy).text = {}, NextAction(a, busy).agenda.st = "generating"
  PROVE  a.st = "generating"
<1> DEFINE b == [a EXCEPT !.st = IF @ = "regen" THEN "waiting" ELSE @]
<1>1. b.st = (IF a.st = "regen" THEN "waiting" ELSE a.st)
  BY DEF AgendaRecord
<1>2. Closing(b).text # {} /\ Open(b).text # {} /\ ContinueOrClose(b).text # {}
  BY DEF Closing, Open, ContinueOrClose, Deciding
<1>3. NextAction(a, busy) \in {Deciding(a, {}), Closing(b), Deciding(b, {}), Open(b), ContinueOrClose(b)}
  BY DEF NextAction
<1> HIDE DEF b
<1>4. CASE NextAction(a, busy) = Deciding(a, {})
  BY <1>4 DEF Deciding
<1>5. CASE NextAction(a, busy) = Deciding(b, {})
  BY <1>1, <1>5 DEF Deciding
<1> QED BY <1>2, <1>3, <1>4, <1>5

LEMMA DecidedHonest ==
  ASSUME NEW o, WorldOK(o), NEW due \in BOOLEAN
  PROVE  Honest(Decided(o, due), o)
<1> DEFINE a == IF o.agenda.st = "paused" THEN AutoResume(o.agenda, due) ELSE o.agenda
           d == NextAction(a, IsProcessing \/ IsSpeaking)
           b == [o EXCEPT !.agenda = d.agenda]
           text == CHOOSE x \in d.text : TRUE
           off == [b EXCEPT !.agenda.st = "off"]
<1>1. a \in AgendaRecord /\ (a.st = "generating" => o.agenda.st = "generating")
  <2>1. o.agenda \in AgendaRecord
    BY DEF WorldOK
  <2>2. AutoResume(o.agenda, due).st \in {"hard", "idle", o.agenda.st}
    BY <2>1 DEF AutoResume, AgendaRecord
  <2> QED BY <2>1, <2>2, AutoResumeType
<1>2. IsDecision(d)
  BY <1>1, NextActionType
<1>3. d.text = {} /\ d.agenda.st = "generating" => o.agenda.st = "generating"
  BY <1>1, DecisionHonest
<1>4. \/ Decided(o, due) = [o EXCEPT !.agenda = a]
      \/ d.text # {} /\ Decided(o, due) = Enqueued(b, text)
      \/ Decided(o, due) = off
      \/ d.text = {} /\ Decided(o, due) = b
  BY DEF Decided
<1> HIDE DEF a, d
<1>5. /\ [o EXCEPT !.agenda = a].agenda = a /\ [o EXCEPT !.agenda = a].items = o.items
      /\ WorldOK(b) /\ b.agenda = d.agenda /\ b.items = o.items
  BY <1>1, <1>2, AgendaReplaced DEF IsDecision
<1>6. Honest([o EXCEPT !.agenda = a], o) /\ (d.text = {} => Honest(b, o))
  BY <1>1, <1>3, <1>5 DEF Honest
<1>7. d.text # {} => text \in AgendaTexts
  BY <1>2 DEF IsDecision
<1> HIDE DEF text, b
<1>8. d.text # {} => Honest(Enqueued(b, text), o)
  BY <1>5, <1>7, EnqueuedHonest
<1>9. Honest(off, o)
  <2>1. off.agenda.st = "off"
    BY <1>5 DEF WorldOK, AgendaRecord
  <2> QED BY <2>1 DEF Honest
<1> HIDE DEF off
<1> QED BY <1>4, <1>6, <1>8, <1>9

LEMMA TickedHonest ==
  ASSUME NEW o, WorldOK(o), NEW due \in BOOLEAN
  PROVE  Honest(Ticked(o, due), o)
<1>1. Ticked(o, due) \in {o, Dropped(o), Consumed(o), Decided(Consumed(o), due)}
  BY DEF Ticked
<1>2. WorldOK(Consumed(o)) /\ Honest(Consumed(o), o)
  BY ConsumedOK, ConsumedHonest
<1>3. Honest(Decided(Consumed(o), due), o)
  BY <1>2, DecidedHonest, HonestTrans
<1> QED BY <1>1, <1>2, <1>3, DroppedHonest

\* A step of the driver from its world to o.
LEMMA DriverSpares ==
  ASSUME IInv, NEW o, WorldOK(o), Becomes(o), Honest(o, World),
         UNCHANGED <<locked, ending, hand, job, playing>>
  PROVE  Spared
<1>1. agenda' = o.agenda /\ items' = o.items /\ items' \in Seq(AgendaTexts)
  BY DEF Becomes, WorldOK
<1>2. CASE items' # <<>>
  BY <1>1, <1>2, QueuedComes DEF Spared, Stranded, Coming
<1>3. CASE agenda'.st # "generating"
  BY <1>3 DEF Spared, Stranded
<1>4. CASE agenda.st = "generating" /\ items' = items
  <2>1. Coming => Coming'
    BY <1>4 DEF Coming, AgendaTurns
  <2> QED BY <1>4, <2>1, NothingLost
<1> QED BY <1>1, <1>2, <1>3, <1>4 DEF Honest, World

-----------------------------------------------------------------------------
(* The steps, one by one. *)

LEMMA TickSpares ==
  ASSUME IInv, NEW due \in BOOLEAN, NEW aged \in BOOLEAN, Tick(due, aged)
  PROVE  Spared
<1>1. WorldOK(World) /\ WorldOK(Skipped(World)) /\ Honest(Skipped(World), World)
  BY WorldIsOK, SkippedOK, DroppedHonest DEF IInv
<1>2. /\ WorldOK(Ticked(World, due)) /\ Honest(Ticked(World, due), World)
      /\ WorldOK(Ticked(Skipped(World), due)) /\ Honest(Ticked(Skipped(World), due), World)
  BY <1>1, TickedOK, TickedHonest, HonestTrans
<1>3. UNCHANGED <<ending, hand, job, playing>>
  BY DEF Tick, speech, router, token
<1>4. CASE locked' = "return"
  BY <1>4 DEF Spared, Stranded
<1>5. CASE UNCHANGED locked /\ Becomes(Ticked(World, due))
  BY <1>2, <1>3, <1>5, DriverSpares
<1>6. CASE UNCHANGED locked /\ Becomes(Ticked(Skipped(World), due))
  BY <1>2, <1>3, <1>6, DriverSpares
<1> QED BY <1>4, <1>5, <1>6 DEF Tick

LEMMA FinishReturnSpares ==
  ASSUME IInv, FinishReturn
  PROVE  Spared
<1> DEFINE c == IF cache.frozen = {} THEN cache ELSE Restored(cache)
           o == [World EXCEPT !.cache = c]
<1>1. PICK x \in mirror : Becomes(Enqueued(o, x))
  BY DEF FinishReturn, World
<1>2. x \in AgendaTexts
  BY DEF IInv, WorldInv
<1>3. CacheOK(cache) /\ cache \in CacheRecord /\ cache.frozen \in SUBSET Draft
  BY PartsTypes DEF IInv, WorldInv, CacheOK
<1>4. CacheOK(c)
  BY <1>3, RestoredOK
<1> HIDE DEF c
<1>5. WorldOK(o)
  BY <1>4, WorldIsOK DEF IInv, WorldOK, World, CacheOK
<1> HIDE DEF o
<1>6. WorldOK(Enqueued(o, x)) /\ Enqueued(o, x).items # <<>>
  BY <1>2, <1>5, EnqueuedOK, EnqueuedHonest
<1>7. items' \in Seq(AgendaTexts) /\ items' # <<>>
  BY <1>1, <1>6 DEF Becomes, WorldOK
<1> QED BY <1>7, QueuedComes DEF Spared, Stranded, Coming

\* What the controller waits for is spoken.
LEMMA SpeechStartsSpares ==
  ASSUME IInv, SpeechStarts
  PROVE  Spared
<1> DEFINE own == agenda.st \in {"speaking", "generating", "closing"}
           o == [World EXCEPT !.agenda = IF own THEN Accepted(@) ELSE @]
<1>1. agenda' = o.agenda
  BY DEF SpeechStarts
<1>2. o.agenda = IF own THEN Accepted(agenda) ELSE agenda
  BY DEF World
<1>3. agenda \in AgendaRecord
  BY DEF IInv, WorldInv
<1>4. own => Accepted(agenda).st = "speaking"
  BY <1>3 DEF Accepted, AgendaRecord
<1>5. agenda'.st # "generating"
  BY <1>1, <1>2, <1>4
<1> QED BY <1>5 DEF Spared, Stranded

LEMMA SpeechEndedSpares ==
  ASSUME IInv, SpeechEnded
  PROVE  Spared
<1> DEFINE o == [World EXCEPT !.agenda = SpeechComplete(@)]
<1>1. agenda \in AgendaRecord
  BY DEF IInv, WorldInv
<1>2. CASE agenda.st \in {"speaking", "generating"} /\ Becomes(Consumed(o))
  <2>1. SpeechComplete(agenda) \in AgendaRecord
    BY <1>1, OutcomeTypes
  <2>2. SpeechComplete(agenda).st # "generating"
    <3>1. TopicDone(agenda).st # "generating"
      BY <1>1 DEF TopicDone, Settled, AgendaRecord
    <3>2. [Debit(agenda) EXCEPT !.st = "waiting"].st = "waiting"
      BY <1>1, DebitType DEF AgendaRecord
    <3> QED BY <1>2, <3>1, <3>2 DEF SpeechComplete
  <2>3. o = [World EXCEPT !.agenda = SpeechComplete(agenda)]
    BY DEF World
  <2> HIDE DEF o
  <2>4. WorldOK(o) /\ o.agenda.st # "generating"
    <3>1. WorldOK(o) /\ o.agenda = SpeechComplete(agenda)
      BY <2>1, <2>3, WorldIsOK, AgendaReplaced DEF IInv
    <3> QED BY <2>2, <3>1
  <2>5. WorldOK(Consumed(o)) /\ Honest(Consumed(o), o)
    BY <2>4, ConsumedOK, ConsumedHonest
  <2>6. /\ agenda' = Consumed(o).agenda /\ items' = Consumed(o).items
        /\ items' \in Seq(AgendaTexts)
    BY <1>2, <2>5 DEF Becomes, WorldOK
  <2>7. agenda'.st = "generating" => Coming'
    BY <2>4, <2>5, <2>6, QueuedComes DEF Honest
  <2> QED BY <2>7 DEF Spared, Stranded, Coming
<1>3. CASE agenda.st \notin {"speaking", "generating"} /\ UNCHANGED agenda
  BY <1>3 DEF Spared, Stranded
<1> QED BY <1>2, <1>3 DEF SpeechEnded

LEMMA SpeechSpares ==
  ASSUME IInv, SpeechStep
  PROVE  Spared
<1>1. CASE DiscardJob
  <2>1. cancelled
    BY <1>1 DEF DiscardJob, Heard
  <2> QED BY <2>1 DEF Spared
<1>2. CASE SpeechFinishes
  BY <1>2 DEF SpeechFinishes, Spared, Stranded
<1>3. CASE PickJob
  <2>1. UNCHANGED <<agenda, locked, items, hand, ending>> /\ playing = {}
    BY <1>3 DEF PickJob, driver, queue
  <2>2. job \in SUBSET (job' \cup playing')
    BY <1>3 DEF PickJob
  <2>3. Coming => Coming'
    BY <2>1, <2>2 DEF Coming, AgendaTurns
  <2> QED BY <2>1, <2>3, NothingLost
<1>4. CASE CheckToken \/ ArmVoice
  <2>1. UNCHANGED <<agenda, locked, items, hand, job>>
    BY <1>4 DEF CheckToken, ArmVoice, driver, queue
  <2>2. ending' = TRUE \/ UNCHANGED <<playing, ending>>
    BY <1>4 DEF CheckToken, ArmVoice
  <2>3. UNCHANGED playing => (Coming => Coming')
    BY <2>1 DEF Coming, AgendaTurns
  <2>4. CASE ending' = TRUE
    BY <2>4 DEF Spared, Stranded
  <2> QED BY <2>1, <2>2, <2>3, <2>4, NothingLost
<1> QED BY <1>1, <1>2, <1>3, <1>4, SpeechStartsSpares, SpeechEndedSpares DEF SpeechStep

\* An emergency stop strands nobody whose speech is not cancelled.
LEMMA StopSpares ==
  ASSUME IInv, StopStep
  PROVE  Spared
<1>1. cancelled
  BY DEF StopStep, CutSpeech, DropItems, DropDraft, DropStash, IInv, SpeechInv
<1> QED BY <1>1 DEF Spared

LEMMA SoftStopSpares ==
  ASSUME IInv, SoftStopSession
  PROVE  Spared
<1> DEFINE d == SoftStop(agenda)
           o == [World EXCEPT !.agenda = d.agenda]
           text == CHOOSE x \in d.text : TRUE
           e == [Enqueued(o, text) EXCEPT !.mirror = mirror]
<1>1. Becomes(IF d.text = {} THEN o ELSE e)
  BY DEF SoftStopSession
<1>2. IsDecision(d) /\ agenda \in AgendaRecord
  BY SoftStopType DEF IInv, WorldInv
<1>3. d.text = {} => d.agenda.st \in {"off", agenda.st}
  <2> DEFINE b == [agenda EXCEPT !.stop = TRUE]
             off == [b EXCEPT !.st = "off"]
  <2>1. d \in {Deciding(off, {}), Closing(b), Deciding(b, {})}
    BY DEF SoftStop
  <2>2. b.st = agenda.st /\ off.st = "off"
    BY <1>2 DEF AgendaRecord
  <2>3. Closing(b).text # {}
    BY DEF Closing, Deciding
  <2> HIDE DEF b, d, off
  <2>4. d = Deciding(off, {}) => d.agenda.st = "off"
    BY <2>2 DEF Deciding
  <2>5. d = Deciding(b, {}) => d.agenda.st = agenda.st
    BY <2>2 DEF Deciding
  <2> QED BY <2>1, <2>3, <2>4, <2>5
<1> HIDE DEF d
<1>4. WorldOK(o) /\ o.agenda = d.agenda /\ o.items = items
  <2>1. WorldOK(World) /\ World.items = items
    BY WorldIsOK DEF IInv, World
  <2> QED BY <1>2, <2>1, AgendaReplaced DEF IsDecision
<1>5. d.text # {} => text \in AgendaTexts
  BY <1>2 DEF IsDecision
<1> HIDE DEF o, text
<1>6. UNCHANGED <<locked, ending, hand, job, playing>>
  BY DEF SoftStopSession, speech, router, token
<1>7. CASE d.text = {}
  <2>1. agenda' = o.agenda /\ items' = o.items
    BY <1>1, <1>7 DEF Becomes
  <2>2. agenda'.st = "generating" => agenda.st = "generating"
    BY <1>3, <1>4, <1>7, <2>1
  <2>3. Coming => Coming'
    BY <1>4, <1>6, <2>1 DEF Coming, AgendaTurns
  <2> QED BY <1>6, <2>2, <2>3, NothingLost
<1>8. CASE d.text # {}
  <2> DEFINE n == Enqueued(o, text)
  <2>1. WorldOK(n) /\ n.items # <<>>
    BY <1>4, <1>5, <1>8, EnqueuedOK, EnqueuedHonest
  <2> HIDE DEF n
  <2>2. [n EXCEPT !.mirror = mirror].items = n.items
    BY <2>1 DEF WorldOK
  <2>3. items' = n.items
    BY <1>1, <1>8, <2>2 DEF Becomes, n
  <2>4. Coming'
    BY <2>1, <2>3, QueuedComes DEF WorldOK
  <2> QED BY <2>4 DEF Spared, Stranded, Coming
<1> QED BY <1>7, <1>8

LEMMA RoutesSpare ==
  ASSUME IInv, Enable \/ EmergencyStopSession \/ Ask \/ SetProfile
  PROVE  Spared
<1>0. agenda \in AgendaRecord
  BY DEF IInv, WorldInv
<1>1. CASE Enable
  <2>1. Enabled(agenda).st \in {"idle", agenda.st}
    BY <1>0 DEF Enabled, AgendaRecord
  <2>2. agenda'.st = "generating" => agenda.st = "generating"
    BY <1>1, <2>1 DEF Enable
  <2>3. UNCHANGED <<locked, ending>>
    BY <1>1 DEF Enable, driver, router
  <2>4. Coming => Coming'
    BY <1>1 DEF Enable, queue, router, Coming, AgendaTurns
  <2> QED BY <2>2, <2>3, <2>4, NothingLost
<1>2. CASE EmergencyStopSession
  <2>1. Succeeded(agenda) \in AgendaRecord
    BY <1>0, SettledType
  <2>2. EmergencyStopped(agenda).st = "off"
    BY <2>1 DEF EmergencyStopped, AgendaRecord
  <2> QED BY <1>2, <2>2 DEF EmergencyStopSession, Spared, Stranded
<1>3. CASE Ask
  <2>1. UNCHANGED <<agenda, locked, ending, items, job, playing>>
    BY <1>3 DEF Ask, driver, speech, router, token
  <2>2. hand.st = "idle" \/ UNCHANGED hand
    BY <1>3 DEF Ask
  <2>3. Coming => Coming'
    BY <2>1, <2>2 DEF Coming, AgendaTurns
  <2> QED BY <2>1, <2>3, NothingLost
<1>4. CASE SetProfile
  <2>1. UNCHANGED <<agenda, locked, ending, items, job, playing>> /\ hand.st = "idle"
    BY <1>4 DEF SetProfile, driver, queue, speech, router, token
  <2>2. Coming => Coming'
    BY <2>1 DEF Coming, AgendaTurns
  <2> QED BY <2>1, <2>2, NothingLost
<1> QED BY <1>1, <1>2, <1>3, <1>4

\* The turn in hand is of this text.
LEMMA TurnComes ==
  ASSUME NEW x, ~Asked(x), hand'.text = x, hand'.st \in {"waiting", "ready", "generate"}
  PROVE  Coming'
BY DEF Coming, AgendaTurns

LEMMA TakenUp ==
  ASSUME NEW x, NEW D, NEW c, NEW qs, NEW r,
         \/ Speakable(x, D, c)
         \/ Generates(x, c, qs)
         \/ hand' = [AtRest EXCEPT !.st = "waiting", !.text = x]
  PROVE  hand'.text = x /\ hand'.st \in {"waiting", "ready", "generate"}
BY DEF Speakable, Generates, AtRest

LEMMA PopSpares ==
  ASSUME IInv, Pop
  PROVE  Spared
<1>1. /\ hand.st = "idle"
      /\ UNCHANGED <<agenda, locked, job, playing, ending>>
  BY DEF Pop, driver, speech, router, token
<1>2. PICK x \in HeadOf(asks, items) :
        /\ items' = IF Asked(x) THEN items ELSE Tail(items)
        /\ hand'.text = x /\ hand'.st \in {"waiting", "ready", "generate"}
  BY TakenUp DEF Pop
<1>3. CASE Asked(x)
  <2>1. Coming => Coming'
    BY <1>1, <1>2, <1>3 DEF Coming, AgendaTurns
  <2> QED BY <1>1, <2>1, NothingLost
<1>4. CASE ~Asked(x)
  BY <1>2, <1>4, TurnComes DEF Spared, Stranded, Coming
<1> QED BY <1>3, <1>4

LEMMA EndWaitSpares ==
  ASSUME IInv, EndWait
  PROVE  Spared
<1>1. /\ hand.st = "waiting"
      /\ UNCHANGED <<agenda, locked, items, job, playing, ending>>
  BY DEF EndWait, driver, speech, router, token
<1>2. hand'.text = hand.text /\ hand'.st \in {"waiting", "ready", "generate"}
  BY TakenUp DEF EndWait
<1>3. Coming => Coming'
  BY <1>1, <1>2 DEF Coming, AgendaTurns
<1> QED BY <1>1, <1>3, NothingLost

\* A turn that is submitted is with the router.
LEMMA SubmittedSpares ==
  ASSUME IInv, SpeakDraft \/ Generated
  PROVE  Spared
<1>1. agenda' \in {agenda, Succeeded(agenda)}
  BY DEF SpeakDraft, Generated
<1>2. Succeeded(agenda).st = agenda.st
  BY DEF IInv, WorldInv, Succeeded, AgendaRecord
<1>3. /\ job' = job \cup {hand.text}
      /\ UNCHANGED <<locked, items, playing, ending>>
  BY DEF SpeakDraft, Generated, Submit, driver, queue
<1>4. Coming => Coming'
  BY <1>3 DEF Coming, AgendaTurns
<1> QED BY <1>1, <1>2, <1>3, <1>4, NothingLost

\* A controller whose turn failed does not wait for it any more.
LEMMA RefusedWaits ==
  ASSUME NEW a \in AgendaRecord
  PROVE  AcceptEmpty(a).st # "generating" /\ AcceptRejected(a).st # "generating"
<1>1. ASSUME NEW x \in AgendaRecord
      PROVE  Settled(x).st # "generating" /\ Succeeded(x).st = x.st
             /\ TopicDone(x).st # "generating"
  BY <1>1 DEF Settled, TopicDone, Succeeded, AgendaRecord
<1>2. ASSUME NEW x \in AgendaRecord, NEW h \in BOOLEAN
      PROVE  Failed(x, h).st # "generating"
  <2> DEFINE y == [x EXCEPT !.fails = @ + 1, !.sick = IF h THEN @ + 1 ELSE 0]
             b == Debit(y)
  <2>1. y \in AgendaRecord
    <3>1. x.fails + 1 \in Nat /\ x.sick + 1 \in Nat
      BY <1>2 DEF AgendaRecord
    <3>2. \A n \in Nat : [x EXCEPT !.fails = x.fails + 1, !.sick = n] \in AgendaRecord
      BY <1>2, <3>1 DEF AgendaRecord
    <3>3. y = [x EXCEPT !.fails = x.fails + 1, !.sick = IF h THEN x.sick + 1 ELSE 0]
      BY <1>2 DEF AgendaRecord
    <3> QED BY <3>1, <3>2, <3>3
  <2>2. b \in AgendaRecord
    BY <2>1, DebitType
  <2> HIDE DEF y
  <2>3. Failed(x, h) \in {Succeeded(TopicDone(b)), [b EXCEPT !.turns = TurnMax, !.st = "waiting"],
                          [b EXCEPT !.st = "paused"], Succeeded(Settled(b)), [b EXCEPT !.st = "regen"]}
    BY DEF Failed, y
  <2> HIDE DEF b
  <2>4. TopicDone(b) \in AgendaRecord /\ Settled(b) \in AgendaRecord
    BY <2>2, SettledType
  <2>5. /\ Succeeded(TopicDone(b)).st # "generating" /\ Succeeded(Settled(b)).st # "generating"
    BY <1>1, <2>2, <2>4
  <2>6. /\ [b EXCEPT !.turns = TurnMax, !.st = "waiting"].st = "waiting"
        /\ [b EXCEPT !.st = "paused"].st = "paused" /\ [b EXCEPT !.st = "regen"].st = "regen"
    BY <2>2 DEF AgendaRecord
  <2> QED BY <2>3, <2>5, <2>6
<1>3. ASSUME NEW x \in AgendaRecord
      PROVE  AcceptEmpty(x).st # "generating"
  BY <1>1, <1>2, <1>3 DEF AcceptEmpty
<1>4. Failed(a, FALSE) \in AgendaRecord
  BY FailedType
<1> QED BY <1>3, <1>4 DEF AcceptRejected

LEMMA GenerationFailedSpares ==
  ASSUME IInv, GenerationFailed
  PROVE  Spared
<1>1. /\ UNCHANGED <<locked, items, job, playing, ending>>
      /\ agenda \in AgendaRecord
  BY DEF GenerationFailed, driver, speech, router, token, IInv, WorldInv
<1>2. CASE Asked(hand.text)
  <2>1. UNCHANGED agenda
    BY <1>2 DEF GenerationFailed
  <2>2. Coming => Coming'
    BY <1>1, <1>2 DEF Coming, AgendaTurns
  <2> QED BY <1>1, <2>1, <2>2, NothingLost
<1>3. CASE ~Asked(hand.text)
  <2>1. agenda' \in {AcceptEmpty(agenda), AcceptRejected(agenda)}
    BY <1>3 DEF GenerationFailed
  <2>2. agenda'.st # "generating"
    BY <1>1, <2>1, RefusedWaits
  <2> QED BY <2>2 DEF Spared, Stranded
<1> QED BY <1>2, <1>3

LEMMA QuietSteps ==
  ASSUME IInv, WorkerStep \/ InvalidateStash \/ UNCHANGED vars
  PROVE  Spared
<1>1. UNCHANGED <<agenda, locked, items, job, playing, ending>>
  BY DEF WorkerStep, WorkerEnds, WorkerReleases, ConnectorEnds, LateSpawn, InvalidateStash, vars,
     driver, queue, speech, router, token
<1>2. hand.st = "settle" \/ UNCHANGED hand
  BY DEF WorkerStep, WorkerEnds, WorkerReleases, ConnectorEnds, LateSpawn, InvalidateStash, vars
<1>3. Coming => Coming'
  BY <1>1, <1>2 DEF Coming, AgendaTurns
<1> QED BY <1>1, <1>3, NothingLost

LEMMA NextSpares == IInv /\ [Next]_vars => Spared
<1> SUFFICES ASSUME IInv, [Next]_vars PROVE Spared
  OBVIOUS
<1>1. CASE \E due, aged \in BOOLEAN : Tick(due, aged)
  BY <1>1, TickSpares
<1>2. CASE FinishReturn \/ Enable \/ SoftStopSession \/ EmergencyStopSession \/ Ask \/ SetProfile
  BY <1>2, FinishReturnSpares, SoftStopSpares, RoutesSpare
<1>3. CASE EngineStep
  BY <1>3, PopSpares, EndWaitSpares, SubmittedSpares, GenerationFailedSpares, QuietSteps DEF EngineStep
<1>4. CASE SpeechStep
  BY <1>4, SpeechSpares
<1>5. CASE WorkerStep \/ UNCHANGED vars
  BY <1>5, QuietSteps
<1>6. CASE StopStep
  BY <1>6, StopSpares
<1> QED BY <1>1, <1>2, <1>3, <1>4, <1>5, <1>6 DEF Next

\* Whatever draft is evicted, stash dropped, generation refused or question asked in
\* between, the controller never waits for a turn that nobody has: a step that loses one
\* moves the controller on, unless its speech is cancelled.
THEOREM WaitsForSomething == Spec => StrandedOnlyByStop
<1>1. IInv /\ [Next]_vars => [Stranded' => Stranded \/ cancelled]_vars
  BY NextSpares DEF Spared
<1> QED BY <1>1, AlwaysIInv, PTL DEF Spec, StrandedOnlyByStop
=============================================================================
