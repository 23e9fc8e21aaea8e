----------------------------- MODULE EngineLoop -----------------------------
(***************************************************************************)
(* The engine thread (MotorVocalIA.run, core/llm_engine.py) between the    *)
(* two queues it serves: the command queue the API dispatches to and the   *)
(* priority queue.  HTTP threads dispatch turns and, when the engine is    *)
(* busy, move them to the priority queue themselves; viewers and the       *)
(* agenda enqueue from threads of their own; speech is the router, seen    *)
(* only through _speech_active and the sentinel it posts at a boundary.    *)
(***************************************************************************)
EXTENDS Dispatcher

CONSTANTS Clients,   \* HTTP threads
          Scenes     \* who asks and what else may happen: a set of records with
                     \* the source of each turn, armed, and how many control
                     \* verbs are posted and notices spoken

ASSUME EngineAssumption ==
  /\ Clients \subseteq Nat \ {0}
  /\ Scenes \subseteq [source : [Turns -> Sources \cup {"none"}],
                        armed : BOOLEAN, verbs : Nat, notices : Nat]

Engine == 0
Nobody == -1
Threads == Clients \cup {Engine}

VARIABLES
  armed,        \* _speech_interrupt_enabled and _speech_router_enabled
  speech,       \* _speech_active
  wake,         \* the router still owes the sentinel of a boundary
  processing,   \* _processing
  deferred,     \* how many control verbs are parked
  pc, next,     \* the engine thread and where its cycle continues
  busy,         \* its snapshot of _speech_active
  hand,         \* turns it took: the head, or the accumulated ones
  bundle,       \* followers it took with an owner question
  dpc, dhand, lock,   \* the drains: pc, turn in hand, bound, _direct_drain_lock
  drained,      \* history: turns moved by a drain
  verbs, notices            \* how many verbs and notices are still to come

engine == <<pc, next, busy, hand, bundle, processing>>
drains == <<dpc, dhand, lock, drained>>
outside == <<speech, wake, notices>>
control == <<deferred, verbs>>
vars == <<sched, dispatcher, armed, engine, drains, outside, control>>

Init ==
  /\ InitSched /\ InitDispatcher
  /\ \E s \in Scenes : /\ source = s.source /\ armed = s.armed
                        /\ verbs = s.verbs /\ notices = s.notices
  /\ speech = FALSE /\ wake = FALSE
  /\ processing = FALSE /\ deferred = 0
  /\ pc = "get" /\ next = "get" /\ busy = FALSE /\ hand = {} /\ bundle = {}
  /\ dpc = [th \in Threads |-> "off"] /\ dhand = [th \in Threads |-> {}]
  /\ lock = Nobody /\ drained = {}

-----------------------------------------------------------------------------
(* Other threads. *)

\* post_chat_turn (client c with its own key) or a PTT flush dispatches a turn;
\* accepted or replayed, the thread then looks whether the engine is busy.
Dispatch(c) ==
  /\ dpc[c] = "off"
  /\ \E k \in {c, NoKey}, old \in Expiries :
       Replay(k, old) \/ \E t \in Turns : Accept(t, k, old)
  /\ dpc' = [dpc EXCEPT ![c] = "ack"]
  /\ UNCHANGED <<armed, engine, dhand, lock, drained, outside, control>>

\* Neither is_processing nor is_speaking: the turn is left to the engine.
LeaveToEngine(c) ==
  /\ dpc[c] = "ack" /\ ~processing /\ ~speech
  /\ dpc' = [dpc EXCEPT ![c] = "off"]
  /\ UNCHANGED <<sched, dispatcher, armed, engine, dhand, lock, drained, outside,
                 control>>

PostVerb ==
  /\ verbs > 0
  /\ AcceptVerb
  /\ verbs' = verbs - 1
  /\ UNCHANGED <<armed, engine, drains, outside, deferred>>

ViewersAndAgenda ==
  /\ \/ \E t \in Turns : EnqueueChat(t) \/ ReplacePending(t)
     \/ DropPending("chat")
     \/ DropPending("agenda")
  /\ UNCHANGED <<dispatcher, armed, engine, drains, outside, control>>

\* A thread other than the engine's makes the router speak (a cloud notice).
NoticeSpeaks ==
  /\ notices > 0
  /\ speech' = TRUE /\ notices' = notices - 1
  /\ UNCHANGED <<sched, dispatcher, armed, engine, drains, wake, control>>

\* The router runs out of work, and posts its sentinel some time later.
SpeechEnds ==
  /\ speech
  /\ speech' = FALSE /\ wake' = TRUE
  /\ UNCHANGED <<sched, dispatcher, armed, engine, drains, notices, control>>

PostBoundary ==
  /\ wake
  /\ wake' = FALSE
  /\ cq' = Append(cq, Boundary)
  /\ UNCHANGED <<sched, key, cache, armed, engine, drains, speech,
                 notices, control>>

-----------------------------------------------------------------------------
(* _drain_pending_direct_into_priority_queue, on the engine's thread or an   *)
(* HTTP thread's: pop and enqueue are two critical sections.                 *)

\* Mutant: the drain takes no lock.
AlwaysFree == TRUE

\* _direct_drain_lock can be taken.
DrainLockFree == lock = Nobody

\* A busy engine: drain at arrival.  A boundary: drain on the engine's thread.
WantsDrain(th) ==
  /\ dpc[th] # "loop" /\ dpc[th] # "enq"
  /\ IF th = Engine THEN pc = "drain" ELSE dpc[th] = "ack" /\ (processing \/ speech)

BeginDrain(th) ==
  /\ WantsDrain(th) /\ DrainLockFree
  /\ lock' = th
  /\ dpc' = [dpc EXCEPT ![th] = "loop"]
  /\ UNCHANGED <<sched, dispatcher, armed, engine, dhand, drained, outside,
                 control>>

DrainPop(th) ==
  /\ dpc[th] = "loop" /\ cq # <<>> /\ Head(cq) \in Turns
  /\ dhand' = [dhand EXCEPT ![th] = {Head(cq)}]
  /\ drained' = drained \cup {Head(cq)}
  /\ cq' = Tail(cq)
  /\ dpc' = [dpc EXCEPT ![th] = "enq"]
  /\ UNCHANGED <<sched, key, cache, armed, engine, lock, outside, control>>

DrainEnqueue(th) ==
  /\ dpc[th] = "enq"
  /\ \E t \in dhand[th] : Enqueue(t, pq, fate)
  /\ dhand' = [dhand EXCEPT ![th] = {}]
  /\ dpc' = [dpc EXCEPT ![th] = "loop"]
  /\ UNCHANGED <<source, dispatcher, armed, engine, lock, drained, outside,
                 control>>

\* The front is no owner question, or the bound the scan set itself (the size it
\* found) is reached, which it may be anywhere.  The engine's cycle continues.
EndDrain(th) ==
  /\ dpc[th] = "loop"
  /\ lock' = Nobody
  /\ dpc' = [dpc EXCEPT ![th] = "off"]
  /\ pc' = IF th = Engine THEN next ELSE pc
  /\ UNCHANGED <<sched, dispatcher, armed, next, busy, hand, bundle, processing,
                 dhand, drained, outside, control>>

Drain(th) ==
  BeginDrain(th) \/ DrainPop(th) \/ DrainEnqueue(th) \/ EndDrain(th)

-----------------------------------------------------------------------------
(* The engine thread: run() and _dispatch_command. *)

Goto(l) == pc' = l

TakeCommand ==
  /\ pc = "get" /\ cq # <<>>
  /\ cq' = Tail(cq)
  /\ UNCHANGED <<key, cache, sched, armed, drains, outside, verbs>>

\* A turn: next it is looked at whether the engine can answer it at once.
GetTurn ==
  /\ TakeCommand
  /\ Head(cq) \in Turns
  /\ hand' = {Head(cq)} /\ Goto("turn")
  /\ UNCHANGED <<next, busy, bundle, processing, deferred>>

\* A control verb is parked while she speaks and applied otherwise.
GetVerb ==
  /\ TakeCommand
  /\ Head(cq) = Verb
  /\ deferred' = IF speech THEN deferred + 1 ELSE deferred
  /\ UNCHANGED engine

GetBoundary ==
  /\ TakeCommand
  /\ Head(cq) = Boundary
  /\ next' = "pq" /\ Goto("control")
  /\ UNCHANGED <<busy, hand, bundle, processing, deferred>>

\* The queue stayed empty for a second.
IdleTick ==
  /\ pc = "get" /\ cq = <<>>
  /\ next' = "tick" /\ Goto("control")
  /\ UNCHANGED <<sched, dispatcher, armed, drains, outside, control, busy, hand,
                 bundle, processing>>

\* process_context with the model away: the turn is dropped, with a notice.
DropUnready ==
  /\ pc = "turn"
  /\ fate' = Ended(fate, hand, "served")
  /\ hand' = {} /\ Goto("get")
  /\ UNCHANGED <<source, ts, pq, acc, accAt, dispatcher, armed, drains, outside,
                 control, next, busy, bundle, processing>>

\* Busy: the turn joins the priority queue, which is served at once if armed.
EnqueueBusy ==
  /\ pc = "turn" /\ (processing \/ speech)
  /\ \E t \in hand : Enqueue(t, pq, fate)
  /\ hand' = {} /\ Goto(IF armed THEN "pq" ELSE "get")
  /\ UNCHANGED <<source, dispatcher, armed, drains, outside, control, next,
                 busy, bundle, processing>>

AnswerNow ==
  /\ pc = "turn" /\ ~processing /\ ~speech
  /\ processing' = TRUE /\ next' = "pq" /\ Goto("generate")
  /\ UNCHANGED <<sched, dispatcher, armed, drains, outside, control, busy, hand,
                 bundle>>

-----------------------------------------------------------------------------
(* The engine thread: _process_priority_queue. *)

\* The gate reads _speech_active once, outside every lock.
ReadGate ==
  /\ pc = "pq"
  /\ busy' = (speech /\ armed) /\ next' = "get"
  /\ Goto(IF speech /\ ~armed THEN "get" ELSE "sweep")
  /\ UNCHANGED <<sched, dispatcher, armed, drains, outside, control, hand, bundle,
                 processing>>

\* Any of the turns that can expire may be older than their TTL.
Sweep ==
  /\ pc = "sweep"
  /\ \E old \in SUBSET Expirable :
       pq' = pq \ old /\ fate' = Ended(fate, old, "expired")
  /\ Goto("pop")
  /\ UNCHANGED <<source, ts, acc, accAt, dispatcher, armed, drains, outside,
                 control, next, busy, hand, bundle, processing>>

\* While she speaks only priority 0 may be popped.
Admits(t) == busy => Priority(source[t]) = 0

PopHead ==
  /\ pc = "pop"
  /\ \E t \in Turns :
       /\ IsHead(t) /\ Admits(t)
       /\ pq' = pq \ {t} /\ hand' = {t}
  /\ busy' = FALSE /\ Goto("popped")
  /\ UNCHANGED <<source, ts, acc, accAt, fate, dispatcher, armed, drains,
                 outside, control, next, bundle, processing>>

PopBlocked ==
  /\ pc = "pop"
  /\ busy /\ \A t \in Turns : IsHead(t) => ~Admits(t)
  /\ busy' = FALSE /\ Goto("get")
  /\ UNCHANGED <<sched, dispatcher, armed, drains, outside, control, next, hand,
                 bundle, processing>>

\* An empty queue flushes the accumulation buffer, less what is too old, into
\* one turn.
FlushAccumulation ==
  /\ pc = "pop" /\ pq = {} /\ ~busy
  /\ \E old \in SUBSET acc :
       /\ \A t \in old, u \in acc \ old : accAt[t] <= accAt[u]
       /\ fate' = Ended(fate, old, "expired")
       /\ hand' = acc \ old
       /\ processing' = (acc # old)
       /\ Goto(IF acc = old THEN "get" ELSE "generate")
  /\ acc' = {} /\ accAt' = [t \in Turns |-> 0] /\ next' = "get"
  /\ UNCHANGED <<source, ts, pq, dispatcher, armed, drains, outside,
                 control, busy, bundle>>

\* Without a draft, an owner question takes the owner questions queued behind
\* it; with one (or for another source) it goes alone.
TakeBundle ==
  /\ pc = "popped"
  /\ processing' = TRUE
  /\ \E S \in OwnerPrefixes :
       /\ S # {} => hand \subseteq Owners(Turns)
       /\ bundle' = S /\ pq' = pq \ S
  /\ next' = "pq" /\ Goto("generate")
  /\ UNCHANGED <<source, ts, acc, accAt, fate, dispatcher, armed, drains,
                 outside, control, busy, hand>>

-----------------------------------------------------------------------------
(* The engine thread: _ejecutar_inferencia and _complete_processing_cycle. *)

\* The turn and all it bundles are answered, and the answer is submitted.
Answer ==
  /\ pc = "generate"
  /\ fate' = Ended(fate, hand \cup bundle, "served")
  /\ hand' = {} /\ bundle' = {}
  /\ speech' = TRUE /\ Goto("control")
  /\ UNCHANGED <<source, ts, pq, acc, accAt, dispatcher, armed, drains, wake,
                 notices, control, next, busy, processing>>

\* Mutant: a failed bundle's followers are not given back.
RequeueNone == pq

\* _requeue_owner_bundle_followers: with their old timestamps, and no trim.
Requeued == pq \cup bundle

\* Nothing was generated (but a streamed prefix may have been spoken): what was
\* in hand is spent, the followers go back to the queue.
GenerationFails ==
  /\ pc = "generate"
  /\ fate' = Ended(fate, hand, "served")
  /\ pq' = Requeued
  /\ hand' = {} /\ bundle' = {}
  /\ \E aired \in BOOLEAN : speech' = (speech \/ aired)
  /\ Goto("control")
  /\ UNCHANGED <<source, ts, acc, accAt, dispatcher, armed, drains, wake,
                 notices, control, next, busy, processing>>

\* Mutant: one parked verb is taken without looking whether there is one.
ParkedPopped == deferred - 1

\* The parked verbs are applied first.
ParkedApplied == 0

\* Mutant: an idle tick does not look at the priority queue.
AfterControlIdle == IF next = "tick" THEN "get" ELSE "drain"

\* An idle tick goes on to the priority queue, a boundary to the direct drain.
AfterControl == IF next = "tick" THEN "pq" ELSE "drain"

\* The cycle is complete (or the queue stayed empty), then
\* _drain_control_commands: unless she speaks, the parked verbs and then the
\* verbs at the front of the command queue are applied.
DrainControl ==
  /\ pc = "control"
  /\ processing' = FALSE
  /\ IF speech
     THEN UNCHANGED <<cq, deferred>>
     ELSE /\ deferred' = ParkedApplied
          /\ \E k \in 0..Len(cq) :
               /\ \A i \in 1..k : cq[i] = Verb
               /\ k < Len(cq) => cq[k + 1] # Verb
               /\ cq' = SubSeq(cq, k + 1, Len(cq))
  /\ Goto(AfterControl)
  /\ UNCHANGED <<sched, key, cache, armed, drains, outside, verbs, next, busy,
                 hand, bundle>>

-----------------------------------------------------------------------------

EngineStep ==
  \/ GetTurn \/ GetVerb \/ GetBoundary \/ IdleTick
  \/ DropUnready \/ EnqueueBusy \/ AnswerNow
  \/ ReadGate \/ Sweep \/ PopHead \/ PopBlocked \/ FlushAccumulation \/ TakeBundle
  \/ Answer \/ GenerationFails
  \/ DrainControl

Next ==
  \/ \E c \in Clients : Dispatch(c) \/ LeaveToEngine(c)
  \/ \E th \in Threads : Drain(th)
  \/ PostVerb \/ ViewersAndAgenda \/ NoticeSpeaks \/ SpeechEnds \/ PostBoundary
  \/ EngineStep

Spec == Init /\ [][Next]_vars

\* The engine thread runs, a drain that has begun goes on, and speech ends.
\* Nothing obliges anyone to ask, a client to retry or drain, or the sentinel to
\* come: run()'s idle tick is the backstop.
FairSpec ==
  /\ Spec
  /\ WF_vars(EngineStep)
  /\ WF_vars(\E th \in Threads : Drain(th))
  /\ WF_vars(SpeechEnds)

-----------------------------------------------------------------------------

InQueue == {cq[i] : i \in 1..Len(cq)} \cap Turns
InDrains == UNION {dhand[th] : th \in Threads}

SchedOK ==
  /\ source \in [Turns -> Sources \cup {"none"}] /\ ts \in [Turns -> Nat]
  /\ pq \subseteq Turns /\ acc \subseteq Turns /\ accAt \in [Turns -> Nat]
  /\ fate \in [Turns -> Ends \cup {"new", "live"}]
DispatcherOK ==
  /\ cq \in Seq(Turns \cup {Verb, Boundary})
  /\ key \in [Turns -> Clients \cup {NoKey}] /\ cache \subseteq Turns
EngineOK ==
  /\ pc \in {"get", "turn", "pq", "sweep", "pop", "popped", "generate",
             "control", "drain"}
  /\ next \in {"get", "pq", "tick"} /\ busy \in BOOLEAN /\ processing \in BOOLEAN
  /\ hand \subseteq Turns /\ bundle \subseteq Turns
DrainsOK ==
  /\ dpc \in [Threads -> {"off", "ack", "loop", "enq"}]
  /\ dhand \in [Threads -> SUBSET Turns]
  /\ lock \in Threads \cup {Nobody} /\ drained \subseteq Turns
OutsideOK ==
  /\ armed \in BOOLEAN /\ speech \in BOOLEAN /\ wake \in BOOLEAN
  /\ notices \in Nat /\ deferred \in Nat /\ verbs \in Nat

TypeOK == SchedOK /\ DispatcherOK /\ EngineOK /\ DrainsOK /\ OutsideOK

\* A turn that was accepted and has not ended is in exactly one place, whichever
\* threads are moving it: no drain, trim, flush or failed bundle loses or doubles
\* a turn.  (llm_engine.py:1755: "a question can be neither lost nor
\* double-answered".)
EveryTurnOneHome ==
  /\ InQueue \cup pq \cup acc \cup hand \cup bundle \cup InDrains = Live
  /\ InQueue \cap (pq \cup acc \cup hand \cup bundle \cup InDrains) = {}
  /\ pq \cap (acc \cup hand \cup bundle \cup InDrains) = {}
  /\ acc \cap (hand \cup bundle \cup InDrains) = {}
  /\ hand \cap (bundle \cup InDrains) = {}
  /\ bundle \cap InDrains = {}
  /\ \A th, tg \in Threads : th # tg => dhand[th] \cap dhand[tg] = {}
  /\ \A i, j \in 1..Len(cq) : cq[i] = cq[j] /\ cq[i] \in Turns => i = j

\* The owner's question is never trimmed from a full queue, never dropped with
\* the viewers', and spoken questions never expire: it is answered, or spent by
\* a failed generation, or (typed) outlives its TTL.  (turn_scheduler.py:153.)
OwnersAreKept ==
  \A t \in Owners(Turns) :
    /\ t \notin acc /\ fate[t] # "discarded"
    /\ fate[t] = "expired" => source[t] = "direct"

\* Two owner questions a drain has moved are queued in the order they were asked,
\* whichever threads drained.  (llm_engine.py:843.)
DrainsKeepOrder ==
  \A t, u \in drained : t < u /\ ts[u] # 0 => ts[t] # 0 /\ ts[t] < ts[u]

\* Each turn ends once, and in a way its asker may be told of: none comes back from
\* a queue, a buffer, a failed bundle or a second answer after it has ended, and no
\* question of the owner's is dropped for another's.  (turn_scheduler.py:153.)
Ledger == INSTANCE TurnLedger
LedgerSpec == Ledger!Spec

\* Every turn accepted ends and every parked verb is applied: neither a stale
\* reading of _speech_active, nor a lost sentinel, nor a busy queue strands
\* anything.  (llm_engine.py:1860.)
NothingStrands == (Live # {} \/ deferred # 0) ~> (Live = {} /\ deferred = 0)
=============================================================================
