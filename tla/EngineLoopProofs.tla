-------------------------- MODULE EngineLoopProofs --------------------------
(***************************************************************************)
(* Proofs about EngineLoop for every number of turns, clients and bounds.  *)
(* That a turn is in exactly one place is inductive once it is known when  *)
(* the engine and a drain have turns in hand (HandsInv): each of them may  *)
(* only take one when its hands are empty.                                 *)
(***************************************************************************)
EXTENDS EngineLoop, TLAPS, FiniteSetTheorems, WellFoundedInduction

\* The engine's and the drains' hands, by where the threads are.
HandsInv ==
  /\ pc \in {"turn", "popped"} => \E t \in Turns : hand = {t}
  /\ pc \notin {"turn", "popped", "generate"} => hand = {}
  /\ pc # "generate" => bundle = {}
  /\ \A th \in Threads : dpc[th] = "enq" => \E t \in Turns : dhand[th] = {t}
  /\ \A th \in Threads : dpc[th] # "enq" => dhand[th] = {}

\* The engine's own drain is a step of its cycle, never of an idle tick's.
EngineDrains ==
  /\ dpc[Engine] \in {"loop", "enq"} => pc = "drain"
  /\ pc = "drain" => next # "tick"

\* Each place holds its own part of the turns L.
Placed(Q, P, A, H, B, D, L) ==
  /\ Q \cup P \cup A \cup H \cup B \cup D = L
  /\ Q \cap (P \cup A \cup H \cup B \cup D) = {} /\ P \cap (A \cup H \cup B \cup D) = {}
  /\ A \cap (H \cup B \cup D) = {} /\ H \cap (B \cup D) = {} /\ B \cap D = {}
DrainsApart == \A th, tg \in Threads : th # tg => dhand[th] \cap dhand[tg] = {}
QueuedOnce == \A i, j \in 1..Len(cq) : cq[i] = cq[j] /\ cq[i] \in Turns => i = j
Homes ==
  /\ DrainsApart /\ QueuedOnce
  /\ Placed(InQueue, pq, acc, hand, bundle, InDrains, Live)

-----------------------------------------------------------------------------
(* What the operators on the queue do. *)

USE SchedulerAssumption DEF Turns, Verb, Boundary, NoKey

\* The clock is read as a natural number.
LEMMA NowType == Now \in Nat \ {0}
<1>1. IsFiniteSet(Turns)
  BY FS_Interval
<1>2. {t \in Turns : ts[t] # 0} \in SUBSET Turns
  OBVIOUS
<1>3. Cardinality({t \in Turns : ts[t] # 0}) \in Nat
  BY <1>1, <1>2, FS_Subset, FS_CardinalityType
<1> QED
  BY <1>3 DEF Now

\* What is trimmed is never an owner question.
LEMMA TrimmedType ==
  ASSUME NEW S, NEW st
  PROVE  Trimmed(S, st) \subseteq S \ Owners(S)
BY DEF Trimmed, Owners

\* Turn t joins queue q: some that are not the owner's are trimmed, and some of
\* those accumulated are discarded.
Joins(t, q, f) ==
  \E trimmed \in SUBSET ((q \cup {t}) \ Owners(Turns)) :
    /\ pq' = (q \cup {t}) \ trimmed
    /\ \E lost \in SUBSET (acc \cup trimmed) :
         /\ acc' = (acc \cup trimmed) \ lost
         /\ fate' = Ended(f, lost, "discarded")

LEMMA EnqueueEffect ==
  ASSUME SchedOK, NEW t \in Turns, NEW q \in SUBSET Turns, NEW f, Enqueue(t, q, f)
  PROVE  /\ ts' = [ts EXCEPT ![t] = Now]
         /\ accAt' \in [Turns -> Nat]
         /\ Joins(t, q, f)
<1> DEFINE all == q \cup {t}
           trimmed == Trimmed(all, ts')
<1>1. ts' = [ts EXCEPT ![t] = Now]
  BY DEF Enqueue
<1>2. pq' = all \ trimmed /\ Accumulate(trimmed, acc, f, ts')
  BY DEF Enqueue
<1>3. trimmed \in SUBSET (all \ Owners(Turns))
  BY TrimmedType DEF Owners
<1> HIDE DEF trimmed
<1>4. accAt' \in [Turns -> Nat]
  BY <1>2, NowType DEF Accumulate, SchedOK
<1>5. \E lost \in SUBSET (acc \cup trimmed) :
        acc' = (acc \cup trimmed) \ lost /\ fate' = Ended(f, lost, "discarded")
  BY <1>2 DEF Accumulate
<1> QED
  BY <1>1, <1>2, <1>3, <1>4, <1>5 DEF Joins

\* An enqueue keeps the queue well typed, whatever has been queued before it.
LEMMA EnqueueTypes ==
  ASSUME SchedOK, NEW t \in Turns, NEW q \in SUBSET Turns,
         NEW f \in [Turns -> Ends \cup {"new", "live"}], Enqueue(t, q, f), source' = source
  PROVE  SchedOK'
<1>1. /\ ts' = [ts EXCEPT ![t] = Now]
      /\ accAt' \in [Turns -> Nat]
      /\ Joins(t, q, f)
  BY EnqueueEffect
<1>2. ts' \in [Turns -> Nat]
  BY <1>1, NowType DEF SchedOK
<1>3. pq' \subseteq Turns /\ acc' \subseteq Turns
  BY <1>1 DEF SchedOK, Joins
<1>4. fate' \in [Turns -> Ends \cup {"new", "live"}]
  BY <1>1 DEF Joins, Ended, Ends
<1> QED
  BY <1>1, <1>2, <1>3, <1>4 DEF SchedOK

-----------------------------------------------------------------------------
(* The types, part by part. *)

LEMMA SchedStep == TypeOK /\ [Next]_vars => SchedOK'
<1> SUFFICES ASSUME TypeOK, [Next]_vars PROVE SchedOK'
  OBVIOUS
<1> USE DEF TypeOK
<1>1. CASE UNCHANGED sched
  BY <1>1 DEF sched, SchedOK
<1>2. ASSUME NEW S, NEW how \in Ends, fate' = Ended(fate, S, how), pq' \subseteq pq,
             acc' \subseteq acc, accAt' = accAt \/ accAt' = [t \in Turns |-> 0],
             UNCHANGED <<source, ts>>
      PROVE  SchedOK'
  BY <1>2 DEF SchedOK, Ended, Ends
<1>3. ASSUME NEW c \in Clients, Dispatch(c) PROVE SchedOK'
  <2>1. ASSUME NEW t \in Turns, NEW k, NEW old, Accept(t, k, old) PROVE SchedOK'
    BY <2>1 DEF Accept, SchedOK
  <2> QED BY <1>1, <1>3, <2>1 DEF Dispatch, Replay
<1>4. CASE ViewersAndAgenda
  <2>1. ASSUME NEW t \in Turns, EnqueueChat(t) PROVE SchedOK'
    <3>1. [fate EXCEPT ![t] = "live"] \in [Turns -> Ends \cup {"new", "live"}]
      BY DEF SchedOK
    <3> QED BY <2>1, <3>1, EnqueueTypes DEF EnqueueChat, SchedOK
  <2>2. ASSUME NEW t \in Turns, ReplacePending(t) PROVE SchedOK'
    <3> DEFINE old == {u \in pq : source[u] = "agenda"}
               f == [Ended(fate, old, "discarded") EXCEPT ![t] = "live"]
    <3>1. f \in [Turns -> Ends \cup {"new", "live"}] /\ pq \ old \in SUBSET Turns
      BY DEF SchedOK, Ended, Ends
    <3>2. Enqueue(t, pq \ old, f) /\ source' = source
      BY <2>2 DEF ReplacePending
    <3> HIDE DEF old, f
    <3> QED BY <3>1, <3>2, EnqueueTypes
  <2>3. ASSUME NEW src, DropPending(src) PROVE SchedOK'
    BY <1>2, <2>3 DEF DropPending, Ends
  <2> QED BY <1>4, <2>1, <2>2, <2>3 DEF ViewersAndAgenda
<1>5. ASSUME NEW th \in Threads, DrainEnqueue(th) PROVE SchedOK'
  BY <1>5, EnqueueTypes DEF DrainEnqueue, DrainsOK, SchedOK
<1>6. CASE EnqueueBusy
  BY <1>6, EnqueueTypes DEF EnqueueBusy, EngineOK, SchedOK
<1>7. CASE Sweep \/ FlushAccumulation \/ DropUnready \/ Answer
  BY <1>2, <1>7 DEF Sweep, FlushAccumulation, DropUnready, Answer, Ends
<1>8. CASE GenerationFails
  BY <1>8 DEF GenerationFails, Requeued, SchedOK, EngineOK, Ended, Ends
<1>9. CASE PopHead
  BY <1>9 DEF PopHead, SchedOK
<1>10. CASE TakeBundle
  BY <1>10 DEF TakeBundle, SchedOK
<1>11. CASE PostVerb \/ NoticeSpeaks \/ SpeechEnds \/ PostBoundary
  BY <1>1, <1>11 DEF PostVerb, AcceptVerb, NoticeSpeaks, SpeechEnds, PostBoundary
<1>12. ASSUME NEW c \in Clients, LeaveToEngine(c) PROVE SchedOK'
  BY <1>1, <1>12 DEF LeaveToEngine
<1>13. ASSUME NEW th \in Threads, BeginDrain(th) \/ DrainPop(th) \/ EndDrain(th) PROVE SchedOK'
  BY <1>1, <1>13 DEF BeginDrain, DrainPop, EndDrain
<1>14. CASE GetTurn \/ GetVerb \/ GetBoundary \/ IdleTick \/ AnswerNow \/ ReadGate \/ PopBlocked
            \/ DrainControl
  BY <1>1, <1>14
  DEF GetTurn, GetVerb, GetBoundary, TakeCommand, IdleTick, AnswerNow, ReadGate, PopBlocked,
      DrainControl
<1>15. CASE UNCHANGED vars
  BY <1>1, <1>15 DEF vars
<1> QED
  BY <1>3, <1>4, <1>5, <1>6, <1>7, <1>8, <1>9, <1>10, <1>11, <1>12, <1>13, <1>14, <1>15
  DEF Next, Drain, EngineStep

LEMMA DispatcherStep == TypeOK /\ [Next]_vars => DispatcherOK'
<1> SUFFICES ASSUME TypeOK, [Next]_vars PROVE DispatcherOK'
  OBVIOUS
<1> USE DEF TypeOK
<1>1. CASE UNCHANGED dispatcher
  BY <1>1 DEF dispatcher, DispatcherOK
<1>2. ASSUME cq # <<>>, cq' = Tail(cq), UNCHANGED <<key, cache>> PROVE DispatcherOK'
  BY <1>2 DEF DispatcherOK
<1>3. ASSUME NEW x \in Turns \cup {Verb, Boundary}, cq' = Append(cq, x), UNCHANGED <<key, cache>>
      PROVE  DispatcherOK'
  BY <1>3 DEF DispatcherOK
<1>4. ASSUME NEW c \in Clients, Dispatch(c) PROVE DispatcherOK'
  <2>1. ASSUME NEW old PROVE Forgotten(old) \in [Turns -> Clients \cup {NoKey}]
    BY DEF Forgotten, DispatcherOK
  <2>2. ASSUME NEW t \in Turns, NEW k \in {c, NoKey}, NEW old, Accept(t, k, old)
        PROVE  DispatcherOK'
    <3>1. cq' \in Seq(Turns \cup {Verb, Boundary})
      BY <2>2 DEF Accept, DispatcherOK
    <3>2. key' \in [Turns -> Clients \cup {NoKey}]
      BY <2>1, <2>2 DEF Accept
    <3>3. cache' \subseteq Turns
      BY <2>2 DEF Accept, Room, DispatcherOK
    <3> QED BY <3>1, <3>2, <3>3 DEF DispatcherOK
  <2>3. ASSUME NEW k, NEW old, Replay(k, old) PROVE DispatcherOK'
    BY <2>1, <2>3 DEF Replay, DispatcherOK
  <2> QED BY <1>4, <2>2, <2>3 DEF Dispatch
<1>5. CASE PostVerb
  BY <1>3, <1>5 DEF PostVerb, AcceptVerb
<1>6. CASE PostBoundary
  BY <1>3, <1>6 DEF PostBoundary
<1>7. ASSUME NEW th \in Threads, DrainPop(th) PROVE DispatcherOK'
  BY <1>2, <1>7 DEF DrainPop
<1>8. CASE GetTurn \/ GetVerb \/ GetBoundary
  BY <1>2, <1>8 DEF GetTurn, GetVerb, GetBoundary, TakeCommand
<1>9. CASE DrainControl
  <2>1. ASSUME NEW k \in 0..Len(cq) PROVE SubSeq(cq, k + 1, Len(cq)) \in Seq(Turns \cup {Verb, Boundary})
    BY DEF DispatcherOK
  <2>2. cq' \in Seq(Turns \cup {Verb, Boundary})
    BY <1>9, <2>1 DEF DrainControl, DispatcherOK
  <2> QED BY <1>9, <2>2 DEF DrainControl, DispatcherOK
<1>10. CASE UNCHANGED vars \/ ViewersAndAgenda \/ NoticeSpeaks \/ SpeechEnds
  BY <1>1, <1>10 DEF vars, ViewersAndAgenda, NoticeSpeaks, SpeechEnds
<1>11. ASSUME NEW c \in Clients, LeaveToEngine(c) PROVE DispatcherOK'
  BY <1>1, <1>11 DEF LeaveToEngine
<1>12. ASSUME NEW th \in Threads, BeginDrain(th) \/ DrainEnqueue(th) \/ EndDrain(th) PROVE DispatcherOK'
  BY <1>1, <1>12 DEF BeginDrain, DrainEnqueue, EndDrain
<1>13. CASE IdleTick \/ DropUnready \/ EnqueueBusy \/ AnswerNow \/ ReadGate \/ Sweep \/ PopHead
            \/ PopBlocked \/ FlushAccumulation \/ TakeBundle \/ Answer \/ GenerationFails
  BY <1>1, <1>13
  DEF IdleTick, DropUnready, EnqueueBusy, AnswerNow, ReadGate, Sweep, PopHead, PopBlocked,
      FlushAccumulation, TakeBundle, Answer, GenerationFails
<1> QED
  BY <1>4, <1>5, <1>6, <1>7, <1>8, <1>9, <1>10, <1>11, <1>12, <1>13 DEF Next, Drain, EngineStep

\* The engine's cycle goes on where it should after its own drain.
LEMMA EngineDrainsStep == TypeOK /\ EngineDrains /\ [Next]_vars => EngineDrains'
<1> SUFFICES ASSUME TypeOK, EngineDrains, [Next]_vars PROVE EngineDrains'
  OBVIOUS
<1> USE DEF TypeOK, EngineOK, DrainsOK, EngineDrains
<1>1. CASE UNCHANGED <<pc, next, dpc>>
  BY <1>1
<1>2. ASSUME pc # "drain", dpc' = dpc, pc' # "drain" PROVE EngineDrains'
  BY <1>2
<1>3. ASSUME NEW c \in Clients, Dispatch(c) \/ LeaveToEngine(c) PROVE EngineDrains'
  BY <1>3, EngineAssumption DEF Dispatch, LeaveToEngine, engine, Threads, Engine
<1>4. ASSUME NEW th \in Threads, Drain(th) PROVE EngineDrains'
  <2>1. CASE th = Engine
    BY <1>4, <2>1
    DEF Drain, BeginDrain, WantsDrain, DrainPop, DrainEnqueue, EndDrain, engine
  <2>2. CASE th # Engine
    <3>1. dpc'[Engine] = dpc[Engine]
      BY <1>4, <2>2 DEF Drain, BeginDrain, DrainPop, DrainEnqueue, EndDrain, Threads
    <3>2. pc' = pc /\ next' = next
      BY <1>4, <2>2 DEF Drain, BeginDrain, DrainPop, DrainEnqueue, EndDrain, engine
    <3> QED BY <3>1, <3>2
  <2> QED BY <2>1, <2>2
<1>5. CASE DrainControl
  BY <1>5 DEF DrainControl, AfterControl, Goto, drains
<1>6. CASE GetTurn \/ GetVerb \/ GetBoundary \/ IdleTick
  BY <1>2, <1>6 DEF GetTurn, GetVerb, GetBoundary, TakeCommand, IdleTick, Goto, drains, engine
<1>7. CASE DropUnready \/ EnqueueBusy \/ AnswerNow \/ ReadGate \/ Sweep \/ PopHead \/ PopBlocked
  BY <1>2, <1>7
  DEF DropUnready, EnqueueBusy, AnswerNow, ReadGate, Sweep, PopHead, PopBlocked, Goto, drains
<1>8. CASE FlushAccumulation \/ TakeBundle \/ Answer \/ GenerationFails
  BY <1>2, <1>8 DEF FlushAccumulation, TakeBundle, Answer, GenerationFails, Goto, drains
<1>9. CASE UNCHANGED vars \/ PostVerb \/ ViewersAndAgenda \/ NoticeSpeaks \/ SpeechEnds \/ PostBoundary
  BY <1>1, <1>9
  DEF vars, PostVerb, ViewersAndAgenda, NoticeSpeaks, SpeechEnds, PostBoundary, engine, drains
<1> QED
  BY <1>3, <1>4, <1>5, <1>6, <1>7, <1>8, <1>9 DEF Next, EngineStep

LEMMA EngineTypeStep == TypeOK /\ EngineDrains /\ [Next]_vars => EngineOK'
<1> SUFFICES ASSUME TypeOK, EngineDrains, [Next]_vars PROVE EngineOK'
  OBVIOUS
<1> USE DEF TypeOK, EngineOK
<1>1. CASE UNCHANGED engine
  BY <1>1 DEF engine
<1>2. CASE GetTurn \/ GetVerb \/ GetBoundary \/ IdleTick
  BY <1>1, <1>2 DEF GetTurn, GetVerb, GetBoundary, IdleTick, DispatcherOK, Goto
<1>3. CASE DropUnready \/ EnqueueBusy \/ AnswerNow
  BY <1>3 DEF DropUnready, EnqueueBusy, AnswerNow, Goto
<1>4. CASE ReadGate \/ Sweep
  <2>1. CASE ReadGate
    <3>1. busy' \in BOOLEAN
      BY <2>1 DEF ReadGate
    <3> QED BY <2>1, <3>1 DEF ReadGate, Goto
  <2>2. CASE Sweep
    BY <2>2 DEF Sweep, Goto
  <2> QED BY <1>4, <2>1, <2>2
<1>5. CASE PopHead \/ PopBlocked
  BY <1>5 DEF PopHead, PopBlocked, Goto
<1>6. CASE FlushAccumulation
  <2>1. hand' \subseteq Turns
    BY <1>6 DEF FlushAccumulation, SchedOK
  <2>2. processing' \in BOOLEAN /\ busy' \in BOOLEAN
    BY <1>6 DEF FlushAccumulation
  <2>3. pc' \in {"get", "generate"} /\ next' = "get" /\ bundle' = bundle
    BY <1>6 DEF FlushAccumulation, Goto
  <2> QED BY <2>1, <2>2, <2>3
<1>7. CASE TakeBundle
  BY <1>7 DEF TakeBundle, OwnerPrefixes, Owners, SchedOK, Goto
<1>8. CASE Answer \/ GenerationFails
  BY <1>8 DEF Answer, GenerationFails, Goto
<1>9. CASE DrainControl
  BY <1>9 DEF DrainControl, AfterControl, Goto
<1>10. ASSUME NEW th \in Threads, EndDrain(th) PROVE EngineOK'
  <2>1. pc' \in {"get", "turn", "pq", "sweep", "pop", "popped", "generate", "control", "drain"}
    BY <1>10 DEF EndDrain, EngineDrains
  <2>2. UNCHANGED <<next, busy, hand, bundle, processing>>
    BY <1>10 DEF EndDrain
  <2> QED BY <2>1, <2>2
<1>11. ASSUME NEW c \in Clients, Dispatch(c) \/ LeaveToEngine(c) PROVE EngineOK'
  BY <1>1, <1>11 DEF Dispatch, LeaveToEngine
<1>12. ASSUME NEW th \in Threads, BeginDrain(th) \/ DrainPop(th) \/ DrainEnqueue(th) PROVE EngineOK'
  BY <1>1, <1>12 DEF BeginDrain, DrainPop, DrainEnqueue
<1>13. CASE UNCHANGED vars \/ PostVerb \/ ViewersAndAgenda \/ NoticeSpeaks \/ SpeechEnds \/ PostBoundary
  BY <1>1, <1>13 DEF vars, PostVerb, ViewersAndAgenda, NoticeSpeaks, SpeechEnds, PostBoundary
<1> QED
  BY <1>2, <1>3, <1>4, <1>5, <1>6, <1>7, <1>8, <1>9, <1>10, <1>11, <1>12, <1>13
  DEF Next, Drain, EngineStep

\* The steps that leave the drains alone.
Undrained == UNCHANGED drains

LEMMA NotDrains ==
  ASSUME \/ PostVerb \/ ViewersAndAgenda \/ NoticeSpeaks \/ SpeechEnds \/ PostBoundary \/ EngineStep
         \/ UNCHANGED vars
  PROVE  Undrained
<1>1. CASE PostVerb \/ ViewersAndAgenda \/ NoticeSpeaks \/ SpeechEnds \/ PostBoundary \/ UNCHANGED vars
  BY <1>1
  DEF Undrained, vars, PostVerb, ViewersAndAgenda, NoticeSpeaks, SpeechEnds, PostBoundary
<1>2. CASE EngineStep
  BY <1>2
  DEF Undrained, EngineStep, GetTurn, GetVerb, GetBoundary, TakeCommand, IdleTick, DropUnready,
      EnqueueBusy, AnswerNow, ReadGate, Sweep, PopHead, PopBlocked, FlushAccumulation, TakeBundle,
      Answer, GenerationFails, DrainControl
<1> QED BY <1>1, <1>2

LEMMA DrainsStep == TypeOK /\ [Next]_vars => DrainsOK'
<1> SUFFICES ASSUME TypeOK, [Next]_vars PROVE DrainsOK'
  OBVIOUS
<1> USE DEF TypeOK, DrainsOK
<1>1. CASE Undrained
  BY <1>1 DEF Undrained, drains
<1>2. ASSUME NEW c \in Clients, Dispatch(c) \/ LeaveToEngine(c) PROVE DrainsOK'
  BY <1>2 DEF Dispatch, LeaveToEngine, Threads
<1>3. ASSUME NEW th \in Threads, BeginDrain(th) PROVE DrainsOK'
  BY <1>3 DEF BeginDrain
<1>4. ASSUME NEW th \in Threads, DrainPop(th) PROVE DrainsOK'
  BY <1>4 DEF DrainPop
<1>5. ASSUME NEW th \in Threads, DrainEnqueue(th) PROVE DrainsOK'
  BY <1>5 DEF DrainEnqueue
<1>6. ASSUME NEW th \in Threads, EndDrain(th) PROVE DrainsOK'
  BY <1>6 DEF EndDrain
<1> QED
  BY <1>1, <1>2, <1>3, <1>4, <1>5, <1>6, NotDrains DEF Next, Drain

LEMMA OutsideStep == TypeOK /\ [Next]_vars => OutsideOK'
<1> SUFFICES ASSUME TypeOK, [Next]_vars PROVE OutsideOK'
  OBVIOUS
<1> USE DEF TypeOK, OutsideOK
<1>1. CASE UNCHANGED <<armed, outside, control>>
  BY <1>1 DEF outside, control
<1>2. CASE PostVerb \/ NoticeSpeaks \/ SpeechEnds \/ PostBoundary
  <2>1. /\ verbs' = verbs \/ (verbs > 0 /\ verbs' = verbs - 1)
        /\ notices' = notices \/ (notices > 0 /\ notices' = notices - 1)
        /\ UNCHANGED <<deferred, armed>>
    BY <1>2 DEF PostVerb, NoticeSpeaks, SpeechEnds, PostBoundary, outside, control
  <2>2. verbs' \in Nat /\ notices' \in Nat /\ deferred' \in Nat
    BY <2>1
  <2>3. speech' \in {TRUE, FALSE, speech} /\ wake' \in {TRUE, FALSE, wake}
    BY <1>2 DEF PostVerb, NoticeSpeaks, SpeechEnds, PostBoundary, outside
  <2> QED BY <2>1, <2>2, <2>3
<1>3. CASE GetTurn \/ GetVerb \/ GetBoundary
  BY <1>3 DEF GetTurn, GetVerb, GetBoundary, TakeCommand, outside
<1>4. CASE Answer \/ GenerationFails
  BY <1>4 DEF Answer, GenerationFails, control
<1>5. CASE DrainControl
  BY <1>5 DEF DrainControl, ParkedApplied, outside
<1>6. ASSUME NEW c \in Clients, Dispatch(c) \/ LeaveToEngine(c) PROVE OutsideOK'
  BY <1>1, <1>6 DEF Dispatch, LeaveToEngine
<1>7. ASSUME NEW th \in Threads, Drain(th) PROVE OutsideOK'
  BY <1>1, <1>7 DEF Drain, BeginDrain, DrainPop, DrainEnqueue, EndDrain
<1>8. CASE UNCHANGED vars \/ ViewersAndAgenda
  BY <1>1, <1>8 DEF vars, ViewersAndAgenda
<1>9. CASE IdleTick \/ DropUnready \/ EnqueueBusy \/ AnswerNow \/ ReadGate \/ Sweep \/ PopHead
           \/ PopBlocked \/ FlushAccumulation \/ TakeBundle
  BY <1>1, <1>9
  DEF IdleTick, DropUnready, EnqueueBusy, AnswerNow, ReadGate, Sweep, PopHead, PopBlocked,
      FlushAccumulation, TakeBundle
<1> QED
  BY <1>2, <1>3, <1>4, <1>5, <1>6, <1>7, <1>8, <1>9 DEF Next, EngineStep

LEMMA InitTypes == Init => TypeOK
<1> SUFFICES ASSUME Init PROVE TypeOK
  OBVIOUS
<1> USE DEF Init
<1> PICK s \in Scenes : source = s.source /\ armed = s.armed /\ verbs = s.verbs /\ notices = s.notices
  OBVIOUS
<1>1. /\ s.source \in [Turns -> Sources \cup {"none"}] /\ s.armed \in BOOLEAN
      /\ s.verbs \in Nat /\ s.notices \in Nat
  BY EngineAssumption
<1>2. SchedOK
  BY <1>1 DEF InitSched, SchedOK
<1>3. DispatcherOK
  BY DEF InitDispatcher, DispatcherOK
<1>4. EngineOK /\ DrainsOK
  BY DEF EngineOK, DrainsOK
<1>5. OutsideOK
  <2>1. notices \in Nat /\ deferred \in Nat /\ verbs \in Nat /\ speech \in BOOLEAN /\ wake \in BOOLEAN
    BY <1>1
  <2>2. armed \in BOOLEAN
    BY <1>1
  <2> QED BY <2>1, <2>2 DEF OutsideOK
<1> QED BY <1>2, <1>3, <1>4, <1>5 DEF TypeOK

LEMMA TypeStep == TypeOK /\ EngineDrains /\ [Next]_vars => TypeOK' /\ EngineDrains'
  BY SchedStep, DispatcherStep, EngineTypeStep, EngineDrainsStep, DrainsStep, OutsideStep DEF TypeOK

\* Every thread keeps the queues, the buffers and the hands well typed.
THEOREM TypeCorrect == Spec => []TypeOK
<1>1. Init => TypeOK /\ EngineDrains
  BY InitTypes DEF Init, EngineDrains, Threads, Engine
<1> QED
  BY <1>1, TypeStep, PTL DEF Spec

-----------------------------------------------------------------------------
(* The owner's questions are kept. *)

\* Whatever joins the queue, no owner question is trimmed or discarded for it.
LEMMA JoinKeepsOwners ==
  ASSUME TypeOK, OwnersAreKept, UNCHANGED source, NEW t \in Turns, NEW q \in SUBSET Turns,
         NEW f \in [Turns -> Ends \cup {"new", "live"}], Joins(t, q, f),
         \A u \in Owners(Turns) : f[u] \in {"live", fate[u]}
  PROVE  OwnersAreKept'
<1>1. \A u \in Owners(Turns) : u \notin acc'
  BY DEF Joins, OwnersAreKept
<1>2. \A u \in Owners(Turns) : fate'[u] = f[u]
  BY DEF Joins, Ended, OwnersAreKept, Owners
<1> QED
  BY <1>1, <1>2 DEF OwnersAreKept, Owners

LEMMA OwnersStep == TypeOK /\ OwnersAreKept /\ [Next]_vars => OwnersAreKept'
<1> SUFFICES ASSUME TypeOK, OwnersAreKept, [Next]_vars PROVE OwnersAreKept'
  OBVIOUS
<1> USE DEF TypeOK, SchedOK
<1>1. CASE UNCHANGED <<source, acc, fate>>
  BY <1>1 DEF OwnersAreKept, Owners
<1>2. ASSUME NEW S, S \subseteq Turns, NEW how \in Ends, fate' = Ended(fate, S, how), acc' \subseteq acc,
             UNCHANGED source,
             how # "served" => S \cap Owners(Turns) = {}
      PROVE  OwnersAreKept'
  BY <1>2 DEF OwnersAreKept, Owners, Ended, Ends
<1>3. ASSUME NEW c \in Clients, Dispatch(c) PROVE OwnersAreKept'
  <2>1. ASSUME NEW t \in Turns, NEW k, NEW old, Accept(t, k, old) PROVE OwnersAreKept'
    BY <2>1 DEF Accept, OwnersAreKept, Owners
  <2> QED BY <1>1, <1>3, <2>1 DEF Dispatch, Replay, sched
<1>4. ASSUME NEW t \in Turns, EnqueueChat(t) PROVE OwnersAreKept'
  <2> DEFINE f == [fate EXCEPT ![t] = "live"]
  <2>1. Joins(t, pq, f) /\ UNCHANGED source
    BY <1>4, EnqueueEffect DEF EnqueueChat
  <2>2. f \in [Turns -> Ends \cup {"new", "live"}] /\ \A u \in Owners(Turns) : f[u] \in {"live", fate[u]}
    BY DEF Owners
  <2> HIDE DEF f
  <2> QED BY <2>1, <2>2, JoinKeepsOwners
<1>5. ASSUME NEW t \in Turns, ReplacePending(t) PROVE OwnersAreKept'
  <2> DEFINE old == {u \in pq : source[u] = "agenda"}
             f == [Ended(fate, old, "discarded") EXCEPT ![t] = "live"]
  <2>1. f \in [Turns -> Ends \cup {"new", "live"}] /\ pq \ old \in SUBSET Turns
    BY DEF Ended, Ends
  <2>2. \A u \in Owners(Turns) : f[u] \in {"live", fate[u]}
    BY DEF Owners, OwnerSources, Ended
  <2>3. Enqueue(t, pq \ old, f) /\ UNCHANGED source
    BY <1>5 DEF ReplacePending
  <2> HIDE DEF old, f
  <2>4. Joins(t, pq \ old, f)
    BY <2>1, <2>3, EnqueueEffect
  <2> QED BY <2>1, <2>2, <2>3, <2>4, JoinKeepsOwners
<1>6. CASE DropPending("chat") \/ DropPending("agenda")
  <2>1. ASSUME NEW src \in {"chat", "agenda"}, DropPending(src) PROVE OwnersAreKept'
    BY <1>2, <2>1 DEF DropPending, Owners, OwnerSources, Ends
  <2> QED BY <1>6, <2>1
<1>7. ASSUME NEW th \in Threads, DrainEnqueue(th) PROVE OwnersAreKept'
  <2>1. PICK t \in dhand[th] : Enqueue(t, pq, fate)
    BY <1>7 DEF DrainEnqueue
  <2>2. t \in Turns /\ UNCHANGED source
    BY <1>7 DEF DrainEnqueue, DrainsOK
  <2> QED BY <2>1, <2>2, EnqueueEffect, JoinKeepsOwners
<1>8. CASE EnqueueBusy
  <2>1. PICK t \in hand : Enqueue(t, pq, fate)
    BY <1>8 DEF EnqueueBusy
  <2>2. t \in Turns /\ UNCHANGED source
    BY <1>8 DEF EnqueueBusy, EngineOK
  <2> QED BY <2>1, <2>2, EnqueueEffect, JoinKeepsOwners
<1>9. CASE Sweep
  <2>1. PICK old \in SUBSET Expirable : pq' = pq \ old /\ fate' = Ended(fate, old, "expired")
    BY <1>9 DEF Sweep
  <2>2. \A u \in Owners(Turns) : u \in Expirable => source[u] = "direct"
    BY DEF Expirable, Owners, OwnerSources, Priority
  <2>3. UNCHANGED <<source, acc>>
    BY <1>9 DEF Sweep
  <2>4. \A u \in Turns : fate'[u] = IF u \in old THEN "expired" ELSE fate[u]
    BY <2>1 DEF Ended
  <2> QED BY <2>1, <2>2, <2>3, <2>4 DEF OwnersAreKept, Owners
<1>10. CASE FlushAccumulation
  <2>1. PICK old \in SUBSET acc : fate' = Ended(fate, old, "expired")
    BY <1>10 DEF FlushAccumulation
  <2>2. old \cap Owners(Turns) = {}
    BY DEF OwnersAreKept
  <2>3. acc' = {} /\ UNCHANGED source
    BY <1>10 DEF FlushAccumulation
  <2> QED BY <1>2, <2>1, <2>2, <2>3 DEF Ends
<1>11. CASE DropUnready \/ GenerationFails
  BY <1>2, <1>11 DEF DropUnready, GenerationFails, EngineOK, Ends
<1>12. CASE Answer
  BY <1>2, <1>12 DEF Answer, EngineOK, Ends
<1>13. CASE PostVerb \/ NoticeSpeaks \/ SpeechEnds \/ PostBoundary \/ UNCHANGED vars
  BY <1>1, <1>13 DEF PostVerb, AcceptVerb, NoticeSpeaks, SpeechEnds, PostBoundary, vars, sched
<1>14. ASSUME NEW c \in Clients, LeaveToEngine(c) PROVE OwnersAreKept'
  BY <1>1, <1>14 DEF LeaveToEngine, sched
<1>15. ASSUME NEW th \in Threads, BeginDrain(th) \/ DrainPop(th) \/ EndDrain(th) PROVE OwnersAreKept'
  BY <1>1, <1>15 DEF BeginDrain, DrainPop, EndDrain, sched
<1>16. CASE GetTurn \/ GetVerb \/ GetBoundary \/ IdleTick \/ AnswerNow \/ ReadGate \/ PopHead
            \/ PopBlocked \/ TakeBundle \/ DrainControl
  BY <1>1, <1>16
  DEF GetTurn, GetVerb, GetBoundary, TakeCommand, IdleTick, AnswerNow, ReadGate, PopHead, PopBlocked,
      TakeBundle, DrainControl, sched
<1> QED
  BY <1>3, <1>4, <1>5, <1>6, <1>7, <1>8, <1>9, <1>10, <1>11, <1>12, <1>13, <1>14, <1>15, <1>16
  DEF Next, Drain, EngineStep, ViewersAndAgenda

\* An owner question is never trimmed from the queue nor discarded, and spoken
\* ones never expire, however long the queues and whoever fills them.
THEOREM OwnersKept == Spec => []OwnersAreKept
<1>1. Init => OwnersAreKept
  BY DEF Init, InitSched, OwnersAreKept, Owners
<1>2. Init => TypeOK /\ EngineDrains
  BY InitTypes DEF Init, EngineDrains, Threads, Engine
<1>3. TypeOK /\ EngineDrains /\ OwnersAreKept /\ [Next]_vars => (TypeOK /\ EngineDrains /\ OwnersAreKept)'
  BY TypeStep, OwnersStep
<1> QED
  BY <1>1, <1>2, <1>3, PTL DEF Spec

-----------------------------------------------------------------------------
(* Every turn has one home. *)

\* Taking the head of the command queue takes a turn out of it.
LEMMA QueueTail ==
  ASSUME DispatcherOK, QueuedOnce, cq # <<>>, cq' = Tail(cq)
  PROVE  /\ QueuedOnce'
         /\ Head(cq) \in Turns => Head(cq) \in InQueue
         /\ InQueue' = InQueue \ {Head(cq)}
<1> USE DEF DispatcherOK
<1>1. /\ Len(cq) \in Nat \ {0} /\ Head(cq) = cq[1]
      /\ Len(cq') = Len(cq) - 1 /\ \A i \in 1..Len(cq') : cq'[i] = cq[i + 1]
  OBVIOUS
<1>2. QueuedOnce'
  BY <1>1 DEF QueuedOnce
<1>3. \A x \in Turns : x \in InQueue <=> \E i \in 1..Len(cq) : cq[i] = x
  BY DEF InQueue
<1>4. \A x \in Turns : x \in InQueue' <=> \E i \in 1..Len(cq') : cq'[i] = x
  BY DEF InQueue
<1>5. \A x \in Turns : x # cq[1] /\ (\E i \in 1..Len(cq) : cq[i] = x) => \E i \in 1..Len(cq') : cq'[i] = x
  <2> SUFFICES ASSUME NEW x \in Turns, x # cq[1], NEW i \in 1..Len(cq), cq[i] = x
               PROVE  \E j \in 1..Len(cq') : cq'[j] = x
    OBVIOUS
  <2>1. i - 1 \in 1..Len(cq') /\ cq'[i - 1] = x
    BY <1>1
  <2> QED BY <2>1
<1>6. \A i \in 1..Len(cq') : cq'[i] \in Turns => cq'[i] # cq[1] /\ \E j \in 1..Len(cq) : cq[j] = cq'[i]
  BY <1>1 DEF QueuedOnce
<1>7. InQueue' = InQueue \ {Head(cq)}
  <2>1. InQueue \subseteq Turns /\ InQueue' \subseteq Turns
    BY DEF InQueue
  <2>2. \A x \in Turns : x \in InQueue' => x \in InQueue /\ x # Head(cq)
    BY <1>1, <1>3, <1>4, <1>6
  <2>3. \A x \in Turns : x \in InQueue /\ x # Head(cq) => x \in InQueue'
    BY <1>1, <1>3, <1>4, <1>5
  <2> HIDE DEF Turns
  <2> QED BY <2>1, <2>2, <2>3
<1>8. Head(cq) \in Turns => Head(cq) \in InQueue
  BY <1>1, <1>3
<1> QED BY <1>2, <1>7, <1>8

\* A turn that was not in the command queue joins it once; a verb or a sentinel
\* changes nothing there.
LEMMA QueueAppend ==
  ASSUME DispatcherOK, QueuedOnce, NEW x \in Turns \cup {Verb, Boundary}, x \notin InQueue,
         cq' = Append(cq, x)
  PROVE  QueuedOnce' /\ InQueue' = InQueue \cup ({x} \cap Turns)
<1> USE DEF DispatcherOK
<1>1. /\ Len(cq) \in Nat /\ Len(cq') = Len(cq) + 1 /\ cq'[Len(cq')] = x
      /\ \A i \in 1..Len(cq) : cq'[i] = cq[i]
  OBVIOUS
<1>2. \A y \in Turns : y \in InQueue <=> \E i \in 1..Len(cq) : cq[i] = y
  BY DEF InQueue
<1>3. \A y \in Turns : y \in InQueue' <=> \E i \in 1..Len(cq') : cq'[i] = y
  BY DEF InQueue
<1>4. \A i \in 1..Len(cq') : i \in 1..Len(cq) \/ i = Len(cq')
  BY <1>1
<1>5. QueuedOnce'
  BY <1>1, <1>2, <1>4 DEF QueuedOnce
<1>6. \A y \in Turns : (\E i \in 1..Len(cq') : cq'[i] = y) <=> y = x \/ \E i \in 1..Len(cq) : cq[i] = y
  BY <1>1, <1>4
<1>7. InQueue \subseteq Turns /\ InQueue' \subseteq Turns
  BY DEF InQueue
<1>8. \A y \in Turns : y \in InQueue' <=> y = x \/ y \in InQueue
  BY <1>2, <1>3, <1>6
<1> HIDE DEF Turns
<1>9. InQueue' = InQueue \cup ({x} \cap Turns)
  BY <1>7, <1>8
<1> QED BY <1>5, <1>9

\* Verbs taken from the front leave every turn where it was.
LEMMA QueueWithoutVerbs ==
  ASSUME DispatcherOK, QueuedOnce, NEW k \in 0..Len(cq), \A i \in 1..k : cq[i] = Verb,
         cq' = SubSeq(cq, k + 1, Len(cq))
  PROVE  QueuedOnce' /\ InQueue' = InQueue
<1> USE DEF DispatcherOK
<1>1. /\ Len(cq) \in Nat /\ Len(cq') = Len(cq) - k
      /\ \A i \in 1..Len(cq') : cq'[i] = cq[i + k]
  OBVIOUS
<1>2. QueuedOnce'
  BY <1>1 DEF QueuedOnce
<1>3. ASSUME NEW y \in Turns, NEW i \in 1..Len(cq), cq[i] = y PROVE y \in InQueue'
  <2>1. i > k
    BY <1>3
  <2>2. i - k \in 1..Len(cq') /\ cq'[i - k] = y
    BY <1>1, <1>3, <2>1
  <2> QED BY <2>2 DEF InQueue
<1>4. ASSUME NEW y \in Turns, NEW i \in 1..Len(cq'), cq'[i] = y PROVE y \in InQueue
  <2>1. i + k \in 1..Len(cq) /\ cq[i + k] = y
    BY <1>1, <1>4
  <2> QED BY <2>1 DEF InQueue
<1>5. InQueue \subseteq Turns /\ InQueue' \subseteq Turns
  BY DEF InQueue
<1>6. \A y \in InQueue : y \in InQueue'
  BY <1>3 DEF InQueue
<1>7. \A y \in InQueue' : y \in InQueue
  BY <1>4 DEF InQueue
<1> QED BY <1>2, <1>5, <1>6, <1>7

\* One drain's hand changes, to turns no drain has.
LEMMA DrainHand ==
  ASSUME DrainsOK, DrainsApart, NEW th \in Threads, NEW S \in SUBSET Turns, S \cap InDrains = {},
         dhand' = [dhand EXCEPT ![th] = S]
  PROVE  DrainsApart' /\ dhand[th] \subseteq InDrains /\ InDrains' = (InDrains \ dhand[th]) \cup S
<1> USE DEF DrainsOK
<1>1. dhand'[th] = S /\ \A tg \in Threads \ {th} : dhand'[tg] = dhand[tg]
  OBVIOUS
<1>2. \A x : x \in InDrains <=> \E tg \in Threads : x \in dhand[tg]
  BY DEF InDrains
<1>3. \A x : x \in InDrains' <=> \E tg \in Threads : x \in dhand'[tg]
  BY DEF InDrains
<1>4. DrainsApart'
  BY <1>1, <1>2 DEF DrainsApart
<1>5. InDrains' = (InDrains \ dhand[th]) \cup S
  BY <1>1, <1>2, <1>3 DEF DrainsApart
<1> QED BY <1>2, <1>4, <1>5

\* A turn that joins the queue is home there, and what it displaces is home in the
\* buffer or ends.
LEMMA JoinPlaces ==
  ASSUME NEW t \in Turns, NEW q \in SUBSET Turns, NEW f \in [Turns -> Ends \cup {"new", "live"}],
         Joins(t, q, f), NEW Q, NEW H, NEW B, NEW D, acc \subseteq Turns,
         Placed(Q, q \cup {t}, acc, H, B, D, {u \in Turns : f[u] = "live"})
  PROVE  Placed(Q, pq', acc', H, B, D, Live')
<1>1. PICK trimmed \in SUBSET (q \cup {t}), lost \in SUBSET Turns :
        /\ lost \subseteq acc \cup trimmed
        /\ pq' = (q \cup {t}) \ trimmed /\ acc' = (acc \cup trimmed) \ lost
        /\ fate' = Ended(f, lost, "discarded")
  BY DEF Joins
<1>2. Live' = {u \in Turns : f[u] = "live"} \ lost
  BY <1>1 DEF Live, Ended
<1> QED BY <1>1, <1>2 DEF Placed

\* Ended turns are no longer live, and the others are as before.
LEMMA EndedLive ==
  ASSUME NEW S, NEW how \in Ends, fate' = Ended(fate, S, how)
  PROVE  Live' = Live \ S
BY DEF Live, Ended, Ends

\* The hands hold a turn exactly where the threads are at one.
LEMMA HandsStep == TypeOK /\ EngineDrains /\ HandsInv /\ [Next]_vars => HandsInv'
<1> SUFFICES ASSUME TypeOK, EngineDrains, HandsInv, [Next]_vars PROVE HandsInv'
  OBVIOUS
<1> USE DEF TypeOK, EngineOK, DrainsOK, HandsInv
<1>1. CASE UNCHANGED <<pc, hand, bundle, dpc, dhand>>
  BY <1>1
<1>2. ASSUME UNCHANGED <<dpc, dhand>>, bundle' = bundle, pc # "generate",
             pc' = "turn" => \E t \in Turns : hand' = {t},
             pc' # "turn" => hand' = {}, pc' \notin {"popped", "generate"}
      PROVE  HandsInv'
  BY <1>2
<1>3. ASSUME NEW c \in Clients, Dispatch(c) \/ LeaveToEngine(c) PROVE HandsInv'
  <2>1. UNCHANGED <<pc, hand, bundle, dhand>>
    BY <1>3 DEF Dispatch, LeaveToEngine, engine
  <2>2. \A th \in Threads : (dpc[th] # "enq" /\ dpc'[th] # "enq") \/ dpc'[th] = dpc[th]
    BY <1>3 DEF Dispatch, LeaveToEngine
  <2> QED BY <2>1, <2>2
<1>4. ASSUME NEW th \in Threads, BeginDrain(th) PROVE HandsInv'
  BY <1>4 DEF BeginDrain, WantsDrain, engine
<1>5. ASSUME NEW th \in Threads, DrainPop(th) PROVE HandsInv'
  BY <1>5 DEF DrainPop, engine
<1>6. ASSUME NEW th \in Threads, DrainEnqueue(th) PROVE HandsInv'
  BY <1>6 DEF DrainEnqueue, engine
<1>7. ASSUME NEW th \in Threads, EndDrain(th) PROVE HandsInv'
  <2>1. UNCHANGED <<hand, bundle, dhand>> /\ dpc' = [dpc EXCEPT ![th] = "off"] /\ dpc[th] = "loop"
    BY <1>7 DEF EndDrain
  <2>2. pc' = pc \/ (pc = "drain" /\ pc' \in {"get", "pq"})
    <3>1. CASE th = Engine
      <4>1. dpc[Engine] = "loop" /\ pc' = next
        BY <1>7, <3>1 DEF EndDrain
      <4> QED BY <4>1 DEF EngineDrains
    <3>2. CASE th # Engine
      BY <1>7, <3>2 DEF EndDrain
    <3> QED BY <3>1, <3>2
  <2> QED BY <2>1, <2>2
<1>8. CASE GetTurn
  BY <1>2, <1>8 DEF GetTurn, TakeCommand, Goto, drains
<1>9. CASE GetVerb \/ GetBoundary \/ IdleTick
  BY <1>2, <1>9 DEF GetVerb, GetBoundary, TakeCommand, IdleTick, Goto, drains, engine
<1>10. CASE DropUnready \/ EnqueueBusy
  BY <1>2, <1>10 DEF DropUnready, EnqueueBusy, Goto, drains
<1>11. CASE AnswerNow
  BY <1>11 DEF AnswerNow, Goto, drains
<1>12. CASE ReadGate \/ Sweep \/ PopBlocked
  BY <1>2, <1>12 DEF ReadGate, Sweep, PopBlocked, Goto, drains
<1>13. CASE PopHead
  BY <1>13 DEF PopHead, Goto, drains
<1>14. CASE FlushAccumulation
  BY <1>14 DEF FlushAccumulation, Goto, drains
<1>15. CASE TakeBundle
  BY <1>15 DEF TakeBundle, Goto, drains
<1>16. CASE Answer \/ GenerationFails
  BY <1>16 DEF Answer, GenerationFails, Goto, drains
<1>17. CASE DrainControl
  BY <1>2, <1>17 DEF DrainControl, AfterControl, Goto, drains
<1>18. CASE UNCHANGED vars \/ PostVerb \/ ViewersAndAgenda \/ NoticeSpeaks \/ SpeechEnds \/ PostBoundary
  BY <1>1, <1>18
  DEF vars, PostVerb, ViewersAndAgenda, NoticeSpeaks, SpeechEnds, PostBoundary, engine, drains
<1> QED
  BY <1>3, <1>4, <1>5, <1>6, <1>7, <1>8, <1>9, <1>10, <1>11, <1>12, <1>13, <1>14, <1>15, <1>16,
     <1>17, <1>18
  DEF Next, Drain, EngineStep

\* The threads outside the engine move no turn into two places.
LEMMA HomesOutside ==
  ASSUME TypeOK, HandsInv, Homes,
         \/ \E c \in Clients : Dispatch(c) \/ LeaveToEngine(c)
         \/ \E th \in Threads : Drain(th)
         \/ PostVerb \/ ViewersAndAgenda \/ NoticeSpeaks \/ SpeechEnds \/ PostBoundary
         \/ UNCHANGED vars
  PROVE  Homes'
<1> USE DEF TypeOK
<1>0. InQueue \subseteq Live /\ Verb \notin InQueue /\ Boundary \notin InQueue
  BY DEF Homes, Placed, InQueue
<1>1. CASE UNCHANGED <<cq, pq, acc, hand, bundle, dhand, fate>>
  BY <1>1 DEF Homes, DrainsApart, QueuedOnce, InQueue, InDrains, Live
<1>2. ASSUME UNCHANGED <<cq, dhand>>, Placed(InQueue, pq', acc', hand', bundle', InDrains, Live')
      PROVE  Homes'
  BY <1>2 DEF Homes, DrainsApart, QueuedOnce, InQueue, InDrains
<1>3. ASSUME NEW x \in Turns \cup {Verb, Boundary}, x \notin InQueue, cq' = Append(cq, x),
             UNCHANGED <<pq, acc, hand, bundle, dhand>>,
             Live' = Live \cup ({x} \cap Turns), x \notin Live
      PROVE  Homes'
  <2>1. QueuedOnce' /\ InQueue' = InQueue \cup ({x} \cap Turns)
    BY <1>3, QueueAppend DEF Homes
  <2>2. DrainsApart' /\ InDrains' = InDrains
    BY <1>3 DEF Homes, DrainsApart, InDrains
  <2>3. Placed(InQueue', pq', acc', hand', bundle', InDrains', Live')
    BY <1>3, <2>1, <2>2 DEF Homes, Placed
  <2> QED BY <2>1, <2>2, <2>3 DEF Homes
<1>4. ASSUME NEW c \in Clients, Dispatch(c) PROVE Homes'
  <2>1. ASSUME NEW t \in Turns, NEW k, NEW old, Accept(t, k, old), UNCHANGED <<hand, bundle, dhand>>
        PROVE  Homes'
    <3>1. t \notin Live
      BY <2>1 DEF Accept, Arrives, Live
    <3>2. cq' = Append(cq, t) /\ UNCHANGED <<pq, acc>>
      BY <2>1 DEF Accept
    <3>3. Live' = Live \cup {t}
      BY <2>1 DEF Accept, Live, SchedOK
    <3> QED BY <1>0, <1>3, <2>1, <3>1, <3>2, <3>3
  <2>2. UNCHANGED <<hand, bundle, dhand>>
    BY <1>4 DEF Dispatch, engine
  <2> QED BY <1>1, <1>4, <2>1, <2>2 DEF Dispatch, Replay, sched
<1>5. CASE PostVerb
  <2>1. Live' = Live /\ cq' = Append(cq, Verb) /\ UNCHANGED <<pq, acc, hand, bundle, dhand>>
    BY <1>5 DEF PostVerb, AcceptVerb, Live, sched, engine, drains
  <2> QED BY <1>0, <1>3, <2>1 DEF Live
<1>6. CASE PostBoundary
  <2>1. Live' = Live /\ cq' = Append(cq, Boundary) /\ UNCHANGED <<pq, acc, hand, bundle, dhand>>
    BY <1>6 DEF PostBoundary, Live, sched, engine, drains
  <2> QED BY <1>0, <1>3, <2>1 DEF Live
<1>7. CASE ViewersAndAgenda
  <2>0. UNCHANGED <<cq, hand, bundle, dhand>>
    BY <1>7 DEF ViewersAndAgenda, dispatcher, engine, drains
  <2>1. ASSUME NEW t \in Turns, fate[t] = "new", NEW old \in SUBSET pq,
               NEW f, f = [Ended(fate, old, "discarded") EXCEPT ![t] = "live"],
               Enqueue(t, pq \ old, f)
        PROVE  Homes'
    <3>1. f \in [Turns -> Ends \cup {"new", "live"}] /\ pq \ old \in SUBSET Turns
      BY <2>1 DEF SchedOK, Ended, Ends
    <3>2. {u \in Turns : f[u] = "live"} = (Live \ old) \cup {t} /\ t \notin Live
      BY <2>1 DEF SchedOK, Ended, Ends, Live
    <3>3. Placed(InQueue, (pq \ old) \cup {t}, acc, hand, bundle, InDrains,
                 {u \in Turns : f[u] = "live"})
      BY <3>2 DEF Homes, Placed
    <3>4. Joins(t, pq \ old, f)
      BY <2>1, <3>1, EnqueueEffect
    <3>5. Placed(InQueue, pq', acc', hand, bundle, InDrains, Live')
      BY <3>1, <3>3, <3>4, JoinPlaces DEF SchedOK
    <3> QED BY <1>2, <2>0, <3>5
  <2>2. ASSUME NEW t \in Turns, EnqueueChat(t) PROVE Homes'
    <3>1. fate = Ended(fate, {}, "discarded") /\ pq \ {} = pq
      BY DEF Ended, SchedOK
    <3>2. fate[t] = "new" /\ Enqueue(t, pq \ {}, [Ended(fate, {}, "discarded") EXCEPT ![t] = "live"])
      BY <2>2, <3>1 DEF EnqueueChat, Arrives
    <3> QED BY <2>1, <3>2
  <2>3. ASSUME NEW t \in Turns, ReplacePending(t) PROVE Homes'
    BY <2>1, <2>3 DEF ReplacePending, Arrives
  <2>4. ASSUME NEW src, DropPending(src) PROVE Homes'
    <3>1. PICK gone \in SUBSET (pq \cup acc) :
            pq' = pq \ gone /\ acc' = acc \ gone /\ fate' = Ended(fate, gone, "discarded")
      BY <2>4 DEF DropPending
    <3>2. Live' = Live \ gone
      BY <3>1, EndedLive DEF Ends
    <3>3. Placed(InQueue, pq', acc', hand, bundle, InDrains, Live')
      BY <3>1, <3>2 DEF Homes, Placed
    <3> QED BY <1>2, <2>0, <3>3
  <2> QED BY <1>7, <2>2, <2>3, <2>4 DEF ViewersAndAgenda
<1>8. ASSUME NEW th \in Threads, DrainPop(th) PROVE Homes'
  <2>1. /\ cq # <<>> /\ cq' = Tail(cq) /\ Head(cq) \in Turns
        /\ dhand' = [dhand EXCEPT ![th] = {Head(cq)}] /\ dhand[th] = {}
        /\ UNCHANGED <<pq, acc, hand, bundle, fate>>
    BY <1>8 DEF DrainPop, HandsInv, sched, engine
  <2>2. QueuedOnce' /\ Head(cq) \in InQueue /\ InQueue' = InQueue \ {Head(cq)}
    BY <2>1, QueueTail DEF Homes
  <2>3. {Head(cq)} \in SUBSET Turns /\ {Head(cq)} \cap InDrains = {}
    BY <2>1, <2>2 DEF Homes, Placed
  <2>4. DrainsApart' /\ InDrains' = InDrains \cup {Head(cq)}
    BY <2>1, <2>3, DrainHand DEF Homes
  <2>5. Live' = Live
    BY <2>1 DEF Live
  <2>6. Placed(InQueue', pq', acc', hand', bundle', InDrains', Live')
    BY <2>1, <2>2, <2>4, <2>5 DEF Homes, Placed
  <2> QED BY <2>2, <2>4, <2>6 DEF Homes
<1>9. ASSUME NEW th \in Threads, DrainEnqueue(th) PROVE Homes'
  <2>1. PICK t \in dhand[th] : Enqueue(t, pq, fate)
    BY <1>9 DEF DrainEnqueue
  <2>2. dhand[th] = {t} /\ t \in Turns
    BY <1>9, <2>1 DEF DrainEnqueue, HandsInv, DrainsOK
  <2>3. /\ dhand' = [dhand EXCEPT ![th] = {}] /\ UNCHANGED <<cq, hand, bundle, source>>
    BY <1>9 DEF DrainEnqueue, dispatcher, engine
  <2>4. DrainsApart' /\ t \in InDrains /\ InDrains' = InDrains \ {t}
    <3>1. {} \in SUBSET Turns /\ {} \cap InDrains = {}
      OBVIOUS
    <3>2. DrainsApart' /\ dhand[th] \subseteq InDrains /\ InDrains' = (InDrains \ dhand[th]) \cup {}
      BY <2>3, <3>1, DrainHand DEF Homes
    <3> QED BY <2>2, <3>2
  <2>5. QueuedOnce' /\ InQueue' = InQueue
    BY <2>3 DEF Homes, QueuedOnce, InQueue
  <2>6. Placed(InQueue, pq \cup {t}, acc, hand, bundle, InDrains \ {t}, Live)
    BY <2>4 DEF Homes, Placed
  <2>7. Joins(t, pq, fate)
    BY <2>1, <2>2, EnqueueEffect DEF SchedOK
  <2>8. Live = {u \in Turns : fate[u] = "live"}
    BY DEF Live
  <2>9. Placed(InQueue, pq', acc', hand, bundle, InDrains \ {t}, Live')
    BY <2>2, <2>6, <2>7, <2>8, JoinPlaces DEF SchedOK
  <2> QED BY <2>3, <2>4, <2>5, <2>9 DEF Homes
<1>10. ASSUME NEW th \in Threads, BeginDrain(th) \/ EndDrain(th) PROVE Homes'
  BY <1>1, <1>10 DEF BeginDrain, EndDrain, sched, dispatcher, engine
<1>11. ASSUME NEW c \in Clients, LeaveToEngine(c) PROVE Homes'
  BY <1>1, <1>11 DEF LeaveToEngine, sched, dispatcher, engine
<1>12. CASE NoticeSpeaks \/ SpeechEnds \/ UNCHANGED vars
  BY <1>1, <1>12 DEF NoticeSpeaks, SpeechEnds, vars, sched, dispatcher, engine, drains
<1> QED
  BY <1>4, <1>5, <1>6, <1>7, <1>8, <1>9, <1>10, <1>11, <1>12 DEF Drain

\* Nor does the engine's thread.
LEMMA HomesEngine == TypeOK /\ HandsInv /\ Homes /\ EngineStep => Homes'
<1> SUFFICES ASSUME TypeOK, HandsInv, Homes, EngineStep PROVE Homes'
  OBVIOUS
<1> USE DEF TypeOK
<1>0. Verb \notin InQueue /\ Boundary \notin InQueue
  BY DEF InQueue
<1>1. CASE UNCHANGED <<cq, pq, acc, hand, bundle, dhand, fate>>
  BY <1>1 DEF Homes, DrainsApart, QueuedOnce, InQueue, InDrains, Live
<1>2. ASSUME UNCHANGED <<cq, dhand>>, Placed(InQueue, pq', acc', hand', bundle', InDrains, Live')
      PROVE  Homes'
  BY <1>2 DEF Homes, DrainsApart, QueuedOnce, InQueue, InDrains
<1>3. ASSUME cq # <<>>, cq' = Tail(cq), UNCHANGED <<pq, acc, bundle, dhand, fate>>,
             hand' = hand \cup ({Head(cq)} \cap Turns)
      PROVE  Homes'
  <2>1. /\ QueuedOnce' /\ (Head(cq) \in Turns => Head(cq) \in InQueue)
        /\ InQueue' = InQueue \ {Head(cq)} /\ InQueue \subseteq Turns
    BY <1>3, QueueTail DEF Homes, InQueue
  <2>2. DrainsApart' /\ InDrains' = InDrains /\ Live' = Live
    BY <1>3 DEF Homes, DrainsApart, InDrains, Live
  <2>3. Placed(InQueue', pq', acc', hand', bundle', InDrains', Live')
    <3>1. CASE Head(cq) \in Turns
      <4>1. hand' = hand \cup {Head(cq)}
        BY <1>3, <3>1
      <4> QED BY <1>3, <2>1, <2>2, <3>1, <4>1 DEF Homes, Placed
    <3>2. CASE Head(cq) \notin Turns
      <4>1. hand' = hand /\ InQueue' = InQueue
        BY <1>3, <2>1, <3>2
      <4> QED BY <1>3, <2>2, <4>1 DEF Homes, Placed
    <3> QED BY <3>1, <3>2
  <2> QED BY <2>1, <2>2, <2>3 DEF Homes
<1>4. CASE GetTurn
  BY <1>3, <1>4 DEF GetTurn, TakeCommand, HandsInv, sched, drains
<1>5. CASE GetVerb \/ GetBoundary
  BY <1>3, <1>5 DEF GetVerb, GetBoundary, TakeCommand, sched, drains, engine
<1>6. CASE DropUnready
  <2>1. Live' = Live \ hand
    BY <1>6, EndedLive DEF DropUnready, Ends
  <2>2. Placed(InQueue, pq', acc', hand', bundle', InDrains, Live')
    BY <1>6, <2>1 DEF DropUnready, Homes, Placed
  <2> QED BY <1>2, <1>6, <2>2 DEF DropUnready, dispatcher, drains
<1>7. CASE EnqueueBusy
  <2>1. PICK t \in hand : Enqueue(t, pq, fate)
    BY <1>7 DEF EnqueueBusy
  <2>2. hand = {t} /\ t \in Turns
    BY <1>7, <2>1 DEF EnqueueBusy, HandsInv, EngineOK
  <2>3. Placed(InQueue, pq \cup {t}, acc, {}, bundle, InDrains, Live)
    BY <2>2 DEF Homes, Placed
  <2>4. Joins(t, pq, fate)
    BY <1>7, <2>1, <2>2, EnqueueEffect DEF EnqueueBusy, SchedOK
  <2>5. Live = {u \in Turns : fate[u] = "live"}
    BY DEF Live
  <2>6. Placed(InQueue, pq', acc', {}, bundle, InDrains, Live')
    BY <2>2, <2>3, <2>4, <2>5, JoinPlaces DEF SchedOK
  <2> QED BY <1>2, <1>7, <2>6 DEF EnqueueBusy, dispatcher, drains
<1>8. CASE Sweep
  <2>1. PICK old \in SUBSET pq : pq' = pq \ old /\ fate' = Ended(fate, old, "expired")
    BY <1>8 DEF Sweep, Expirable
  <2>2. Live' = Live \ old
    BY <2>1, EndedLive DEF Ends
  <2>3. Placed(InQueue, pq', acc, hand, bundle, InDrains, Live')
    BY <2>1, <2>2 DEF Homes, Placed
  <2> QED BY <1>2, <1>8, <2>3 DEF Sweep, dispatcher, drains
<1>9. CASE PopHead
  <2>1. PICK t \in pq : pq' = pq \ {t} /\ hand' = {t}
    BY <1>9 DEF PopHead, IsHead
  <2>2. Live' = Live /\ hand = {} /\ UNCHANGED <<acc, bundle, cq, dhand>>
    BY <1>9 DEF PopHead, HandsInv, Live, dispatcher, drains
  <2>3. Placed(InQueue, pq', acc', hand', bundle', InDrains, Live')
    BY <2>1, <2>2 DEF Homes, Placed
  <2> QED BY <1>2, <2>2, <2>3
<1>10. CASE FlushAccumulation
  <2>1. PICK old \in SUBSET acc : fate' = Ended(fate, old, "expired") /\ hand' = acc \ old
    BY <1>10 DEF FlushAccumulation
  <2>2. Live' = Live \ old
    BY <2>1, EndedLive DEF Ends
  <2>3. acc' = {} /\ hand = {} /\ UNCHANGED <<pq, bundle, cq, dhand>>
    BY <1>10 DEF FlushAccumulation, HandsInv, dispatcher, drains
  <2>4. Placed(InQueue, pq', acc', hand', bundle', InDrains, Live')
    BY <2>1, <2>2, <2>3 DEF Homes, Placed
  <2> QED BY <1>2, <2>3, <2>4
<1>11. CASE TakeBundle
  <2>1. PICK S \in SUBSET pq : bundle' = S /\ pq' = pq \ S
    BY <1>11 DEF TakeBundle, OwnerPrefixes, Owners
  <2>2. Live' = Live /\ bundle = {} /\ UNCHANGED <<acc, hand, cq, dhand>>
    BY <1>11 DEF TakeBundle, HandsInv, Live, dispatcher, drains
  <2>3. Placed(InQueue, pq', acc', hand', bundle', InDrains, Live')
    BY <2>1, <2>2 DEF Homes, Placed
  <2> QED BY <1>2, <2>2, <2>3
<1>12. CASE Answer
  <2>1. Live' = Live \ (hand \cup bundle)
    BY <1>12, EndedLive DEF Answer, Ends
  <2>2. Placed(InQueue, pq', acc', hand', bundle', InDrains, Live')
    BY <1>12, <2>1 DEF Answer, Homes, Placed
  <2> QED BY <1>2, <1>12, <2>2 DEF Answer, dispatcher, drains
<1>13. CASE GenerationFails
  <2>1. Live' = Live \ hand
    BY <1>13, EndedLive DEF GenerationFails, Ends
  <2>2. Placed(InQueue, pq', acc', hand', bundle', InDrains, Live')
    BY <1>13, <2>1 DEF GenerationFails, Requeued, Homes, Placed
  <2> QED BY <1>2, <1>13, <2>2 DEF GenerationFails, dispatcher, drains
<1>14. CASE DrainControl
  <2>1. UNCHANGED <<pq, acc, hand, bundle, dhand, fate>>
    BY <1>14 DEF DrainControl, sched, drains
  <2>2. CASE speech
    BY <1>1, <1>14, <2>1, <2>2 DEF DrainControl
  <2>3. CASE ~speech
    <3>1. PICK k \in 0..Len(cq) : (\A i \in 1..k : cq[i] = Verb) /\ cq' = SubSeq(cq, k + 1, Len(cq))
      BY <1>14, <2>3 DEF DrainControl
    <3>2. QueuedOnce' /\ InQueue' = InQueue
      BY <3>1, QueueWithoutVerbs DEF Homes
    <3>3. DrainsApart' /\ InDrains' = InDrains /\ Live' = Live
      BY <2>1 DEF Homes, DrainsApart, InDrains, Live
    <3> QED BY <2>1, <3>2, <3>3 DEF Homes
  <2> QED BY <2>2, <2>3
<1>15. CASE IdleTick \/ AnswerNow \/ ReadGate \/ PopBlocked
  BY <1>1, <1>15 DEF IdleTick, AnswerNow, ReadGate, PopBlocked, sched, dispatcher, drains
<1> QED
  BY <1>4, <1>5, <1>6, <1>7, <1>8, <1>9, <1>10, <1>11, <1>12, <1>13, <1>14, <1>15 DEF EngineStep

HomesInv == TypeOK /\ EngineDrains /\ HandsInv /\ Homes

LEMMA HomesInit == Init => HomesInv
<1> SUFFICES ASSUME Init PROVE HomesInv
  OBVIOUS
<1>1. TypeOK /\ EngineDrains /\ HandsInv
  BY InitTypes DEF Init, EngineDrains, HandsInv, Threads, Engine
<1>2. InQueue = {} /\ InDrains = {} /\ Live = {} /\ QueuedOnce /\ DrainsApart
  BY DEF Init, InitSched, InitDispatcher, InQueue, InDrains, Live, QueuedOnce, DrainsApart
<1>3. pq = {} /\ acc = {} /\ hand = {} /\ bundle = {}
  BY DEF Init, InitSched
<1> QED BY <1>1, <1>2, <1>3 DEF HomesInv, Homes, Placed

LEMMA HomesStep == HomesInv /\ [Next]_vars => HomesInv'
  BY TypeStep, HandsStep, HomesOutside, HomesEngine DEF HomesInv, Next

\* A turn that was accepted and has not ended is in exactly one place, however many
\* threads move turns between the queues and the hands.
THEOREM NoTurnLostOrDoubled == Spec => []EveryTurnOneHome
<1>1. HomesInv => EveryTurnOneHome
  BY DEF HomesInv, Homes, Placed, DrainsApart, QueuedOnce, EveryTurnOneHome
<1> QED
  BY <1>1, HomesInit, HomesStep, PTL DEF Spec

-----------------------------------------------------------------------------
(* The drains keep the order of the questions.  Turns are queued as commands in *)
(* the order they arrive, so a drain always takes a later one than every drain  *)
(* before it; the lock makes it enqueue that one before the next is taken, and  *)
(* the clock of the enqueue is later than every reading before it.              *)

New == {t \in Turns : fate[t] = "new"}

LockHeld == \A th \in Threads : dpc[th] \in {"loop", "enq"} => lock = th
ArrivedInOrder == \A t, u \in Turns : t < u /\ u \notin New => t \notin New
QueueSorted ==
  \A i, j \in 1..Len(cq) : i < j /\ cq[i] \in Turns /\ cq[j] \in Turns => cq[i] < cq[j]
DrainedEarlier ==
  /\ \A t \in drained : t \notin New
  /\ \A t \in drained, u \in InQueue : t < u
NotStamped ==
  /\ \A t \in New \cup InQueue \cup InDrains : ts[t] = 0
  /\ pc = "turn" => \A t \in hand : ts[t] = 0 /\ t \notin drained
ClockAhead == \A t \in Turns : ts[t] < Now
HandIsLatest ==
  /\ InDrains \subseteq drained
  /\ \A t \in InDrains, u \in drained : u <= t
  /\ \A t \in drained : t \in InDrains \/ ts[t] # 0

OrderInv ==
  /\ ArrivedInOrder /\ QueueSorted /\ DrainedEarlier /\ NotStamped /\ ClockAhead
  /\ HandIsLatest /\ DrainsKeepOrder

\* A drain holds the lock from its first pop to its last enqueue.
LEMMA LockStep == TypeOK /\ LockHeld /\ [Next]_vars => LockHeld'
<1> SUFFICES ASSUME TypeOK, LockHeld, [Next]_vars PROVE LockHeld'
  OBVIOUS
<1> USE DEF TypeOK, DrainsOK, LockHeld
<1>1. CASE Undrained
  BY <1>1 DEF Undrained, drains
<1>2. ASSUME NEW c \in Clients, Dispatch(c) \/ LeaveToEngine(c) PROVE LockHeld'
  BY <1>2 DEF Dispatch, LeaveToEngine
<1>3. ASSUME NEW th \in Threads, BeginDrain(th) PROVE LockHeld'
  <2>1. Nobody \notin Threads
    BY EngineAssumption DEF Nobody, Threads, Engine
  <2> QED BY <1>3, <2>1 DEF BeginDrain, DrainLockFree
<1>4. ASSUME NEW th \in Threads, DrainPop(th) PROVE LockHeld'
  BY <1>4 DEF DrainPop
<1>5. ASSUME NEW th \in Threads, DrainEnqueue(th) PROVE LockHeld'
  BY <1>5 DEF DrainEnqueue
<1>6. ASSUME NEW th \in Threads, EndDrain(th) PROVE LockHeld'
  BY <1>6 DEF EndDrain
<1> QED
  BY <1>1, <1>2, <1>3, <1>4, <1>5, <1>6, NotDrains DEF Next, Drain

\* Stamping a turn for the first time moves the clock on.
LEMMA ClockMoves ==
  ASSUME SchedOK, NEW t \in Turns, ts[t] = 0, ts' = [ts EXCEPT ![t] = Now]
  PROVE  Now' = Now + 1
<1> DEFINE stamped == {u \in Turns : ts[u] # 0}
<1>1. IsFiniteSet(stamped)
  <2>1. IsFiniteSet(Turns)
    BY FS_Interval
  <2> QED BY <2>1, FS_Subset
<1>2. stamped' = stamped \cup {t} /\ t \notin stamped
  BY NowType DEF SchedOK
<1>3. Cardinality(stamped \cup {t}) = Cardinality(stamped) + 1
  <2> HIDE DEF stamped
  <2> QED BY <1>1, <1>2, FS_AddElement
<1>4. Cardinality(stamped) \in Nat
  BY <1>1, FS_CardinalityType
<1> QED
  BY <1>2, <1>3, <1>4 DEF Now

\* Ending turns that are live leaves the new ones new.
LEMMA NewStays ==
  ASSUME SchedOK, NEW S, S \subseteq Live, NEW how \in Ends, fate' = Ended(fate, S, how)
  PROVE  New' = New
BY DEF New, Live, Ended, Ends, SchedOK

\* A join changes none of the turns that are new to f but its own.
LEMMA JoinNew ==
  ASSUME NEW t \in Turns, NEW q \in SUBSET Turns, NEW f \in [Turns -> Ends \cup {"new", "live"}],
         Joins(t, q, f), f[t] = "live", \A u \in q \cup acc : u \in Turns => f[u] = "live"
  PROVE  New' = {u \in Turns : f[u] = "new"}
BY DEF New, Joins, Ended, Ends

\* A turn is queued for the first time: if it comes from a drain, it is later than
\* all the drains have moved.
LEMMA OrderEnqueue ==
  ASSUME TypeOK, Homes, OrderInv, NEW t \in Turns, ts[t] = 0, ts' = [ts EXCEPT ![t] = Now],
         UNCHANGED <<cq, drained>>, t \notin InQueue, t \in drained => t \in InDrains,
         InDrains' = InDrains \ {t}, New' = New \ {t}, t \in New => Arrives(t),
         pc' = "turn" => pc = "turn" /\ hand' = hand /\ t \notin hand
  PROVE  OrderInv'
<1> USE DEF TypeOK, OrderInv
<1>0. /\ Now \in Nat \ {0} /\ Now' = Now + 1 /\ ts \in [Turns -> Nat]
      /\ ts'[t] = Now /\ \A u \in Turns \ {t} : ts'[u] = ts[u]
      /\ drained \subseteq Turns
  BY NowType, ClockMoves DEF SchedOK, DrainsOK
<1>1. ArrivedInOrder'
  BY DEF ArrivedInOrder, Arrives, New
<1>2. QueueSorted' /\ InQueue' = InQueue
  BY DEF QueueSorted, InQueue
<1>3. DrainedEarlier'
  BY <1>2 DEF DrainedEarlier
<1>4. NotStamped'
  <2>1. InQueue \subseteq Turns /\ New \subseteq Turns /\ InDrains \subseteq Turns /\ hand \subseteq Turns
    BY DEF InQueue, New, InDrains, DrainsOK, EngineOK
  <2> QED BY <1>0, <1>2, <2>1 DEF NotStamped
<1>5. ClockAhead'
  BY <1>0 DEF ClockAhead
<1>6. HandIsLatest'
  BY <1>0 DEF HandIsLatest
<1>7. DrainsKeepOrder'
  <2> SUFFICES ASSUME NEW a \in drained, NEW b \in drained, a < b, ts'[b] # 0
               PROVE  ts'[a] # 0 /\ ts'[a] < ts'[b]
    BY DEF DrainsKeepOrder
  <2>1. CASE b = t
    <3>1. a \notin InDrains
      BY <1>0, <2>1 DEF HandIsLatest
    <3>2. ts[a] # 0 /\ a # t
      BY <1>0, <2>1, <3>1 DEF HandIsLatest
    <3> QED BY <1>0, <2>1, <3>2 DEF ClockAhead
  <2>2. CASE a = t
    BY <1>0, <2>2 DEF HandIsLatest
  <2>3. CASE a # t /\ b # t
    BY <1>0, <2>3 DEF DrainsKeepOrder
  <2> QED BY <2>1, <2>2, <2>3
<1> QED BY <1>1, <1>2, <1>3, <1>4, <1>5, <1>6, <1>7

\* Steps that touch neither the command queue, the timestamps nor the drains.
LEMMA OrderElsewhere ==
  ASSUME OrderInv, UNCHANGED <<cq, ts, drained, dhand>>, New' = New,
         pc' = "turn" => pc = "turn" /\ hand' = hand
  PROVE  OrderInv'
<1>1. InQueue' = InQueue /\ InDrains' = InDrains /\ Now' = Now
  BY DEF InQueue, InDrains, Now
<1> QED
  BY <1>1
  DEF OrderInv, ArrivedInOrder, QueueSorted, DrainedEarlier, NotStamped, ClockAhead, HandIsLatest,
      DrainsKeepOrder

\* A command joins the queue; if it is a turn, it is the newest.
LEMMA OrderAppend ==
  ASSUME TypeOK, Homes, OrderInv, NEW x \in Turns \cup {Verb, Boundary}, cq' = Append(cq, x),
         UNCHANGED <<ts, drained, dhand, pc, hand>>,
         New' = New \ {x}, x \in Turns => x \in New /\ Arrives(x)
  PROVE  OrderInv'
<1> USE DEF TypeOK, OrderInv
<1>0. InQueue \subseteq Live /\ InQueue \subseteq Turns /\ InQueue \cap New = {} /\ New \subseteq Turns
  BY DEF Homes, Placed, New, Live
<1>1. InQueue' = InQueue \cup ({x} \cap Turns)
  <2>1. x \notin InQueue
    BY <1>0
  <2> QED BY <2>1, QueueAppend DEF Homes
<1>2. InDrains' = InDrains /\ Now' = Now
  BY DEF InDrains, Now
<1>3. \A t \in Turns \ New : x \in Turns => t < x
  BY <1>0 DEF ArrivedInOrder
<1>4. ArrivedInOrder'
  BY DEF ArrivedInOrder, Arrives, New
<1>5. QueueSorted'
  <2>1. /\ Len(cq) \in Nat /\ Len(cq') = Len(cq) + 1 /\ cq'[Len(cq')] = x
        /\ \A i \in 1..Len(cq) : cq'[i] = cq[i]
    BY DEF DispatcherOK
  <2>2. \A i \in 1..Len(cq) : cq[i] \in Turns => cq[i] \in Turns \ New
    BY <1>0 DEF InQueue
  <2> QED BY <1>3, <2>1, <2>2 DEF QueueSorted
<1>6. DrainedEarlier'
  <2>1. drained \subseteq Turns
    BY DEF DrainsOK
  <2> QED BY <1>1, <1>3, <2>1 DEF DrainedEarlier
<1>7. NotStamped'
  BY <1>1, <1>2 DEF NotStamped
<1>8. ClockAhead' /\ HandIsLatest' /\ DrainsKeepOrder'
  BY <1>2 DEF ClockAhead, HandIsLatest, DrainsKeepOrder
<1> QED BY <1>4, <1>5, <1>6, <1>7, <1>8

\* Commands leave the queue at its front.
LEMMA OrderTail ==
  ASSUME TypeOK, QueueSorted, cq # <<>>, cq' = Tail(cq)
  PROVE  QueueSorted' /\ (Head(cq) \in Turns => \A t \in InQueue' : Head(cq) < t)
<1> USE DEF TypeOK, DispatcherOK
<1>1. /\ Len(cq) \in Nat \ {0} /\ Head(cq) = cq[1]
      /\ Len(cq') = Len(cq) - 1 /\ \A i \in 1..Len(cq') : cq'[i] = cq[i + 1]
  OBVIOUS
<1>2. QueueSorted'
  <2> SUFFICES ASSUME NEW i \in 1..Len(cq'), NEW j \in 1..Len(cq'), i < j, cq'[i] \in Turns, cq'[j] \in Turns
               PROVE  cq'[i] < cq'[j]
    BY DEF QueueSorted
  <2>1. i + 1 \in 1..Len(cq) /\ j + 1 \in 1..Len(cq) /\ i + 1 < j + 1
    BY <1>1
  <2> QED BY <1>1, <2>1 DEF QueueSorted
<1>3. ASSUME Head(cq) \in Turns, NEW t \in InQueue' PROVE Head(cq) < t
  <2>1. PICK i \in 1..Len(cq') : cq'[i] = t
    BY DEF InQueue
  <2>2. t \in Turns
    BY DEF InQueue
  <2>3. i + 1 \in 1..Len(cq) /\ 1 < i + 1 /\ cq[i + 1] = t /\ 1 \in 1..Len(cq)
    BY <1>1, <2>1
  <2> QED BY <1>1, <1>3, <2>2, <2>3 DEF QueueSorted
<1> QED BY <1>2, <1>3

\* A turn leaves the command queue for the engine's hand.
LEMMA OrderGet == TypeOK /\ Homes /\ OrderInv /\ GetTurn => OrderInv'
<1> SUFFICES ASSUME TypeOK, Homes, OrderInv, GetTurn PROVE OrderInv'
  OBVIOUS
<1> USE DEF TypeOK, OrderInv
<1>1. /\ cq # <<>> /\ cq' = Tail(cq) /\ Head(cq) \in Turns /\ hand' = {Head(cq)}
      /\ UNCHANGED <<ts, drained, dhand, fate>>
  BY DEF GetTurn, TakeCommand, sched, drains
<1>2. QueueSorted' /\ Head(cq) \in InQueue /\ InQueue' \subseteq InQueue
  BY <1>1, OrderTail, QueueTail DEF Homes
<1>3. InDrains' = InDrains /\ Now' = Now /\ New' = New
  BY <1>1 DEF InDrains, Now, New
<1>4. Head(cq) \notin drained
  BY <1>1, <1>2 DEF DrainedEarlier
<1>5. NotStamped'
  BY <1>1, <1>2, <1>3, <1>4 DEF NotStamped
<1>6. DrainedEarlier' /\ ArrivedInOrder'
  BY <1>1, <1>2, <1>3 DEF DrainedEarlier, ArrivedInOrder
<1>7. ClockAhead' /\ HandIsLatest' /\ DrainsKeepOrder'
  BY <1>1, <1>3 DEF ClockAhead, HandIsLatest, DrainsKeepOrder
<1> QED BY <1>2, <1>5, <1>6, <1>7

\* A turn leaves the command queue for the only drain under way.
LEMMA OrderPop ==
  ASSUME TypeOK, HandsInv, LockHeld, Homes, OrderInv, NEW th \in Threads, DrainPop(th)
  PROVE  OrderInv'
<1> USE DEF TypeOK, OrderInv
<1> DEFINE h == Head(cq)
<1>1. /\ cq # <<>> /\ cq' = Tail(cq) /\ h \in Turns
      /\ dhand' = [dhand EXCEPT ![th] = {h}] /\ drained' = drained \cup {h}
      /\ UNCHANGED <<ts, fate, pc, hand>>
  BY DEF DrainPop, sched, engine
<1>2. QueuedOnce' /\ QueueSorted' /\ h \in InQueue /\ InQueue' = InQueue \ {h} /\ \A t \in InQueue' : h < t
  BY <1>1, OrderTail, QueueTail DEF Homes
<1>3. \A tg \in Threads : dhand[tg] = {}
  BY DEF LockHeld, HandsInv, DrainPop
<1>4. InDrains = {}
  BY <1>3 DEF InDrains
<1>5. InDrains' = {h}
  <2>1. h \in Turns /\ dhand' = [dhand EXCEPT ![th] = {h}] /\ dhand[th] = {}
    BY <1>1, <1>3
  <2> HIDE DEF h
  <2>2. {h} \in SUBSET Turns /\ {h} \cap InDrains = {}
    BY <1>4, <2>1
  <2>3. InDrains' = (InDrains \ dhand[th]) \cup {h}
    BY <2>1, <2>2, DrainHand DEF Homes
  <2> QED BY <1>4, <2>3
<1>6. Now' = Now /\ New' = New /\ drained \subseteq Turns
  BY <1>1 DEF Now, New, DrainsOK
<1>7. h \notin New /\ h \notin hand
  BY <1>2 DEF Homes, Placed, Live, New
<1> HIDE DEF h
<1>8. DrainedEarlier' /\ ArrivedInOrder'
  BY <1>1, <1>2, <1>6, <1>7 DEF DrainedEarlier, ArrivedInOrder
<1>9. NotStamped'
  BY <1>1, <1>2, <1>5, <1>6, <1>7 DEF NotStamped
<1>10. HandIsLatest' /\ ClockAhead'
  BY <1>1, <1>2, <1>4, <1>5, <1>6 DEF HandIsLatest, ClockAhead, DrainedEarlier
<1>11. DrainsKeepOrder'
  <2> SUFFICES ASSUME NEW a \in drained', NEW b \in drained', a < b, ts'[b] # 0
               PROVE  ts'[a] # 0 /\ ts'[a] < ts'[b]
    BY DEF DrainsKeepOrder
  <2>1. b # h /\ b \in drained
    BY <1>1, <1>2 DEF NotStamped
  <2>2. a # h /\ a \in drained
    BY <1>1, <1>2, <1>6, <2>1 DEF DrainedEarlier
  <2> QED BY <1>1, <2>1, <2>2 DEF DrainsKeepOrder
<1> QED BY <1>2, <1>8, <1>9, <1>10, <1>11

LEMMA OrderOutside ==
  ASSUME TypeOK, HandsInv, LockHeld, Homes, OrderInv,
         \/ \E c \in Clients : Dispatch(c) \/ LeaveToEngine(c)
         \/ \E th \in Threads : Drain(th)
         \/ PostVerb \/ ViewersAndAgenda \/ NoticeSpeaks \/ SpeechEnds \/ PostBoundary
         \/ UNCHANGED vars
  PROVE  OrderInv'
<1> USE DEF TypeOK
<1>1. ASSUME UNCHANGED <<cq, ts, drained, dhand, fate, pc, hand>> PROVE OrderInv'
  BY <1>1, OrderElsewhere DEF New
<1>2. ASSUME NEW c \in Clients, Dispatch(c) PROVE OrderInv'
  <2>1. UNCHANGED <<drained, dhand, pc, hand>>
    BY <1>2 DEF Dispatch, engine
  <2>2. ASSUME NEW t \in Turns, NEW k, NEW old, Accept(t, k, old) PROVE OrderInv'
    <3>1. cq' = Append(cq, t) /\ ts' = ts /\ fate' = [fate EXCEPT ![t] = "live"] /\ Arrives(t)
      BY <2>2 DEF Accept
    <3>2. New' = New \ {t} /\ t \in New
      BY <3>1 DEF New, SchedOK, Arrives
    <3> QED BY <2>1, <3>1, <3>2, OrderAppend
  <2> QED BY <1>1, <1>2, <2>1, <2>2 DEF Dispatch, Replay, sched
<1>3. CASE PostVerb \/ PostBoundary
  <2>1. PICK x \in {Verb, Boundary} : cq' = Append(cq, x)
    BY <1>3 DEF PostVerb, AcceptVerb, PostBoundary
  <2>2. UNCHANGED <<ts, drained, dhand, pc, hand, fate>>
    BY <1>3 DEF PostVerb, AcceptVerb, PostBoundary, sched, drains, engine
  <2>3. x \notin Turns /\ New' = New \ {x}
    BY <2>2 DEF New
  <2> QED BY <2>1, <2>2, <2>3, OrderAppend
<1>4. CASE ViewersAndAgenda
  <2>0. UNCHANGED <<cq, drained, dhand, pc, hand>>
    BY <1>4 DEF ViewersAndAgenda, dispatcher, drains, engine
  <2>1. ASSUME NEW t \in Turns, Arrives(t), NEW old \in SUBSET pq,
               NEW f, f = [Ended(fate, old, "discarded") EXCEPT ![t] = "live"],
               Enqueue(t, pq \ old, f)
        PROVE  OrderInv'
    <3>1. f \in [Turns -> Ends \cup {"new", "live"}] /\ pq \ old \in SUBSET Turns
      BY <2>1 DEF SchedOK, Ended, Ends
    <3>2. old \subseteq Live /\ pq \cup acc \subseteq Live
      BY DEF Homes, Placed
    <3>3. f[t] = "live" /\ \A u \in (pq \ old) \cup acc : u \in Turns => f[u] = "live"
      BY <2>1, <3>2 DEF Homes, Placed, Live, Ended, SchedOK
    <3>4. {u \in Turns : f[u] = "new"} = New \ {t}
      BY <2>1, <3>2 DEF New, Live, Ended, SchedOK
    <3>5. ts' = [ts EXCEPT ![t] = Now] /\ Joins(t, pq \ old, f)
      BY <2>1, <3>1, EnqueueEffect
    <3>6. New' = New \ {t}
      BY <3>1, <3>3, <3>4, <3>5, JoinNew
    <3>7. t \in New
      BY <2>1 DEF Arrives, New
    <3>8. t \notin Live /\ t \notin drained /\ ts[t] = 0
      BY <3>7 DEF OrderInv, DrainedEarlier, NotStamped, New, Live
    <3>9. t \notin InQueue /\ t \notin hand /\ InDrains' = InDrains /\ t \notin InDrains
      BY <2>0, <3>8 DEF Homes, Placed, InDrains
    <3> HIDE DEF New
    <3> QED BY <2>0, <2>1, <3>5, <3>6, <3>8, <3>9, OrderEnqueue
  <2>2. ASSUME NEW t \in Turns, EnqueueChat(t) PROVE OrderInv'
    <3>1. fate = Ended(fate, {}, "discarded") /\ pq \ {} = pq
      BY DEF Ended, SchedOK
    <3>2. Arrives(t) /\ Enqueue(t, pq \ {}, [Ended(fate, {}, "discarded") EXCEPT ![t] = "live"])
      BY <2>2, <3>1 DEF EnqueueChat
    <3> QED BY <2>1, <3>2
  <2>3. ASSUME NEW t \in Turns, ReplacePending(t) PROVE OrderInv'
    BY <2>1, <2>3 DEF ReplacePending
  <2>4. ASSUME NEW src, DropPending(src) PROVE OrderInv'
    <3>1. PICK gone \in SUBSET (pq \cup acc) : fate' = Ended(fate, gone, "discarded")
      BY <2>4 DEF DropPending
    <3>2. gone \subseteq Live
      BY <3>1 DEF Homes, Placed
    <3>3. New' = New /\ ts' = ts
      BY <2>4, <3>1, <3>2, NewStays DEF DropPending, Ends
    <3> QED BY <2>0, <3>3, OrderElsewhere
  <2> QED BY <1>4, <2>2, <2>3, <2>4 DEF ViewersAndAgenda
<1>5. ASSUME NEW th \in Threads, DrainEnqueue(th) PROVE OrderInv'
  <2>1. PICK t \in dhand[th] : Enqueue(t, pq, fate)
    BY <1>5 DEF DrainEnqueue
  <2>2. dhand[th] = {t} /\ t \in Turns
    BY <1>5, <2>1 DEF DrainEnqueue, HandsInv, DrainsOK
  <2>3. dhand' = [dhand EXCEPT ![th] = {}] /\ UNCHANGED <<cq, hand, pc, drained>>
    BY <1>5 DEF DrainEnqueue, dispatcher, engine
  <2>4. t \in InDrains /\ InDrains' = InDrains \ {t}
    <3>1. {} \in SUBSET Turns /\ {} \cap InDrains = {}
      OBVIOUS
    <3>2. dhand[th] \subseteq InDrains /\ InDrains' = (InDrains \ dhand[th]) \cup {}
      BY <2>3, <3>1, DrainHand DEF Homes
    <3> QED BY <2>2, <3>2
  <2>5. ts' = [ts EXCEPT ![t] = Now] /\ Joins(t, pq, fate)
    BY <2>1, <2>2, EnqueueEffect DEF SchedOK
  <2>6. /\ t \in Live /\ t \notin InQueue /\ t \notin hand
        /\ \A u \in pq \cup acc : u \in Live
    BY <2>4 DEF Homes, Placed
  <2>7. New' = New \ {t} /\ t \notin New
    <3>1. fate[t] = "live" /\ \A u \in pq \cup acc : u \in Turns => fate[u] = "live"
      BY <2>6 DEF Live
    <3>2. New' = {u \in Turns : fate[u] = "new"}
      BY <2>2, <2>5, <3>1, JoinNew DEF SchedOK
    <3> QED BY <3>1, <3>2 DEF New
  <2>8. ts[t] = 0
    BY <2>4 DEF OrderInv, NotStamped
  <2> QED BY <2>2, <2>3, <2>4, <2>5, <2>6, <2>7, <2>8, OrderEnqueue
<1>6. ASSUME NEW th \in Threads, BeginDrain(th) PROVE OrderInv'
  BY <1>1, <1>6 DEF BeginDrain, sched, dispatcher, engine
<1>7. ASSUME NEW th \in Threads, EndDrain(th) PROVE OrderInv'
  <2>1. pc' = "turn" => pc = "turn"
    BY <1>7 DEF EndDrain, EngineOK
  <2>2. UNCHANGED <<cq, ts, drained, dhand, fate, hand>>
    BY <1>7 DEF EndDrain, sched, dispatcher
  <2> QED BY <2>1, <2>2, OrderElsewhere DEF New
<1>8. ASSUME NEW c \in Clients, LeaveToEngine(c) PROVE OrderInv'
  BY <1>1, <1>8 DEF LeaveToEngine, sched, dispatcher, engine
<1>9. CASE NoticeSpeaks \/ SpeechEnds \/ UNCHANGED vars
  BY <1>1, <1>9 DEF NoticeSpeaks, SpeechEnds, vars, sched, dispatcher, engine, drains
<1> QED
  BY <1>2, <1>3, <1>4, <1>5, <1>6, <1>7, <1>8, <1>9, OrderPop DEF Drain

LEMMA OrderEngine == TypeOK /\ HandsInv /\ Homes /\ OrderInv /\ EngineStep => OrderInv'
<1> SUFFICES ASSUME TypeOK, HandsInv, Homes, OrderInv, EngineStep PROVE OrderInv'
  OBVIOUS
<1> USE DEF TypeOK
<1>1. ASSUME UNCHANGED <<cq, ts, drained, dhand>>, pc' # "turn", NEW S, S \subseteq Live,
             NEW how \in Ends, fate' = Ended(fate, S, how)
      PROVE  OrderInv'
  BY <1>1, NewStays, OrderElsewhere
<1>2. ASSUME UNCHANGED <<cq, ts, drained, dhand, fate>>, pc' # "turn" PROVE OrderInv'
  BY <1>2, OrderElsewhere DEF New
<1>3. hand \cup bundle \cup pq \cup acc \subseteq Live
  BY DEF Homes, Placed
<1>4. CASE GetVerb \/ GetBoundary
  <2>1. /\ cq # <<>> /\ cq' = Tail(cq) /\ Head(cq) \notin Turns /\ pc' # "turn"
        /\ UNCHANGED <<ts, drained, dhand, fate>>
    BY <1>4 DEF GetVerb, GetBoundary, TakeCommand, Goto, sched, drains, engine
  <2>2. QueueSorted' /\ InQueue' \subseteq InQueue
    BY <2>1, OrderTail, QueueTail DEF Homes, OrderInv
  <2>3. InDrains' = InDrains /\ Now' = Now /\ New' = New
    BY <2>1 DEF InDrains, Now, New
  <2> QED
    BY <2>1, <2>2, <2>3
    DEF OrderInv, ArrivedInOrder, DrainedEarlier, NotStamped, ClockAhead, HandIsLatest, DrainsKeepOrder
<1>5. CASE DrainControl
  <2>1. UNCHANGED <<ts, drained, dhand, fate>> /\ pc' # "turn"
    BY <1>5 DEF DrainControl, Goto, AfterControl, sched, drains
  <2>2. CASE speech
    BY <1>2, <1>5, <2>1, <2>2 DEF DrainControl
  <2>3. CASE ~speech
    <3>1. PICK k \in 0..Len(cq) : (\A i \in 1..k : cq[i] = Verb) /\ cq' = SubSeq(cq, k + 1, Len(cq))
      BY <1>5, <2>3 DEF DrainControl
    <3>2. InQueue' = InQueue
      BY <3>1, QueueWithoutVerbs DEF Homes
    <3>3. QueueSorted'
      <4>1. Len(cq) \in Nat /\ Len(cq') = Len(cq) - k /\ \A i \in 1..Len(cq') : cq'[i] = cq[i + k]
        BY <3>1 DEF DispatcherOK
      <4>2. ASSUME NEW i \in 1..Len(cq'), NEW j \in 1..Len(cq'), i < j PROVE
              /\ i + k \in 1..Len(cq) /\ j + k \in 1..Len(cq) /\ i + k < j + k
              /\ cq'[i] = cq[i + k] /\ cq'[j] = cq[j + k]
        BY <3>1, <4>1, <4>2
      <4>3. QueueSorted
        BY DEF OrderInv
      <4> QED BY <4>2, <4>3 DEF QueueSorted
    <3>4. InDrains' = InDrains /\ Now' = Now /\ New' = New
      BY <2>1 DEF InDrains, Now, New
    <3> QED
      BY <2>1, <3>2, <3>3, <3>4
      DEF OrderInv, ArrivedInOrder, DrainedEarlier, NotStamped, ClockAhead, HandIsLatest, DrainsKeepOrder
  <2> QED BY <2>2, <2>3
<1>6. CASE EnqueueBusy
  <2>1. PICK t \in hand : Enqueue(t, pq, fate)
    BY <1>6 DEF EnqueueBusy
  <2>2. t \in Turns /\ pc = "turn" /\ pc' # "turn" /\ UNCHANGED <<source, cq, drained, dhand>>
    BY <1>6, <2>1 DEF EnqueueBusy, EngineOK, Goto, dispatcher, drains
  <2>3. t \in Live /\ t \notin InQueue /\ t \notin InDrains /\ ts[t] = 0 /\ t \notin drained
    BY <2>1, <2>2 DEF Homes, Placed, OrderInv, NotStamped
  <2>4. ts' = [ts EXCEPT ![t] = Now] /\ Joins(t, pq, fate)
    BY <2>1, <2>2, EnqueueEffect DEF SchedOK
  <2>5. New' = New \ {t} /\ t \notin New
    <3>1. fate[t] = "live" /\ \A u \in pq \cup acc : u \in Turns => fate[u] = "live"
      BY <1>3, <2>3 DEF Live
    <3>2. New' = {u \in Turns : fate[u] = "new"}
      BY <2>2, <2>4, <3>1, JoinNew DEF SchedOK
    <3> QED BY <3>1, <3>2 DEF New
  <2>6. InDrains' = InDrains
    BY <2>2 DEF InDrains
  <2> QED BY <2>2, <2>3, <2>4, <2>5, <2>6, OrderEnqueue
<1>7. CASE DropUnready
  BY <1>1, <1>3, <1>7 DEF DropUnready, Goto, Ends, dispatcher, drains
<1>8. CASE Answer \/ GenerationFails
  BY <1>1, <1>3, <1>8 DEF Answer, GenerationFails, Goto, Ends, dispatcher, drains
<1>9. CASE Sweep
  <2>1. PICK old \in SUBSET pq : fate' = Ended(fate, old, "expired")
    BY <1>9 DEF Sweep, Expirable
  <2> QED BY <1>1, <1>3, <1>9, <2>1 DEF Sweep, Goto, Ends, dispatcher, drains
<1>10. CASE FlushAccumulation
  <2>1. PICK old \in SUBSET acc : fate' = Ended(fate, old, "expired")
    BY <1>10 DEF FlushAccumulation
  <2> QED BY <1>1, <1>3, <1>10, <2>1 DEF FlushAccumulation, Goto, Ends, dispatcher, drains
<1>11. CASE IdleTick \/ AnswerNow \/ ReadGate \/ PopHead \/ PopBlocked \/ TakeBundle
  BY <1>2, <1>11
  DEF IdleTick, AnswerNow, ReadGate, PopHead, PopBlocked, TakeBundle, Goto, sched, dispatcher, drains
<1> QED
  BY <1>4, <1>5, <1>6, <1>7, <1>8, <1>9, <1>10, <1>11, OrderGet DEF EngineStep

LEMMA InitOrder == Init => LockHeld /\ OrderInv
<1> SUFFICES ASSUME Init PROVE LockHeld /\ OrderInv
  OBVIOUS
<1>1. LockHeld
  BY DEF Init, LockHeld
<1>2. InQueue = {} /\ InDrains = {} /\ New = Turns /\ drained = {}
  BY DEF Init, InitSched, InitDispatcher, InQueue, InDrains, New
<1>3. ClockAhead
  BY NowType DEF Init, InitSched, ClockAhead
<1> QED
  BY <1>1, <1>2, <1>3
  DEF Init, InitSched, InitDispatcher, OrderInv, ArrivedInOrder, QueueSorted, DrainedEarlier,
      NotStamped, HandIsLatest, DrainsKeepOrder

LEMMA OrderStep == HomesInv /\ LockHeld /\ OrderInv /\ [Next]_vars => LockHeld' /\ OrderInv'
  BY LockStep, OrderOutside, OrderEngine DEF HomesInv, Next

\* Owner questions that drains move are queued in the order they were asked,
\* however many threads drain.
THEOREM DrainsKeepTheOrder == Spec => []DrainsKeepOrder
<1>1. OrderInv => DrainsKeepOrder
  BY DEF OrderInv
<1> QED
  BY <1>1, HomesInit, HomesStep, InitOrder, OrderStep, PTL DEF Spec

-----------------------------------------------------------------------------
(* A key is dispatched again only once its entry is gone.  The turns whose keys *)
(* are still on record are those the cache holds and, once it is full, older    *)
(* ones that were evicted.                                                      *)

Keyed(k) == {t \in Turns : k[t] # NoKey}

FiredOnce(k) ==
  \A t, u \in Turns :
    t < u /\ k[t] = k[u] /\ k[t] # NoKey
      => Cardinality({v \in (t + 1)..(u - 1) : k[v] # NoKey}) >= CacheCap

\* The cache c and the keys k on record.
Remembers(k, c) ==
  /\ c \subseteq Keyed(k) /\ Cardinality(c) <= CacheCap
  /\ \A t \in Keyed(k) \ c : Cardinality(c) = CacheCap /\ \A u \in c : t < u
  /\ FiredOnce(k)

\* The recorded turns have arrived.
KeysInv == Remembers(key, cache) /\ Keyed(key) \cap New = {}

LEMMA HasLeast ==
  ASSUME NEW S, S \subseteq Nat, S # {}
  PROVE  \E x \in S : \A y \in S : x <= y
<1>1. \E x \in S : \A y \in S : ~ (<<y, x>> \in OpToRel(<, Nat))
  BY NatLessThanWellFounded, WFMin
<1>2. \A x, y \in S : y < x => <<y, x>> \in OpToRel(<, Nat)
  BY DEF OpToRel
<1>3. \E x \in S : \A y \in S : ~ (y < x)
  BY <1>1, <1>2, Zenon
<1> QED BY <1>3

LEMMA SomeTurns ==
  ASSUME NEW S \in SUBSET Turns
  PROVE  IsFiniteSet(S) /\ Cardinality(S) \in Nat
<1>1. IsFiniteSet(Turns)
  BY FS_Interval
<1> QED BY <1>1, FS_Subset, FS_CardinalityType

\* Eviction makes room for one turn and takes only the oldest.
LEMMA RoomForOne ==
  ASSUME NEW c \in SUBSET Turns, Cardinality(c) <= CacheCap
  PROVE  /\ Room(c) \subseteq c /\ Cardinality(Room(c)) <= CacheCap - 1
         /\ \A t \in c \ Room(c), u \in Room(c) : t < u
         /\ c # Room(c) => Cardinality(Room(c)) = CacheCap - 1
<1> USE DispatcherAssumption
<1>0. IsFiniteSet(c) /\ Cardinality(c) \in Nat
  BY SomeTurns
<1>1. CASE Cardinality(c) < CacheCap
  BY <1>0, <1>1 DEF Room
<1>2. CASE Cardinality(c) = CacheCap
  <2>1. c # {} /\ c \subseteq Nat
    BY <1>2, FS_EmptySet
  <2>2. PICK m \in c : \A y \in c : m <= y
    BY <2>1, HasLeast
  <2>3. Room(c) = c \ {m}
    <3>1. Room(c) = {t \in c : \E u \in c : u < t}
      BY <1>2 DEF Room
    <3>2. \A t \in c : (\E u \in c : u < t) <=> t # m
      BY <2>2
    <3> QED BY <3>1, <3>2
  <2>4. Cardinality(Room(c)) = CacheCap - 1
    BY <1>0, <1>2, <2>3, FS_RemoveElement
  <2>5. \A t \in c \ Room(c), u \in Room(c) : t < u
    <3>1. \A t \in c \ Room(c) : t = m
      BY <2>3
    <3>2. \A u \in Room(c) : u \in Nat /\ m <= u /\ m # u
      BY <2>1, <2>2, <2>3
    <3>3. m \in Nat
      BY <2>1
    <3> QED BY <3>1, <3>2, <3>3
  <2> HIDE DEF Turns
  <2> QED BY <2>3, <2>4, <2>5
<1> QED BY <1>0, <1>1, <1>2

\* Entries expire oldest first, and with them what was evicted before.
LEMMA ForgetKeeps ==
  ASSUME TypeOK, Remembers(key, cache), NEW old \in Expiries
  PROVE  /\ Remembers(Forgotten(old), cache \ old)
         /\ Keyed(Forgotten(old)) \subseteq Keyed(key)
<1> DEFINE k == Forgotten(old)
<1>1. /\ old \subseteq cache /\ cache \subseteq Turns
      /\ \A t \in old, u \in cache \ old : t < u
  BY DEF Expiries, TypeOK, DispatcherOK
<1>2. \A t \in Turns : k[t] = IF \E u \in old : t <= u THEN NoKey ELSE key[t]
  BY DEF Forgotten
<1> HIDE DEF k
<1>3. Keyed(k) \subseteq Keyed(key)
  BY <1>2 DEF Keyed
<1>4. cache \ old \subseteq Keyed(k)
  BY <1>1, <1>2 DEF Remembers, Keyed
<1>5. Cardinality(cache \ old) <= CacheCap
  <2>1. cache \ old \in SUBSET cache /\ cache \in SUBSET Turns /\ cache \ old \in SUBSET Turns
    BY <1>1
  <2>2. Cardinality(cache \ old) <= Cardinality(cache)
    BY <2>1, SomeTurns, FS_Subset
  <2> QED BY <2>1, <2>2, SomeTurns, DispatcherAssumption DEF Remembers
<1>6. ASSUME NEW t \in Keyed(k) \ (cache \ old)
      PROVE  Cardinality(cache \ old) = CacheCap /\ \A u \in cache \ old : t < u
  <2>1. t \in Turns /\ t \notin old /\ \A u \in old : u < t
    BY <1>1, <1>2 DEF Keyed
  <2>2. t \in Keyed(key) \ cache
    BY <1>3, <2>1
  <2>3. old = {}
    BY <1>1, <2>1, <2>2 DEF Remembers
  <2>4. cache \ old = cache
    BY <2>3
  <2> QED BY <2>2, <2>4 DEF Remembers
<1>7. FiredOnce(k)
  <2> SUFFICES ASSUME NEW t \in Turns, NEW u \in Turns, t < u, k[t] = k[u], k[t] # NoKey
               PROVE  Cardinality({v \in (t + 1)..(u - 1) : k[v] # NoKey}) >= CacheCap
    BY DEF FiredOnce
  <2>1. \A v \in t..u : k[v] = key[v]
    BY <1>1, <1>2
  <2>2. key[t] = key[u] /\ key[t] # NoKey
    BY <2>1
  <2>3. {v \in (t + 1)..(u - 1) : k[v] # NoKey} = {v \in (t + 1)..(u - 1) : key[v] # NoKey}
    BY <2>1
  <2> QED BY <2>2, <2>3 DEF Remembers, FiredOnce
<1> QED BY <1>3, <1>4, <1>5, <1>6, <1>7 DEF Remembers, k

\* A turn later than all on record is recorded with a key the cache does not hold.
LEMMA RecordKeeps ==
  ASSUME NEW k \in [Turns -> Nat], NEW c, Remembers(k, c),
         NEW t \in Turns, NEW x \in Nat \ {NoKey},
         \A u \in Keyed(k) : u < t, \A u \in c : k[u] # x
  PROVE  Remembers([k EXCEPT ![t] = x], Room(c) \cup {t})
<1> DEFINE k2 == [k EXCEPT ![t] = x]
<1> USE DispatcherAssumption
<1>0. c \subseteq Turns /\ Keyed(k) \subseteq Turns /\ c \subseteq Keyed(k)
  BY DEF Remembers, Keyed
<1>1. /\ Room(c) \subseteq c /\ Cardinality(Room(c)) <= CacheCap - 1
      /\ \A a \in c \ Room(c), b \in Room(c) : a < b
      /\ c # Room(c) => Cardinality(Room(c)) = CacheCap - 1
  BY <1>0, RoomForOne DEF Remembers
<1>2. k2[t] = x /\ \A u \in Turns \ {t} : k2[u] = k[u]
  OBVIOUS
<1> HIDE DEF k2
<1>3. Keyed(k2) = Keyed(k) \cup {t} /\ t \notin Keyed(k)
  BY <1>0, <1>2 DEF Keyed
<1>4. Cardinality(Room(c) \cup {t}) = Cardinality(Room(c)) + 1 /\ Cardinality(Room(c)) \in Nat
  <2>1. Room(c) \in SUBSET Turns /\ t \notin Room(c)
    BY <1>0, <1>1, <1>3
  <2> QED BY <2>1, SomeTurns, FS_AddElement
<1>5. ASSUME NEW u \in Keyed(k2) \ (Room(c) \cup {t})
      PROVE  Cardinality(Room(c) \cup {t}) = CacheCap /\ \A v \in Room(c) \cup {t} : u < v
  <2>1. u \in Keyed(k)
    BY <1>3
  <2>2. CASE u \in c
    BY <1>1, <1>4, <2>1, <2>2
  <2>3. CASE u \notin c
    <3>1. Cardinality(c) = CacheCap /\ \A v \in c : u < v
      BY <2>1, <2>3 DEF Remembers
    <3>2. c # Room(c)
      BY <1>1, <1>4, <3>1
    <3> QED BY <1>1, <1>4, <2>1, <3>1, <3>2
  <2> QED BY <2>2, <2>3
<1>6. FiredOnce(k2)
  <2> SUFFICES ASSUME NEW a \in Turns, NEW b \in Turns, a < b, k2[a] = k2[b], k2[a] # NoKey
               PROVE  Cardinality({v \in (a + 1)..(b - 1) : k2[v] # NoKey}) >= CacheCap
    BY DEF FiredOnce
  <2>1. a \in Keyed(k2) /\ b \in Keyed(k2)
    BY DEF Keyed
  <2>2. a # t /\ a \in Keyed(k)
    BY <1>3, <2>1
  <2>3. CASE b # t
    <3>1. b \in Keyed(k) /\ t > b
      BY <1>3, <2>1, <2>3
    <3>2. {v \in (a + 1)..(b - 1) : k2[v] # NoKey} = {v \in (a + 1)..(b - 1) : k[v] # NoKey}
      BY <1>2, <3>1
    <3>3. k[a] = k[b] /\ k[a] # NoKey
      BY <1>2, <2>2, <2>3
    <3> QED BY <3>2, <3>3 DEF Remembers, FiredOnce
  <2>4. CASE b = t
    <3>1. a \in Keyed(k) \ c
      BY <1>2, <2>2, <2>4
    <3>2. Cardinality(c) = CacheCap /\ \A v \in c : a < v
      BY <3>1 DEF Remembers
    <3> DEFINE between == {v \in (a + 1)..(b - 1) : k2[v] # NoKey}
    <3>3. \A v \in c : v \in Turns /\ v < t /\ k[v] # NoKey
      BY <1>0 DEF Keyed
    <3>4. c \subseteq between
      BY <1>2, <2>4, <3>2, <3>3
    <3>5. between \in SUBSET Turns
      OBVIOUS
    <3> HIDE DEF between
    <3>6. Cardinality(c) <= Cardinality(between) /\ Cardinality(between) \in Nat
      BY <3>4, <3>5, SomeTurns, FS_Subset
    <3> QED BY <3>2, <3>6 DEF between
  <2> QED BY <2>3, <2>4
<1>7. Room(c) \cup {t} \subseteq Keyed(k2)
  BY <1>0, <1>1, <1>3
<1>8. Cardinality(Room(c) \cup {t}) <= CacheCap
  BY <1>1, <1>4
<1>9. Remembers(k2, Room(c) \cup {t})
  BY <1>5, <1>6, <1>7, <1>8 DEF Remembers
<1> QED
  BY <1>9 DEF k2

\* No turn becomes new again.
LEMMA NewShrinks == TypeOK /\ [Next]_vars => New' \subseteq New
<1> SUFFICES ASSUME TypeOK, [Next]_vars PROVE New' \subseteq New
  OBVIOUS
<1> USE DEF TypeOK
<1>1. CASE UNCHANGED fate
  BY <1>1 DEF New
<1>2. ASSUME NEW S, NEW how \in Ends, fate' = Ended(fate, S, how) PROVE New' \subseteq New
  BY <1>2 DEF New, Ended, Ends
<1>3. ASSUME NEW t \in Turns, NEW q \in SUBSET Turns, NEW f, Enqueue(t, q, f),
             \A u \in Turns : f[u] = "new" => fate[u] = "new"
      PROVE  New' \subseteq New
  <2>1. Joins(t, q, f)
    BY <1>3, EnqueueEffect
  <2> QED BY <1>3, <2>1 DEF New, Joins, Ended
<1>4. ASSUME NEW c \in Clients, Dispatch(c) PROVE New' \subseteq New
  <2>1. ASSUME NEW t \in Turns, NEW k, NEW old, Accept(t, k, old) PROVE New' \subseteq New
    BY <2>1 DEF Accept, New, SchedOK
  <2> QED BY <1>1, <1>4, <2>1 DEF Dispatch, Replay, sched
<1>5. CASE ViewersAndAgenda
  <2>1. ASSUME NEW t \in Turns, EnqueueChat(t) PROVE New' \subseteq New
    <3> DEFINE f == [fate EXCEPT ![t] = "live"]
    <3>1. Enqueue(t, pq, f) /\ \A u \in Turns : f[u] = "new" => fate[u] = "new"
      BY <2>1 DEF EnqueueChat, SchedOK
    <3> HIDE DEF f
    <3> QED BY <1>3, <3>1 DEF SchedOK
  <2>2. ASSUME NEW t \in Turns, ReplacePending(t) PROVE New' \subseteq New
    <3> DEFINE old == {u \in pq : source[u] = "agenda"}
               f == [Ended(fate, old, "discarded") EXCEPT ![t] = "live"]
    <3>1. Enqueue(t, pq \ old, f) /\ pq \ old \in SUBSET Turns
      BY <2>2 DEF ReplacePending, SchedOK
    <3>2. \A u \in Turns : f[u] = "new" => fate[u] = "new"
      BY DEF Ended
    <3> HIDE DEF old, f
    <3> QED BY <1>3, <3>1, <3>2
  <2>3. ASSUME NEW src, DropPending(src) PROVE New' \subseteq New
    BY <1>2, <2>3 DEF DropPending, Ends
  <2> QED BY <1>5, <2>1, <2>2, <2>3 DEF ViewersAndAgenda
<1>6. ASSUME NEW th \in Threads, DrainEnqueue(th) PROVE New' \subseteq New
  BY <1>3, <1>6 DEF DrainEnqueue, DrainsOK, SchedOK
<1>7. CASE EnqueueBusy
  BY <1>3, <1>7 DEF EnqueueBusy, EngineOK, SchedOK
<1>8. CASE Sweep \/ FlushAccumulation \/ DropUnready \/ Answer \/ GenerationFails
  BY <1>2, <1>8 DEF Sweep, FlushAccumulation, DropUnready, Answer, GenerationFails, Ends
<1>9. CASE UNCHANGED vars \/ PostVerb \/ NoticeSpeaks \/ SpeechEnds \/ PostBoundary
  BY <1>1, <1>9 DEF vars, PostVerb, AcceptVerb, NoticeSpeaks, SpeechEnds, PostBoundary, sched
<1>10. ASSUME NEW c \in Clients, LeaveToEngine(c) PROVE New' \subseteq New
  BY <1>1, <1>10 DEF LeaveToEngine, sched
<1>11. ASSUME NEW th \in Threads, BeginDrain(th) \/ DrainPop(th) \/ EndDrain(th) PROVE New' \subseteq New
  BY <1>1, <1>11 DEF BeginDrain, DrainPop, EndDrain, sched
<1>12. CASE GetTurn \/ GetVerb \/ GetBoundary \/ IdleTick \/ AnswerNow \/ ReadGate \/ PopHead
            \/ PopBlocked \/ TakeBundle \/ DrainControl
  BY <1>1, <1>12
  DEF GetTurn, GetVerb, GetBoundary, TakeCommand, IdleTick, AnswerNow, ReadGate, PopHead, PopBlocked,
      TakeBundle, DrainControl, sched
<1> QED
  BY <1>4, <1>5, <1>6, <1>7, <1>8, <1>9, <1>10, <1>11, <1>12 DEF Next, Drain, EngineStep

LEMMA KeysStep == TypeOK /\ Homes /\ ArrivedInOrder /\ KeysInv /\ [Next]_vars => KeysInv'
<1> SUFFICES ASSUME TypeOK, Homes, ArrivedInOrder, KeysInv, [Next]_vars PROVE KeysInv'
  OBVIOUS
<1> USE DEF TypeOK
<1>1. ASSUME UNCHANGED <<key, cache>>, New' \subseteq New PROVE KeysInv'
  BY <1>1 DEF KeysInv, Remembers, FiredOnce, Keyed
<1>2. ASSUME NEW c \in Clients, Dispatch(c) PROVE KeysInv'
  <2>0. PICK k \in {c, NoKey}, old \in Expiries : Replay(k, old) \/ \E t \in Turns : Accept(t, k, old)
    BY <1>2 DEF Dispatch
  <2>1. Remembers(Forgotten(old), cache \ old) /\ Keyed(Forgotten(old)) \subseteq Keyed(key)
    BY ForgetKeeps DEF KeysInv
  <2>2. CASE Replay(k, old)
    <3>1. New' = New /\ cache' = cache \ old /\ key' = Forgotten(old)
      BY <2>2 DEF Replay, sched, New
    <3>2. Keyed(key') = Keyed(Forgotten(old))
      BY <3>1 DEF Keyed
    <3>3. Remembers(key', cache')
      BY <2>1, <3>1 DEF Remembers, FiredOnce, Keyed
    <3>4. Keyed(key)' = Keyed(key')
      BY DEF Keyed
    <3>5. Remembers(key, cache)' = Remembers(key', cache')
      BY DEF Remembers, FiredOnce, Keyed
    <3>6. Keyed(key)' \cap New' = {}
      BY <2>1, <3>1, <3>2, <3>4 DEF KeysInv
    <3> QED BY <3>3, <3>5, <3>6 DEF KeysInv
  <2>3. ASSUME NEW t \in Turns, Accept(t, k, old) PROVE KeysInv'
    <3> DEFINE f == Forgotten(old)
    <3>1. f \in [Turns -> Nat] /\ k \in Nat
      <4>1. Clients \subseteq Nat \ {0} /\ k \in Nat
        BY EngineAssumption
      <4>2. \A u \in Turns : key[u] \in Nat
        <5>1. key \in [Turns -> Clients \cup {0}]
          BY DEF DispatcherOK
        <5>2. \A u \in Turns : key[u] \in Clients \cup {0}
          BY <5>1
        <5>3. \A x \in Clients \cup {0} : x \in Nat
          BY <4>1
        <5> QED BY <5>2, <5>3
      <4> QED BY <4>1, <4>2 DEF Forgotten
    <3>2. New' = New \ {t} /\ t \in New /\ Arrives(t)
      BY <2>3 DEF Accept, New, SchedOK, Arrives
    <3>3. \A u \in Keyed(f) : u < t
      <4>1. \A u \in Keyed(f) : u \in Turns \ New
        BY <2>1 DEF KeysInv, Keyed
      <4> QED BY <3>2, <4>1 DEF ArrivedInOrder
    <3>4. CASE k = NoKey
      <4>1. cache' = cache \ old /\ key' = [f EXCEPT ![t] = NoKey]
        BY <2>3, <3>4 DEF Accept
      <4>2. f[t] = NoKey
        BY <3>3 DEF Keyed
      <4>3. key' = f
        BY <3>1, <4>1, <4>2
      <4>4. Keyed(f) \cap New' = {} /\ Remembers(f, cache')
        BY <2>1, <3>2, <4>1 DEF KeysInv
      <4> HIDE DEF f
      <4> QED BY <4>3, <4>4 DEF KeysInv, Remembers, FiredOnce, Keyed
    <3>5. CASE k # NoKey
      <4>1. cache' = Room(cache \ old) \cup {t} /\ key' = [f EXCEPT ![t] = k]
        BY <2>3, <3>5 DEF Accept
      <4>2. \A u \in cache \ old : f[u] # k
        <5>1. \A u \in cache \ old : key[u] # k
          BY <2>3, <3>5 DEF Accept, Holds
        <5>2. \A u \in cache \ old : f[u] # NoKey
          BY <2>1 DEF Remembers, Keyed
        <5>3. \A u \in Turns : f[u] = NoKey \/ f[u] = key[u]
          BY DEF Forgotten
        <5> QED BY <5>1, <5>2, <5>3 DEF DispatcherOK
      <4>3. Remembers([f EXCEPT ![t] = k], Room(cache \ old) \cup {t})
        <5> HIDE DEF f
        <5> QED BY <2>1, <3>1, <3>3, <3>5, <4>2, RecordKeeps DEF f
      <4>4. Keyed([f EXCEPT ![t] = k]) \subseteq Keyed(f) \cup {t}
        BY <3>1 DEF Keyed
      <4> DEFINE f2 == [f EXCEPT ![t] = k]
      <4>5. Keyed(f2) \cap New' = {} /\ Remembers(f2, cache') /\ key' = f2
        BY <2>1, <3>2, <4>1, <4>3, <4>4 DEF KeysInv
      <4> HIDE DEF f2
      <4> QED BY <4>5 DEF KeysInv, Remembers, FiredOnce, Keyed
    <3> QED BY <3>4, <3>5
  <2> QED BY <2>0, <2>2, <2>3
<1>3. ASSUME NEW c \in Clients, LeaveToEngine(c) PROVE UNCHANGED <<key, cache>>
  BY <1>3 DEF LeaveToEngine, dispatcher
<1>4. ASSUME NEW th \in Threads, Drain(th) PROVE UNCHANGED <<key, cache>>
  BY <1>4 DEF Drain, BeginDrain, DrainPop, DrainEnqueue, EndDrain, dispatcher
<1>5. ASSUME UNCHANGED vars \/ PostVerb \/ ViewersAndAgenda \/ NoticeSpeaks \/ SpeechEnds \/ PostBoundary
      PROVE  UNCHANGED <<key, cache>>
  BY <1>5
  DEF vars, PostVerb, AcceptVerb, ViewersAndAgenda, NoticeSpeaks, SpeechEnds, PostBoundary, dispatcher
<1>6. ASSUME EngineStep PROVE UNCHANGED <<key, cache>>
  BY <1>6
  DEF EngineStep, GetTurn, GetVerb, GetBoundary, TakeCommand, IdleTick, DropUnready, EnqueueBusy,
      AnswerNow, ReadGate, Sweep, PopHead, PopBlocked, FlushAccumulation, TakeBundle, Answer,
      GenerationFails, DrainControl, dispatcher
<1> QED
  BY <1>1, <1>2, <1>3, <1>4, <1>5, <1>6, NewShrinks DEF Next

LEMMA InitKeys == Init => KeysInv
<1> SUFFICES ASSUME Init PROVE KeysInv
  OBVIOUS
<1>1. cache = {} /\ Keyed(key) = {}
  BY DEF Init, InitDispatcher, Keyed
<1>2. Cardinality({}) = 0
  BY FS_EmptySet
<1>3. FiredOnce(key)
  BY <1>1 DEF FiredOnce, Keyed
<1> QED
  BY <1>1, <1>2, <1>3, DispatcherAssumption DEF KeysInv, Remembers

\* A retry is dispatched a second time only when its entry expired or CacheCap newer
\* keys pushed it out, whatever the cap and however many clients retry.
THEOREM RetriesReplay == Spec => []NoDoubleFire
<1> DEFINE Inv == HomesInv /\ LockHeld /\ OrderInv /\ KeysInv
<1>1. Init => Inv
  BY HomesInit, InitOrder, InitKeys
<1>2. Inv /\ [Next]_vars => Inv'
  BY HomesStep, OrderStep, KeysStep DEF HomesInv, OrderInv
<1>3. Inv => NoDoubleFire
  BY DEF KeysInv, Remembers, FiredOnce, NoDoubleFire
<1> QED
  BY <1>1, <1>2, <1>3, PTL DEF Spec
-----------------------------------------------------------------------------
(* The turns as those who asked see them: EngineLoop implements TurnLedger.  A   *)
(* step ends only turns that some place still holds, and those are live, because *)
(* every turn has one home; none of them is the owner's unless it is served, or  *)
(* typed and too old, because no owner question is ever in the buffer.           *)

LEMMA MayEndViewer ==
  ASSUME SchedOK, NEW t \in Turns, t \notin Owners(Turns)
  PROVE  Ledger!MayEnd(t) = Ends
BY DEF Ledger!MayEnd, Owners, OwnerSources, Ends

LEMMA MayBeServed ==
  ASSUME NEW t
  PROVE  "served" \in Ledger!MayEnd(t)
BY DEF Ledger!MayEnd

\* Live turns that end, each in a way it may.
LEMMA EndsInLedger ==
  ASSUME SchedOK, UNCHANGED source, NEW S \in SUBSET Live, NEW how \in Ends,
         fate' = Ended(fate, S, how), \A t \in S : how \in Ledger!MayEnd(t)
  PROVE  Ledger!Next
<1>1. fate' \in [Turns -> Ledger!Fates]
  BY DEF SchedOK, Ended, Ends, Ledger!Fates
<1>2. ASSUME NEW t \in Turns PROVE Ledger!Stays(t) \/ Ledger!Ends(t)
  <2>1. fate'[t] = IF t \in S THEN how ELSE fate[t]
    BY DEF Ended
  <2> QED BY <2>1 DEF Live, Ledger!Stays, Ledger!Ends
<1> QED BY <1>1, <1>2 DEF Ledger!Next

\* A turn that joins the queue, and what it displaces.
LEMMA JoinInLedger ==
  ASSUME TypeOK, OwnersAreKept, Homes, UNCHANGED source, NEW t \in Turns, NEW q \in SUBSET pq,
         NEW f \in [Turns -> Ends \cup {"new", "live"}], Joins(t, q, f),
         f[t] = "live", fate[t] \in {"new", "live"},
         \A u \in Turns \ {t} :
           f[u] = fate[u] \/ (f[u] = "discarded" /\ fate[u] = "live" /\ u \notin Owners(Turns))
  PROVE  Ledger!Next
<1> USE DEF TypeOK
<1>0. PICK trimmed \in SUBSET ((q \cup {t}) \ Owners(Turns)) :
        \E lost \in SUBSET (acc \cup trimmed) : fate' = Ended(f, lost, "discarded")
  BY DEF Joins
<1>1. PICK lost \in SUBSET (acc \cup trimmed) : fate' = Ended(f, lost, "discarded")
  BY <1>0
<1>2. /\ lost \subseteq Turns /\ lost \cap Owners(Turns) = {}
      /\ lost \ {t} \subseteq Live
  BY <1>1 DEF OwnersAreKept, Homes, Placed, SchedOK
<1>3. ASSUME NEW u \in Turns PROVE fate'[u] = IF u \in lost THEN "discarded" ELSE f[u]
  BY <1>1 DEF Ended
<1>4. fate' \in [Turns -> Ledger!Fates]
  BY <1>1 DEF Ended, Ends, Ledger!Fates
<1>5. ASSUME NEW u \in Turns, u \in lost PROVE Ledger!Arrives(u) \/ Ledger!Ends(u)
  <2>1. fate'[u] = "discarded" /\ Ledger!MayEnd(u) = Ends
    BY <1>2, <1>3, <1>5, MayEndViewer
  <2>2. fate[u] \in {"new", "live"}
    BY <1>2, <1>5 DEF Live
  <2> QED BY <2>1, <2>2 DEF Ledger!Arrives, Ledger!Ends, Ends
<1>6. ASSUME NEW u \in Turns, u \notin lost PROVE Ledger!Stays(u) \/ Ledger!Arrives(u) \/ Ledger!Ends(u)
  <2>1. fate'[u] = f[u]
    BY <1>3, <1>6
  <2>2. CASE u = t
    BY <2>1, <2>2 DEF Ledger!Stays, Ledger!Arrives
  <2>3. CASE u # t
    BY <2>1, <2>3, MayEndViewer DEF Ledger!Stays, Ledger!Ends, Ends
  <2> QED BY <2>2, <2>3
<1> QED BY <1>4, <1>5, <1>6 DEF Ledger!Next

LEMMA StepIsLedger == HomesInv /\ OwnersAreKept /\ [Next]_vars => [Ledger!Next]_(Ledger!vars)
<1> SUFFICES ASSUME HomesInv, OwnersAreKept, [Next]_vars PROVE Ledger!Next \/ UNCHANGED <<source, fate>>
  BY DEF Ledger!vars
<1> USE DEF HomesInv, TypeOK
<1>1. pq \cup acc \cup hand \cup bundle \cup InDrains \subseteq Live
  BY DEF Homes, Placed
<1>2. \A S : (\A t \in S : "served" \in Ledger!MayEnd(t))
  BY MayBeServed
<1>3. ASSUME NEW c \in Clients, Dispatch(c) PROVE Ledger!Next \/ UNCHANGED <<source, fate>>
  <2>1. ASSUME NEW t \in Turns, NEW k, NEW old, Accept(t, k, old) PROVE Ledger!Next
    <3>1. fate[t] = "new" /\ fate' = [fate EXCEPT ![t] = "live"] /\ UNCHANGED source
      BY <2>1 DEF Accept, Arrives
    <3>2. fate' \in [Turns -> Ledger!Fates]
      BY <3>1 DEF SchedOK, Ends, Ledger!Fates
    <3>3. \A u \in Turns : Ledger!Stays(u) \/ Ledger!Arrives(u)
      BY <3>1 DEF SchedOK, Ledger!Stays, Ledger!Arrives
    <3> QED BY <3>1, <3>2, <3>3 DEF Ledger!Next
  <2> QED BY <1>3, <2>1 DEF Dispatch, Replay, sched
<1>4. ASSUME NEW t \in Turns, EnqueueChat(t) PROVE Ledger!Next
  <2> DEFINE f == [fate EXCEPT ![t] = "live"]
  <2>1. Joins(t, pq, f) /\ UNCHANGED source /\ fate[t] = "new"
    BY <1>4, EnqueueEffect DEF EnqueueChat, Arrives, SchedOK
  <2>2. f \in [Turns -> Ends \cup {"new", "live"}] /\ f[t] = "live" /\ \A u \in Turns \ {t} : f[u] = fate[u]
    BY DEF SchedOK
  <2> HIDE DEF f
  <2> QED BY <2>1, <2>2, JoinInLedger
<1>5. ASSUME NEW t \in Turns, ReplacePending(t) PROVE Ledger!Next
  <2> DEFINE old == {u \in pq : source[u] = "agenda"}
             f == [Ended(fate, old, "discarded") EXCEPT ![t] = "live"]
  <2>1. f \in [Turns -> Ends \cup {"new", "live"}] /\ pq \ old \in SUBSET pq /\ f[t] = "live"
    BY DEF Ended, Ends, SchedOK
  <2>2. \A u \in Turns \ {t} :
          f[u] = fate[u] \/ (f[u] = "discarded" /\ fate[u] = "live" /\ u \notin Owners(Turns))
    BY <1>1 DEF Owners, OwnerSources, Ended, Live
  <2>3. Enqueue(t, pq \ old, f) /\ UNCHANGED source /\ fate[t] = "new"
    BY <1>5 DEF ReplacePending, Arrives
  <2> HIDE DEF old, f
  <2>4. Joins(t, pq \ old, f)
    BY <2>1, <2>3, EnqueueEffect DEF SchedOK
  <2> QED BY <2>1, <2>2, <2>3, <2>4, JoinInLedger
<1>6. ASSUME NEW src \in {"chat", "agenda"}, DropPending(src) PROVE Ledger!Next
  <2>1. PICK gone : /\ gone = {t \in pq \cup acc : source[t] = src}
                    /\ fate' = Ended(fate, gone, "discarded") /\ UNCHANGED source
    BY <1>6 DEF DropPending
  <2>2. gone \in SUBSET Live /\ gone \cap Owners(Turns) = {} /\ gone \subseteq Turns
    BY <1>1, <2>1 DEF Owners, OwnerSources, Live
  <2>3. \A t \in gone : "discarded" \in Ledger!MayEnd(t)
    BY <2>2, MayEndViewer DEF Ends
  <2> QED BY <2>1, <2>2, <2>3, EndsInLedger DEF Ends
<1>7. ASSUME NEW th \in Threads, DrainEnqueue(th) PROVE Ledger!Next
  <2>1. PICK t \in dhand[th] : Enqueue(t, pq, fate)
    BY <1>7 DEF DrainEnqueue
  <2>2. t \in Turns /\ t \in Live /\ UNCHANGED source
    BY <1>1, <1>7 DEF DrainEnqueue, DrainsOK, InDrains
  <2>3. Joins(t, pq, fate) /\ fate \in [Turns -> Ends \cup {"new", "live"}] /\ fate[t] = "live"
    BY <2>1, <2>2, EnqueueEffect DEF SchedOK, Live
  <2> QED BY <2>2, <2>3, JoinInLedger
<1>8. CASE EnqueueBusy
  <2>1. PICK t \in hand : Enqueue(t, pq, fate)
    BY <1>8 DEF EnqueueBusy
  <2>2. t \in Turns /\ t \in Live /\ UNCHANGED source
    BY <1>1, <1>8 DEF EnqueueBusy, EngineOK
  <2>3. Joins(t, pq, fate) /\ fate \in [Turns -> Ends \cup {"new", "live"}] /\ fate[t] = "live"
    BY <2>1, <2>2, EnqueueEffect DEF SchedOK, Live
  <2> QED BY <2>2, <2>3, JoinInLedger
<1>9. CASE Sweep
  <2>1. PICK old \in SUBSET Expirable : fate' = Ended(fate, old, "expired")
    BY <1>9 DEF Sweep
  <2>2. UNCHANGED source /\ old \in SUBSET Live
    BY <1>1, <1>9, <2>1 DEF Sweep, Expirable
  <2>3. \A t \in old : source[t] # "ptt"
    BY <2>1 DEF Expirable, Priority
  <2>4. \A t \in old : "expired" \in Ledger!MayEnd(t)
    BY <2>3 DEF Ledger!MayEnd
  <2> QED BY <2>1, <2>2, <2>4, EndsInLedger DEF Ends
<1>10. CASE FlushAccumulation
  <2>1. PICK old \in SUBSET acc : fate' = Ended(fate, old, "expired")
    BY <1>10 DEF FlushAccumulation
  <2>2. UNCHANGED source /\ old \in SUBSET Live /\ old \subseteq Turns /\ old \cap Owners(Turns) = {}
    BY <1>1, <1>10, <2>1 DEF FlushAccumulation, OwnersAreKept, Live
  <2>3. \A t \in old : "expired" \in Ledger!MayEnd(t)
    BY <2>2, MayEndViewer DEF Ends
  <2> QED BY <2>1, <2>2, <2>3, EndsInLedger DEF Ends
<1>11. CASE DropUnready \/ GenerationFails \/ Answer
  <2>1. PICK S \in SUBSET (hand \cup bundle) : fate' = Ended(fate, S, "served") /\ UNCHANGED source
    BY <1>11 DEF DropUnready, GenerationFails, Answer
  <2> QED BY <1>1, <1>2, <2>1, EndsInLedger DEF Ends
<1>12. CASE PostVerb \/ NoticeSpeaks \/ SpeechEnds \/ PostBoundary \/ UNCHANGED vars
  BY <1>12 DEF PostVerb, AcceptVerb, NoticeSpeaks, SpeechEnds, PostBoundary, vars, sched
<1>13. ASSUME NEW c \in Clients, LeaveToEngine(c) PROVE UNCHANGED <<source, fate>>
  BY <1>13 DEF LeaveToEngine, sched
<1>14. ASSUME NEW th \in Threads, BeginDrain(th) \/ DrainPop(th) \/ EndDrain(th)
       PROVE  UNCHANGED <<source, fate>>
  BY <1>14 DEF BeginDrain, DrainPop, EndDrain, sched
<1>15. CASE GetTurn \/ GetVerb \/ GetBoundary \/ IdleTick \/ AnswerNow \/ ReadGate \/ PopHead
            \/ PopBlocked \/ TakeBundle \/ DrainControl
  BY <1>15
  DEF GetTurn, GetVerb, GetBoundary, TakeCommand, IdleTick, AnswerNow, ReadGate, PopHead, PopBlocked,
      TakeBundle, DrainControl, sched
<1> QED
  BY <1>3, <1>4, <1>5, <1>6, <1>7, <1>8, <1>9, <1>10, <1>11, <1>12, <1>13, <1>14, <1>15
  DEF Next, Drain, EngineStep, ViewersAndAgenda

\* Each accepted turn ends once and as its asker may expect, through whatever queues,
\* buffers and hands it went: the engine implements the ledger.
THEOREM ImplementsLedger == Spec => LedgerSpec
<1>1. Init => Ledger!Init
  BY DEF Init, InitSched, Ledger!Init
<1>2. Init => OwnersAreKept
  BY DEF Init, InitSched, OwnersAreKept, Owners
<1>3. HomesInv /\ OwnersAreKept /\ [Next]_vars => HomesInv' /\ OwnersAreKept'
  BY HomesStep, OwnersStep DEF HomesInv
<1> QED
  BY <1>1, <1>2, <1>3, HomesInit, StepIsLedger, PTL DEF Spec, LedgerSpec, Ledger!Spec
=============================================================================
