------------------------ MODULE SpeechPipelineProofs ------------------------
(***************************************************************************)
(* Proofs about SpeechPipeline for slices and queues of any length.  What  *)
(* the outcome says of the fragments follows from where the end of the     *)
(* queue and the consumer stand in the slice: the queue holds, in order,   *)
(* exactly the fragments that the producer has left and the consumer has   *)
(* not taken (QueueInv), so what the consumer has taken is settled         *)
(* fragment by fragment (ConsumerInv) although a placeholder does not say  *)
(* which fragment it stands for.                                           *)
(***************************************************************************)
EXTENDS SpeechPipeline, TLAPS

\* The consumer, in its loop, has a fragment in hand.
InHand == cpc \in {"prePlay", "play", "busy"}

\* How many fragments have been taken off the queue, and how many of them are dealt
\* with.
Taken == pidx - Len(queue) + (IF ppc = "done" THEN 1 ELSE 0)
Settled == Taken - (IF InHand THEN 1 ELSE 0)

\* The producer works on fragment pidx; nothing above it has been lost yet.
ProducerInv ==
  /\ ppc \in {"synth", "put"} => pidx \in Fragments
  /\ ppc = "put" => pitem = pidx \/ (pitem = None /\ pidx \in skipped)
  /\ \A i \in skipped : i < pidx \/ (i = pidx /\ ppc = "put" /\ pitem = None)

\* The queue holds the fragments from Taken to pidx in their order, a placeholder for
\* each that is lost, and the end marker once the producer is done.
QueueInv ==
  InLoop =>
    /\ Taken >= 0
    /\ ppc = "done" => Len(queue) > 0
    /\ \A k \in 1..Len(queue) :
         IF ppc = "done" /\ k = Len(queue) THEN queue[k] = FIN
         ELSE \/ queue[k] = Taken + k - 1 /\ Taken + k - 1 \notin skipped
              \/ queue[k] = None /\ Taken + k - 1 \in skipped

\* What is settled was heard or lost; what is in hand is neither yet.
ConsumerInv ==
  InLoop =>
    /\ \A i \in 0..(Settled - 1) : i \in spoken \cup skipped /\ ~(i \in spoken /\ i \in skipped)
    /\ \A i \in spoken : i < Settled /\ i <= lastIdx
    /\ InHand => cidx = Taken - 1 /\ cidx \in Fragments /\ cidx \notin skipped
    /\ IF cpc \in {"play", "busy"} THEN lastIdx = cidx ELSE lastIdx < Settled
    /\ cursor = N /\ ~interrupted /\ ~error

\* Out of the loop the cursor stands, and the producer is not below it.
OutcomeInv ==
  ~InLoop =>
    /\ \A i \in spoken : i < cursor
    /\ interrupted \/ error =>
         /\ cursor <= pidx
         /\ \A i \in 0..(cursor - 1) : i \in spoken \cup skipped /\ ~(i \in spoken /\ i \in skipped)

\* A file is on the queue or in the hands of one of the two threads, or stray.
FilesInv ==
  /\ \A f \in files \ stray : \/ \E k \in 1..Len(queue) : queue[k] = f
                              \/ ppc = "put" /\ pitem = f
                              \/ InHand /\ cidx = f
  /\ joined => ppc = "done" /\ ~InLoop
  /\ cpc = "done" /\ joined => queue = <<>>

IInv == TypeOK /\ ProducerInv /\ QueueInv /\ ConsumerInv /\ OutcomeInv /\ FilesInv

USE PipelineAssumption DEF Fragments, None, FIN

-----------------------------------------------------------------------------

LEMMA InitIInv == Init => IInv
<1> SUFFICES ASSUME Init PROVE IInv
  OBVIOUS
<1> USE DEF Init
<1>1. TypeOK
  <2>1. speaking \in BOOLEAN /\ interrupted \in BOOLEAN /\ error \in BOOLEAN /\ joined \in BOOLEAN
    OBVIOUS
  <2>2. queue \in Seq(Items) /\ Len(queue) <= QueueMax
    BY DEF Items
  <2> QED BY <2>1, <2>2 DEF TypeOK
<1>2. ProducerInv /\ QueueInv /\ OutcomeInv /\ FilesInv
  BY DEF ProducerInv, QueueInv, OutcomeInv, FilesInv, InLoop, InHand, Taken
<1>3. ConsumerInv
  BY DEF ConsumerInv, InLoop, InHand, Taken, Settled
<1> QED
  BY <1>1, <1>2, <1>3 DEF IInv

\* The queue at the sides of a put and of a get.
LEMMA PutQueue ==
  ASSUME NEW x \in Items, queue \in Seq(Items), queue' = Append(queue, x)
  PROVE  /\ queue' \in Seq(Items) /\ Len(queue') = Len(queue) + 1 /\ Len(queue) \in Nat
         /\ queue'[Len(queue) + 1] = x
         /\ \A k \in 1..Len(queue) : queue'[k] = queue[k]
  OBVIOUS

LEMMA GetQueue ==
  ASSUME queue \in Seq(Items), queue # <<>>, queue' = Tail(queue)
  PROVE  /\ queue' \in Seq(Items) /\ Len(queue') = Len(queue) - 1 /\ Len(queue) \in Nat \ {0}
         /\ Head(queue) = queue[1] /\ Head(queue) \in Items
         /\ \A k \in 1..Len(queue') : queue'[k] = queue[k + 1]
  OBVIOUS

-----------------------------------------------------------------------------
(* The producer's steps. *)

LEMMA CheckStep == IInv /\ ProducerCheck => IInv'
<1> SUFFICES ASSUME IInv, ProducerCheck PROVE IInv'
  OBVIOUS
<1> USE DEF IInv, ProducerCheck, shared, consumer, outcome
<1>1. TypeOK'
  BY DEF TypeOK
<1>2. ProducerInv'
  BY DEF ProducerInv, TypeOK
<1>3. Taken' = Taken /\ Settled' = Settled /\ (InLoop' <=> InLoop) /\ (InHand' <=> InHand)
  BY DEF Taken, Settled, InLoop, InHand
<1>4. QueueInv' /\ ConsumerInv' /\ OutcomeInv'
  BY <1>3 DEF QueueInv, ConsumerInv, OutcomeInv
<1>5. FilesInv'
  BY <1>3 DEF FilesInv
<1> QED BY <1>1, <1>2, <1>4, <1>5

LEMMA SynthStep == IInv /\ Synthesise => IInv'
<1> SUFFICES ASSUME IInv, Synthesise PROVE IInv'
  OBVIOUS
<1> USE DEF IInv
<1>1. pidx \in Fragments /\ ppc = "synth" /\ ppc' = "put"
  BY DEF Synthesise, ProducerInv
<1>2. UNCHANGED <<speaking, queue, pidx, cpc, cidx, lastIdx, spoken, cursor, interrupted, error, joined>>
  BY DEF Synthesise, consumer, outcome
<1>3. /\ stray' \in {stray, stray \cup {pidx}}
      /\ \/ pitem' = pidx /\ files' = files \cup {pidx} /\ skipped' = skipped
         \/ pitem' = None /\ skipped' = skipped \cup {pidx} /\ files' = files \cup stray'
  BY DEF Synthesise
<1>4. Taken' = Taken /\ Settled' = Settled /\ (InLoop' <=> InLoop) /\ (InHand' <=> InHand)
  BY <1>1, <1>2 DEF Taken, Settled, InLoop, InHand
<1>5. TypeOK'
  BY <1>1, <1>2, <1>3 DEF TypeOK
<1>6. ProducerInv'
  BY <1>1, <1>2, <1>3 DEF ProducerInv, TypeOK
<1>7. InLoop => Len(queue) \in Nat /\ Taken = pidx - Len(queue) /\ Taken \in Nat
  BY <1>1 DEF Taken, TypeOK, QueueInv
<1>8. QueueInv'
  BY <1>1, <1>2, <1>3, <1>4, <1>7 DEF QueueInv
<1>9. ConsumerInv'
  BY <1>1, <1>2, <1>3, <1>4, <1>7 DEF ConsumerInv, Settled
<1>10. OutcomeInv'
  BY <1>1, <1>2, <1>3, <1>4 DEF OutcomeInv, TypeOK
<1>11. FilesInv'
  BY <1>1, <1>2, <1>3, <1>4 DEF FilesInv
<1> QED BY <1>5, <1>6, <1>8, <1>9, <1>10, <1>11

LEMMA PutStep == IInv /\ Put => IInv'
<1> SUFFICES ASSUME IInv, Put PROVE IInv'
  OBVIOUS
<1> USE DEF IInv
<1>1. /\ pidx \in Fragments /\ ppc = "put" /\ ppc' = "check" /\ pidx' = pidx + 1
      /\ pitem \in Items /\ queue \in Seq(Items) /\ queue' = Append(queue, pitem)
      /\ Len(queue) < QueueMax
  BY DEF Put, ProducerInv, TypeOK, Items
<1>2. UNCHANGED <<speaking, files, stray, skipped, pitem, cpc, cidx, lastIdx, spoken, cursor, interrupted, error, joined>>
  BY DEF Put, consumer, outcome
<1>3. /\ queue' \in Seq(Items) /\ Len(queue') = Len(queue) + 1 /\ Len(queue) \in Nat
      /\ queue'[Len(queue) + 1] = pitem
      /\ \A k \in 1..Len(queue) : queue'[k] = queue[k]
  BY <1>1, PutQueue
<1>4. Taken' = Taken /\ Settled' = Settled /\ (InLoop' <=> InLoop) /\ (InHand' <=> InHand)
  BY <1>1, <1>2, <1>3 DEF Taken, Settled, InLoop, InHand
<1>5. Taken = pidx - Len(queue)
  BY <1>1 DEF Taken
<1>6. TypeOK'
  BY <1>1, <1>2, <1>3 DEF TypeOK
<1>7. ProducerInv'
  BY <1>1, <1>2 DEF ProducerInv, TypeOK
<1>8. QueueInv'
  <2> SUFFICES ASSUME InLoop PROVE QueueInv'
    BY <1>4 DEF QueueInv
  <2>1. \A k \in 1..Len(queue) :
            \/ queue'[k] = Taken + k - 1 /\ Taken + k - 1 \notin skipped
            \/ queue'[k] = None /\ Taken + k - 1 \in skipped
    BY <1>1, <1>3 DEF QueueInv
  <2>2. \/ pitem = pidx /\ pidx \notin skipped
        \/ pitem = None /\ pidx \in skipped
    BY <1>1 DEF ProducerInv
  <2>3. ASSUME NEW k \in 1..Len(queue')
        PROVE  \/ queue'[k] = Taken' + k - 1 /\ Taken' + k - 1 \notin skipped'
               \/ queue'[k] = None /\ Taken' + k - 1 \in skipped'
    <3>1. CASE k \in 1..Len(queue)
      BY <1>2, <1>4, <2>1, <3>1
    <3>2. CASE k = Len(queue) + 1
      <4>1. Taken' + k - 1 = pidx
        BY <1>1, <1>3, <1>4, <1>5, <3>2
      <4> QED BY <1>2, <1>3, <2>2, <3>2, <4>1
    <3> QED BY <1>3, <3>1, <3>2
  <2>4. Taken' >= 0 /\ ppc' # "done"
    BY <1>1, <1>4 DEF QueueInv
  <2> QED BY <2>3, <2>4 DEF QueueInv
<1>9. ConsumerInv'
  BY <1>2, <1>4 DEF ConsumerInv
<1>10. OutcomeInv'
  BY <1>1, <1>2, <1>4 DEF OutcomeInv, TypeOK
<1>11. FilesInv'
  <2>1. \A f \in files \ stray : (\E k \in 1..Len(queue) : queue[k] = f) \/ pitem = f
                            => \E k \in 1..Len(queue') : queue'[k] = f
    BY <1>3
  <2>2. ~joined
    BY <1>1 DEF FilesInv
  <2> QED BY <1>1, <1>2, <1>4, <2>1, <2>2 DEF FilesInv
<1> QED BY <1>6, <1>7, <1>8, <1>9, <1>10, <1>11

LEMMA FinStep == IInv /\ PutFin => IInv'
<1> SUFFICES ASSUME IInv, PutFin PROVE IInv'
  OBVIOUS
<1> USE DEF IInv
<1>1. /\ ppc = "fin" /\ ppc' = "done" /\ pidx \in 0..N
      /\ FIN \in Items /\ queue \in Seq(Items) /\ queue' = Append(queue, FIN)
      /\ Len(queue) < QueueMax
  BY DEF PutFin, TypeOK, Items
<1>2. UNCHANGED <<speaking, files, stray, skipped, pidx, pitem, cpc, cidx, lastIdx, spoken, cursor, interrupted, error, joined>>
  BY DEF PutFin, consumer, outcome
<1>3. /\ queue' \in Seq(Items) /\ Len(queue') = Len(queue) + 1 /\ Len(queue) \in Nat
      /\ queue'[Len(queue) + 1] = FIN
      /\ \A k \in 1..Len(queue) : queue'[k] = queue[k]
  BY <1>1, PutQueue
<1>4. Taken' = Taken /\ Settled' = Settled /\ (InLoop' <=> InLoop) /\ (InHand' <=> InHand)
  BY <1>1, <1>2, <1>3 DEF Taken, Settled, InLoop, InHand
<1>5. TypeOK'
  BY <1>1, <1>2, <1>3 DEF TypeOK
<1>6. ProducerInv'
  BY <1>1, <1>2 DEF ProducerInv
<1>7. QueueInv'
  <2> SUFFICES ASSUME InLoop PROVE QueueInv'
    BY <1>4 DEF QueueInv
  <2>1. \A k \in 1..Len(queue) :
            \/ queue'[k] = Taken + k - 1 /\ Taken + k - 1 \notin skipped
            \/ queue'[k] = None /\ Taken + k - 1 \in skipped
    BY <1>1, <1>3 DEF QueueInv
  <2> QED BY <1>1, <1>2, <1>3, <1>4, <2>1 DEF QueueInv
<1>8. ConsumerInv'
  BY <1>2, <1>4 DEF ConsumerInv
<1>9. OutcomeInv'
  BY <1>2, <1>4 DEF OutcomeInv
<1>10. FilesInv'
  <2>1. \A f \in files \ stray : (\E k \in 1..Len(queue) : queue[k] = f)
                            => \E k \in 1..Len(queue') : queue'[k] = f
    BY <1>3
  <2>2. ~joined
    BY <1>1 DEF FilesInv
  <2> QED BY <1>1, <1>2, <1>4, <2>1, <2>2 DEF FilesInv
<1> QED BY <1>5, <1>6, <1>7, <1>8, <1>9, <1>10

-----------------------------------------------------------------------------
(* The consumer's steps. *)

\* A cut or an error outside of playback: the cursor is just past the last fragment
\* that was started.
LEMMA LeaveStep ==
  ASSUME IInv, cpc \in {"guard", "get"}, cpc' = "join", cursor' = lastIdx + 1,
         interrupted' \in BOOLEAN, error' \in BOOLEAN,
         UNCHANGED <<shared, producer, cidx, lastIdx, spoken, joined>>
  PROVE  IInv'
<1> USE DEF IInv, shared, producer
<1>1. InLoop /\ ~InHand /\ ~InLoop' /\ ~InHand'
  BY DEF InLoop, InHand
<1>2. lastIdx < Taken /\ Settled = Taken /\ Taken <= pidx /\ Taken \in Int
  BY <1>1 DEF ConsumerInv, Settled, Taken, QueueInv, TypeOK, InHand
<1>3. TypeOK'
  BY <1>2 DEF TypeOK
<1>4. ProducerInv' /\ QueueInv' /\ ConsumerInv'
  BY <1>1 DEF ProducerInv, QueueInv, ConsumerInv
<1>5. OutcomeInv'
  <2>1. spoken' = spoken /\ skipped' = skipped /\ cursor' = lastIdx + 1 /\ pidx' = pidx
        /\ pidx \in Int /\ lastIdx \in Int
    BY DEF TypeOK
  <2>2. \A i \in spoken : i \in Int /\ i <= lastIdx
    BY <1>1 DEF ConsumerInv, TypeOK
  <2>3. \A i \in 0..lastIdx : i \in spoken \cup skipped /\ ~(i \in spoken /\ i \in skipped)
    BY <1>1, <1>2, <2>1 DEF ConsumerInv
  <2>4. cursor' <= pidx' /\ cursor' - 1 = lastIdx /\ \A i \in spoken' : i < cursor'
    BY <1>2, <2>1, <2>2
  <2> QED BY <2>1, <2>3, <2>4 DEF OutcomeInv
<1>6. FilesInv'
  BY <1>1 DEF FilesInv
<1> QED BY <1>3, <1>4, <1>5, <1>6

\* A cut with a fragment in hand: it is owed, and its file is removed.
LEMMA CutStep ==
  ASSUME IInv, InHand, cpc' = "join", cursor' = cidx, interrupted' = TRUE,
         Remove(cidx),
         UNCHANGED <<speaking, queue, skipped, producer, cidx, lastIdx, spoken, error, joined>>
  PROVE  IInv'
<1> USE DEF IInv, producer, Remove
<1>1. InLoop /\ ~InLoop' /\ ~InHand'
  BY DEF InLoop, InHand
<1>2. cidx \in Fragments /\ cidx = Taken - 1 /\ Settled = Taken - 1 /\ Taken <= pidx
      /\ Taken \in Int
  BY <1>1 DEF ConsumerInv, Settled, Taken, QueueInv, TypeOK, InHand
<1>3. TypeOK'
  <2>1. interrupted' \in BOOLEAN /\ error' \in BOOLEAN /\ joined' \in BOOLEAN /\ speaking' \in BOOLEAN
    BY DEF TypeOK
  <2>2. files' \subseteq Fragments
    BY DEF TypeOK
  <2>3. cursor' \in 0..N
    BY <1>2
  <2> QED BY <2>1, <2>2, <2>3 DEF TypeOK
<1>4. ProducerInv' /\ QueueInv' /\ ConsumerInv'
  BY <1>1 DEF ProducerInv, QueueInv, ConsumerInv
<1>5. OutcomeInv'
  <2>1. spoken' = spoken /\ skipped' = skipped /\ cursor' = Settled /\ pidx' = pidx
        /\ pidx \in Int /\ Settled \in Int
    BY <1>2 DEF TypeOK
  <2>2. \A i \in spoken : i < Settled
    BY <1>1 DEF ConsumerInv
  <2>3. \A i \in 0..(Settled - 1) : i \in spoken \cup skipped /\ ~(i \in spoken /\ i \in skipped)
    BY <1>1 DEF ConsumerInv
  <2>4. cursor' <= pidx'
    BY <1>2, <2>1
  <2> QED BY <2>1, <2>2, <2>3, <2>4 DEF OutcomeInv
<1>6. FilesInv'
  BY <1>1 DEF FilesInv
<1> QED BY <1>3, <1>4, <1>5, <1>6

LEMMA GuardStep == IInv /\ Guard => IInv'
<1> SUFFICES ASSUME IInv, Guard PROVE IInv'
  OBVIOUS
<1>1. CASE ~speaking
  BY <1>1, LeaveStep DEF Guard, Cut, Leave, IInv, TypeOK
<1>2. CASE speaking
  <2> USE DEF IInv
  <2>1. /\ cpc = "guard" /\ cpc' = "get"
        /\ UNCHANGED <<shared, producer, cidx, lastIdx, outcome>>
    BY <1>2 DEF Guard
  <2>2. Taken' = Taken /\ Settled' = Settled /\ InLoop /\ InLoop' /\ ~InHand /\ ~InHand'
    BY <2>1 DEF Taken, Settled, InLoop, InHand, shared, producer
  <2>3. TypeOK'
    BY <2>1 DEF TypeOK, shared, producer, outcome
  <2>4. ProducerInv' /\ QueueInv' /\ OutcomeInv'
    BY <2>1, <2>2 DEF ProducerInv, QueueInv, OutcomeInv, shared, producer, outcome
  <2>5. ConsumerInv'
    BY <2>1, <2>2 DEF ConsumerInv, shared, producer, outcome
  <2>6. FilesInv'
    BY <2>1, <2>2 DEF FilesInv, shared, producer, outcome
  <2> QED BY <2>3, <2>4, <2>5, <2>6
<1> QED BY <1>1, <1>2

LEMMA DequeueStep == IInv /\ Dequeue => IInv'
<1> SUFFICES ASSUME IInv, Dequeue PROVE IInv'
  OBVIOUS
<1> USE DEF IInv
<1>1. /\ cpc = "get" /\ queue \in Seq(Items) /\ queue # <<>> /\ queue' = Tail(queue)
      /\ UNCHANGED <<speaking, files, stray, skipped, ppc, pidx, pitem, lastIdx, spoken, cursor, interrupted, error, joined>>
  BY DEF Dequeue, TypeOK, producer, outcome
<1>2. /\ queue' \in Seq(Items) /\ Len(queue') = Len(queue) - 1 /\ Len(queue) \in Nat \ {0}
      /\ Head(queue) = queue[1] /\ Head(queue) \in Items
      /\ \A k \in 1..Len(queue') : queue'[k] = queue[k + 1]
  BY <1>1, GetQueue
<1>3. InLoop /\ ~InHand /\ Settled = Taken /\ Taken \in Nat /\ Taken' = Taken + 1 /\ ~joined
  <2>1. InLoop /\ ~InHand /\ ~joined
    BY <1>1 DEF InLoop, InHand, FilesInv
  <2>2. Settled = Taken /\ Taken \in Nat
    BY <1>2, <2>1 DEF Settled, Taken, QueueInv, TypeOK
  <2>3. Taken' = Taken + 1
    BY <1>1, <1>2 DEF Taken, TypeOK
  <2> QED BY <2>1, <2>2, <2>3
<1>4. CASE Head(queue) = FIN
  <2>1. cpc' = "join" /\ cidx' = cidx
    BY <1>4 DEF Dequeue
  <2>2. ~InLoop' /\ ~InHand'
    BY <2>1 DEF InLoop, InHand
  <2>3. TypeOK'
    BY <1>1, <1>2, <2>1 DEF TypeOK
  <2>4. ProducerInv' /\ QueueInv' /\ ConsumerInv'
    BY <1>1, <2>2 DEF ProducerInv, QueueInv, ConsumerInv
  <2>5. OutcomeInv'
    BY <1>1, <1>3, <2>2 DEF OutcomeInv, ConsumerInv, TypeOK
  <2>6. FilesInv'
    <3>1. \A f \in files \ stray : f # queue[1]
      BY <1>2, <1>4 DEF TypeOK
    <3>2. \A f \in files \ stray : (\E k \in 1..Len(queue) : queue[k] = f) =>
                             \E k \in 1..Len(queue') : queue'[k] = f
      <4> SUFFICES ASSUME NEW f \in files \ stray, NEW k \in 1..Len(queue), queue[k] = f
                   PROVE  \E j \in 1..Len(queue') : queue'[j] = f
        OBVIOUS
      <4>1. k # 1
        BY <3>1
      <4>2. k - 1 \in 1..Len(queue') /\ queue'[k - 1] = f
        BY <1>2, <4>1
      <4> QED BY <4>2
    <3> QED BY <1>1, <1>3, <2>1, <2>2, <3>2 DEF FilesInv
  <2> QED BY <2>3, <2>4, <2>5, <2>6
<1>5. CASE Head(queue) # FIN
  <2>1. ~(ppc = "done" /\ Len(queue) = 1)
    BY <1>2, <1>3, <1>5 DEF QueueInv
  <2>2. \/ Head(queue) = Taken /\ Taken \in Fragments /\ Taken \notin skipped
        \/ Head(queue) = None /\ Taken \in skipped
    <3>1. 1 \in 1..Len(queue) /\ Taken + 1 - 1 = Taken
      BY <1>2, <1>3
    <3>2. \/ queue[1] = Taken /\ Taken \notin skipped
          \/ queue[1] = None /\ Taken \in skipped
      BY <1>3, <2>1, <3>1 DEF QueueInv
    <3>3. Taken < N
      <4>1. Taken < pidx
        BY <1>2, <2>1 DEF Taken, TypeOK
      <4> QED BY <1>3, <4>1 DEF TypeOK
    <3> QED BY <1>2, <1>3, <3>2, <3>3
  <2>3. TypeOK'
    BY <1>1, <1>2 DEF TypeOK, Dequeue
  <2>4. ProducerInv'
    BY <1>1 DEF ProducerInv
  <2>5. InLoop' /\ (InHand' <=> Head(queue) = Taken)
    BY <1>5, <2>2 DEF Dequeue, InLoop, InHand, TypeOK
  <2>6. QueueInv'
    <3>1. ASSUME NEW k \in 1..Len(queue')
          PROVE  IF ppc = "done" /\ k = Len(queue') THEN queue'[k] = FIN
                 ELSE \/ queue'[k] = Taken' + k - 1 /\ Taken' + k - 1 \notin skipped
                      \/ queue'[k] = None /\ Taken' + k - 1 \in skipped
      <4>1. k + 1 \in 1..Len(queue) /\ (k = Len(queue') <=> k + 1 = Len(queue))
        <5>1. \A n, m \in Nat : n = m - 1 =>
                \A i \in 1..n : i + 1 \in 1..m /\ (i = n <=> i + 1 = m)
          OBVIOUS
        <5>2. Len(queue) \in Nat /\ Len(queue') \in Nat /\ Len(queue') = Len(queue) - 1
          BY <1>2
        <5> HIDE <1>1, <1>2, <1>3
        <5> QED BY <5>1, <5>2
      <4>2. Taken' + k - 1 = Taken + (k + 1) - 1
        BY <1>3
      <4>3. queue'[k] = queue[k + 1]
        BY <1>2
      <4> QED BY <1>3, <4>1, <4>2, <4>3 DEF QueueInv
    <3>2. ppc' = "done" => Len(queue') > 0
      BY <1>1, <1>2, <1>3, <2>1
    <3>3. ppc' = ppc /\ skipped' = skipped /\ Taken' >= 0
      BY <1>1, <1>3
    <3> QED BY <3>1, <3>2, <3>3 DEF QueueInv
  <2>7. OutcomeInv'
    BY <2>5 DEF OutcomeInv
  <2>8. CASE Head(queue) = Taken /\ Taken \in Fragments /\ Taken \notin skipped
    <3>1. cpc' = "prePlay" /\ cidx' = Taken /\ InHand' /\ Settled' = Settled
      BY <1>3, <1>5, <2>8, <2>5 DEF Dequeue, Settled
    <3>2. ConsumerInv'
      BY <1>1, <1>3, <2>8, <3>1 DEF ConsumerInv
    <3>3. FilesInv'
      <4> SUFFICES ASSUME NEW f \in files \ stray, NEW k \in 1..Len(queue), queue[k] = f
                   PROVE  cidx' = f \/ \E j \in 1..Len(queue') : queue'[j] = f
        BY <1>1, <1>3, <3>1 DEF FilesInv
      <4>1. CASE k = 1
        BY <1>2, <2>8, <3>1, <4>1
      <4>2. CASE k # 1
        <5>1. k - 1 \in 1..Len(queue') /\ queue'[k - 1] = f
          BY <1>2, <4>2
        <5> QED BY <5>1
      <4> QED BY <4>1, <4>2
    <3> QED BY <2>3, <2>4, <2>6, <2>7, <3>2, <3>3
  <2>9. CASE Head(queue) = None /\ Taken \in skipped
    <3>1. cpc' = "guard" /\ ~InHand' /\ Settled' = Settled + 1
      BY <1>3, <2>9 DEF Dequeue, Settled, InHand
    <3>2. ConsumerInv'
      BY <1>1, <1>3, <2>9, <3>1 DEF ConsumerInv, TypeOK
    <3>3. FilesInv'
      <4> SUFFICES ASSUME NEW f \in files \ stray, NEW k \in 1..Len(queue), queue[k] = f
                   PROVE  \E j \in 1..Len(queue') : queue'[j] = f
        BY <1>1, <1>3, <3>1 DEF FilesInv
      <4>1. k # 1
        BY <1>2, <2>9 DEF TypeOK
      <4>2. k - 1 \in 1..Len(queue') /\ queue'[k - 1] = f
        BY <1>2, <4>1
      <4> QED BY <4>2
    <3> QED BY <2>3, <2>4, <2>6, <2>7, <3>2, <3>3
  <2> QED BY <2>2, <2>8, <2>9
<1> QED BY <1>4, <1>5

LEMMA TimeoutStep == IInv /\ DequeueTimesOut => IInv'
  BY LeaveStep DEF DequeueTimesOut, Leave, ErrorCursor, IInv, TypeOK

LEMMA PrePlayStep == IInv /\ PrePlay => IInv'
<1> SUFFICES ASSUME IInv, PrePlay PROVE IInv'
  OBVIOUS
<1>1. cpc = "prePlay" /\ InHand
  BY DEF PrePlay, InHand
<1>2. CASE ~speaking
  BY <1>1, <1>2, CutStep DEF PrePlay, Cut, Leave
<1>3. CASE speaking
  <2> USE DEF IInv
  <2>1. /\ cpc' = "play" /\ lastIdx' = cidx
        /\ UNCHANGED <<speaking, queue, files, stray, skipped, producer, cidx, outcome>>
    BY <1>3 DEF PrePlay
  <2>2. Taken' = Taken /\ Settled' = Settled /\ InLoop /\ InLoop' /\ InHand'
    BY <1>1, <2>1 DEF Taken, Settled, InLoop, InHand, producer
  <2>3. cidx \in Fragments /\ cidx = Settled
    BY <1>1, <2>2 DEF ConsumerInv, Settled
  <2>4. TypeOK'
    BY <2>1, <2>3 DEF TypeOK, producer, outcome
  <2>5. ProducerInv' /\ QueueInv' /\ OutcomeInv'
    BY <2>1, <2>2 DEF ProducerInv, QueueInv, OutcomeInv, producer, outcome
  <2>6. ConsumerInv'
    <3>1. \A i \in spoken : i < cidx /\ i <= cidx
      BY <2>2, <2>3 DEF ConsumerInv, TypeOK
    <3> QED BY <1>1, <2>1, <2>2, <2>3, <3>1 DEF ConsumerInv, producer, outcome
  <2>7. FilesInv'
    BY <1>1, <2>1, <2>2 DEF FilesInv, producer, outcome
  <2> QED BY <2>4, <2>5, <2>6, <2>7
<1> QED BY <1>2, <1>3

LEMMA PlayStep == IInv /\ Play => IInv'
<1> SUFFICES ASSUME IInv, Play PROVE IInv'
  OBVIOUS
<1> USE DEF IInv
<1>1. /\ cpc = "play" /\ cpc' = "busy"
      /\ UNCHANGED <<shared, producer, cidx, lastIdx, outcome>>
  BY DEF Play
<1>2. Taken' = Taken /\ Settled' = Settled /\ InLoop /\ InLoop' /\ InHand /\ InHand'
  BY <1>1 DEF Taken, Settled, InLoop, InHand, shared, producer
<1>3. TypeOK'
  BY <1>1 DEF TypeOK, shared, producer, outcome
<1>4. ProducerInv' /\ QueueInv' /\ OutcomeInv'
  BY <1>1, <1>2 DEF ProducerInv, QueueInv, OutcomeInv, shared, producer, outcome
<1>5. ConsumerInv' /\ FilesInv'
  BY <1>1, <1>2 DEF ConsumerInv, FilesInv, shared, producer, outcome
<1> QED BY <1>3, <1>4, <1>5

\* A fragment that has been started is heard or lost, and its file is removed.
LEMMA DoneStep ==
  ASSUME IInv, cpc \in {"play", "busy"}, cpc' = "guard", Remove(cidx),
         \/ spoken' = spoken \cup {cidx} /\ skipped' = skipped
         \/ skipped' = skipped \cup {cidx} /\ spoken' = spoken,
         UNCHANGED <<speaking, queue, producer, cidx, lastIdx, cursor, interrupted, error, joined>>
  PROVE  IInv'
<1> USE DEF IInv, producer, Remove
<1>1. InLoop /\ InHand /\ InLoop' /\ ~InHand' /\ Taken' = Taken /\ Settled' = Taken
      /\ Settled = Taken - 1
  BY DEF InLoop, InHand, Taken, Settled, TypeOK
<1>2. cidx \in Fragments /\ cidx = Taken - 1 /\ lastIdx = cidx /\ cidx \notin skipped
  BY <1>1 DEF ConsumerInv
<1>3. Taken \in Int /\ Taken <= pidx /\ Taken >= 0
  BY <1>1 DEF Taken, QueueInv, TypeOK
<1>4. cidx \notin spoken
  BY <1>1, <1>2, <1>3 DEF ConsumerInv
<1>5. TypeOK'
  BY <1>2 DEF TypeOK
<1>6. ProducerInv'
  <2>1. cidx < pidx
    BY <1>2, <1>3 DEF TypeOK
  <2>2. \A i \in skipped' : i < pidx \/ (i = pidx /\ ppc = "put" /\ pitem = None)
    BY <2>1 DEF ProducerInv
  <2>3. pidx \in skipped => pidx \in skipped'
    OBVIOUS
  <2> QED BY <2>2, <2>3 DEF ProducerInv
<1>7. QueueInv'
  <2>1. ASSUME NEW k \in 1..Len(queue) PROVE Taken + k - 1 # cidx
    BY <1>2, <1>3 DEF TypeOK
  <2> QED BY <1>1, <2>1 DEF QueueInv
<1>8. ConsumerInv'
  <2>1. \A i \in 0..(Taken - 1) : i \in 0..(Settled - 1) \/ i = cidx
    BY <1>1, <1>2, <1>3
  <2>2. \A i \in spoken' : i < Taken /\ i <= lastIdx
    <3>1. \A i \in spoken : i \in Int /\ i < Settled /\ i <= lastIdx
      BY <1>1 DEF ConsumerInv, TypeOK
    <3>2. spoken' \subseteq spoken \cup {cidx}
      OBVIOUS
    <3> QED BY <1>1, <1>2, <1>3, <3>1, <3>2
  <2>3. \A i \in 0..(Taken - 1) : i \in spoken' \cup skipped' /\ ~(i \in spoken' /\ i \in skipped')
    BY <1>1, <1>2, <1>4, <2>1 DEF ConsumerInv
  <2> QED BY <1>1, <1>2, <1>3, <2>2, <2>3 DEF ConsumerInv
<1>9. OutcomeInv'
  BY <1>1 DEF OutcomeInv
<1>10. FilesInv'
  BY <1>1 DEF FilesInv
<1> QED BY <1>5, <1>6, <1>7, <1>8, <1>9, <1>10

LEMMA PlayedStep == IInv /\ (Played \/ PlaybackFails) => IInv'
<1> SUFFICES ASSUME IInv, Played \/ PlaybackFails PROVE IInv'
  OBVIOUS
<1>1. CASE PlaybackFails
  BY <1>1, DoneStep DEF PlaybackFails, outcome
<1>2. CASE Played /\ speaking
  BY <1>2, DoneStep DEF Played
<1>3. CASE Played /\ ~speaking
  <2>1. InHand
    BY <1>3 DEF Played, InHand
  <2> QED BY <1>3, <2>1, CutStep DEF Played, Cut, Leave, CutCursor
<1> QED BY <1>1, <1>2, <1>3

-----------------------------------------------------------------------------
(* After the loop. *)

LEMMA JoinStep == IInv /\ (Join \/ JoinTimesOut \/ Return) => IInv'
<1> SUFFICES ASSUME IInv, Join \/ JoinTimesOut \/ Return PROVE IInv'
  OBVIOUS
<1> USE DEF IInv
<1>1. /\ cpc \in {"join", "drain"} /\ cpc' \in {"drain", "done"}
      /\ cpc' = "done" => queue = <<>>
      /\ joined' = joined \/ (joined' = TRUE /\ ppc = "done")
      /\ speaking' \in BOOLEAN
      /\ UNCHANGED <<queue, files, stray, skipped, producer, cidx, lastIdx, spoken, cursor, interrupted, error>>
  BY DEF Join, JoinTimesOut, Return, Drained, TypeOK, shared, outcome
<1>2. ~InLoop /\ ~InLoop' /\ ~InHand /\ ~InHand'
  BY <1>1 DEF InLoop, InHand
<1>3. TypeOK'
  <2>1. joined' \in BOOLEAN
    BY <1>1 DEF TypeOK
  <2> QED BY <1>1, <2>1 DEF TypeOK, producer
<1>4. ProducerInv' /\ QueueInv' /\ ConsumerInv' /\ OutcomeInv'
  BY <1>1, <1>2 DEF ProducerInv, QueueInv, ConsumerInv, OutcomeInv, producer
<1>5. FilesInv'
  BY <1>1, <1>2 DEF FilesInv, producer
<1> QED BY <1>3, <1>4, <1>5

LEMMA DrainStep == IInv /\ DrainOne => IInv'
<1> SUFFICES ASSUME IInv, DrainOne PROVE IInv'
  OBVIOUS
<1> USE DEF IInv
<1>1. /\ cpc = "drain" /\ queue \in Seq(Items) /\ queue # <<>> /\ queue' = Tail(queue)
      /\ stray' \in {stray, stray \cup ({Head(queue)} \cap files)}
      /\ files' = files \ ({Head(queue)} \ stray')
      /\ UNCHANGED <<speaking, skipped, producer, consumer, outcome>>
  BY DEF DrainOne, Remove, TypeOK
<1>2. /\ queue' \in Seq(Items) /\ Len(queue') = Len(queue) - 1 /\ Len(queue) \in Nat \ {0}
      /\ Head(queue) = queue[1]
      /\ \A k \in 1..Len(queue') : queue'[k] = queue[k + 1]
  BY <1>1, GetQueue
<1>3. ~InLoop /\ ~InLoop' /\ ~InHand /\ ~InHand'
  BY <1>1 DEF InLoop, InHand, consumer
<1>4. TypeOK'
  <2>1. files' \subseteq Fragments
    BY <1>1 DEF TypeOK
  <2>2. Len(queue') <= QueueMax
    BY <1>2 DEF TypeOK
  <2> QED BY <1>1, <1>2, <2>1, <2>2 DEF TypeOK, producer, consumer, outcome
<1>5. ProducerInv' /\ QueueInv' /\ ConsumerInv' /\ OutcomeInv'
  BY <1>1, <1>3 DEF ProducerInv, QueueInv, ConsumerInv, OutcomeInv, producer, outcome
<1>6. FilesInv'
  <2>1. ASSUME NEW f \in files' \ stray', NEW k \in 1..Len(queue), queue[k] = f
        PROVE  \E j \in 1..Len(queue') : queue'[j] = f
    <3>1. k # 1
      BY <1>1, <1>2, <2>1
    <3>2. k - 1 \in 1..Len(queue') /\ queue'[k - 1] = f
      BY <1>2, <2>1, <3>1
    <3> QED BY <3>2
  <2> QED BY <1>1, <1>3, <2>1 DEF FilesInv, producer, consumer, outcome
<1> QED BY <1>4, <1>5, <1>6

\* The cut flag means nothing to the invariant.
LEMMA FlagStep == IInv /\ (InterruptSpeaking \/ NextArms \/ UNCHANGED vars) => IInv'
<1> SUFFICES ASSUME IInv, InterruptSpeaking \/ NextArms \/ UNCHANGED vars PROVE IInv'
  OBVIOUS
<1>1. speaking' \in BOOLEAN /\ UNCHANGED <<queue, files, stray, skipped, producer, consumer, outcome>>
  BY DEF InterruptSpeaking, NextArms, vars, shared, IInv, TypeOK
<1>2. Taken' = Taken /\ Settled' = Settled /\ (InLoop' <=> InLoop) /\ (InHand' <=> InHand)
  BY <1>1 DEF InLoop, InHand, Taken, Settled, producer, consumer
<1>3. TypeOK'
  BY <1>1 DEF IInv, TypeOK, producer, consumer, outcome
<1>4. ProducerInv' /\ QueueInv' /\ OutcomeInv'
  BY <1>1, <1>2 DEF IInv, ProducerInv, QueueInv, OutcomeInv, producer, outcome
<1>5. ConsumerInv' /\ FilesInv'
  BY <1>1, <1>2 DEF IInv, ConsumerInv, FilesInv, producer, consumer, outcome
<1> QED BY <1>3, <1>4, <1>5 DEF IInv

LEMMA Inductive == Spec => []IInv
<1>1. IInv /\ [Next]_vars => IInv'
  BY CheckStep, SynthStep, PutStep, FinStep, GuardStep, DequeueStep, TimeoutStep, PrePlayStep,
     PlayStep, PlayedStep, JoinStep, DrainStep, FlagStep
  DEF Next, Producer, Consumer
<1> QED
  BY <1>1, InitIInv, PTL DEF Spec

-----------------------------------------------------------------------------
(* The theorems. *)

\* Both threads keep their shared state well typed: the queue never holds more than
\* its capacity.
THEOREM TypeCorrect == Spec => []TypeOK
<1>1. IInv => TypeOK
  BY DEF IInv
<1> QED
  BY <1>1, Inductive, PTL

\* After a cut or an error, whenever it came, each fragment below the reported
\* cursor was either heard to its end or lost, never both and never neither.
THEOREM ResumeIsExact == Spec => []ResumeLosesNothing
<1>1. IInv => ResumeLosesNothing
  <2> SUFFICES ASSUME IInv, cpc = "done", interrupted \/ error, NEW i \in 0..(cursor - 1)
               PROVE  (i \in spoken) # (i \in SkippedFinal)
    BY DEF ResumeLosesNothing
  <2>1. i \in spoken \cup skipped /\ ~(i \in spoken /\ i \in skipped)
    BY DEF IInv, OutcomeInv, InLoop
  <2>2. i \in SkippedFinal <=> i \in skipped
    BY DEF IInv, TypeOK, SkippedFinal
  <2> QED BY <2>1, <2>2
<1> QED
  BY <1>1, Inductive, PTL

\* No fragment that was heard to its end is at or above the cursor: a resume does
\* not repeat it.
THEOREM NothingRepeated == Spec => []ResumeRepeatsNothing
<1>1. IInv => ResumeRepeatsNothing
  BY DEF IInv, OutcomeInv, InLoop, ResumeRepeatsNothing
<1> QED
  BY <1>1, Inductive, PTL

\* An invocation that joined its producer has dealt with every audio file it made:
\* on disk it leaves only what a failed synthesis left there and what the system
\* refused to remove.
THEOREM FilesAccounted == Spec => []NoFileForgotten
<1>1. IInv => NoFileForgotten
  BY DEF IInv, FilesInv, InHand, NoFileForgotten
<1> QED
  BY <1>1, Inductive, PTL
-----------------------------------------------------------------------------
(* The invocation is the one call that SpeechSlice describes.               *)

\* What the flag tells of an end nobody announced: it is down when the producer
\* stopped short, and stays down until the call has returned.
FlagInv ==
  /\ interrupted /\ cpc # "done" => ~speaking
  /\ ppc \in {"fin", "done"} /\ pidx # N /\ cpc # "done" => ~speaking
  /\ ~InLoop /\ ~interrupted /\ ~error => ppc = "done" /\ cursor = N
  /\ ~(interrupted /\ error)

\* The end marker is only met once the producer is done.
LEMMA MarkerIsLast ==
  ASSUME IInv, cpc = "get", queue # <<>>, Head(queue) = FIN
  PROVE  ppc = "done"
<1>1. InLoop /\ queue \in Seq(Items) /\ Len(queue) \in Nat \ {0} /\ Head(queue) = queue[1]
  BY DEF IInv, TypeOK, InLoop
<1>2. Taken \in Nat /\ Taken <= N
  <2>1. Taken >= 0 /\ Len(queue) >= 1 /\ pidx \in 0..N
    BY <1>1 DEF IInv, QueueInv, TypeOK
  <2>2. QED
    BY <1>1, <2>1 DEF Taken
<1>3. ppc # "done" => queue[1] = Taken \/ queue[1] = None
  <2>1. \A k \in 1..Len(queue) :
          ppc # "done" => queue[k] = Taken + k - 1 \/ queue[k] = None
    BY <1>1 DEF IInv, QueueInv
  <2>2. 1 \in 1..Len(queue) /\ Taken + 1 - 1 = Taken
    BY <1>1, <1>2
  <2>3. QED
    BY <2>1, <2>2
<1>4. QED
  BY <1>1, <1>2, <1>3

LEMMA FlagInvStep == IInv /\ FlagInv /\ [Next]_vars => FlagInv'
<1> SUFFICES ASSUME IInv, FlagInv, [Next]_vars PROVE FlagInv'
  OBVIOUS
<1> USE DEF FlagInv, InLoop
<1>1. pidx \in 0..N /\ (InLoop => cursor = N /\ ~interrupted /\ ~error)
  BY DEF IInv, TypeOK, ConsumerInv
<1>2. CASE Producer
  BY <1>1, <1>2 DEF Producer, ProducerCheck, Synthesise, Put, PutFin, shared, consumer, outcome
<1>3. CASE Guard \/ PrePlay \/ Play \/ PlaybackFails \/ Played
  BY <1>1, <1>3 DEF Guard, PrePlay, Play, PlaybackFails, Played, Cut, Leave, shared, producer,
                    outcome
<1>4. CASE Dequeue
  BY <1>1, <1>4, MarkerIsLast DEF Dequeue, producer, outcome
<1>5. CASE DequeueTimesOut
  BY <1>1, <1>5 DEF DequeueTimesOut, Leave, shared, producer
<1>6. CASE Join \/ JoinTimesOut \/ DrainOne \/ Return
  BY <1>6 DEF Join, JoinTimesOut, DrainOne, Return, shared, producer, consumer, outcome
<1>7. CASE InterruptSpeaking \/ NextArms \/ UNCHANGED vars
  BY <1>7 DEF InterruptSpeaking, NextArms, vars, shared, producer, consumer, outcome
<1>8. QED
  BY <1>2, <1>3, <1>4, <1>5, <1>6, <1>7 DEF Next, Consumer

\* A move of the cursor is a loss of the fragments in between, or none.
LEMMA MoveIsLoss ==
  ASSUME SliceAt \in Nat, SliceAt' \in SliceAt..N, cpc # "done", cpc' # "done",
         UNCHANGED <<speaking, spoken>>
  PROVE  Slice!Lose \/ UNCHANGED Slice!vars
<1>1. SliceVerdict = "playing" /\ SliceVerdict' = "playing" /\ N' = N
  BY DEF SliceVerdict
<1>2. CASE SliceAt' = SliceAt
  BY <1>1, <1>2 DEF Slice!vars
<1>3. CASE SliceAt' # SliceAt
  <2>1. SliceAt' \in (SliceAt + 1)..N
    BY <1>3
  <2>2. QED
    BY <1>1, <2>1 DEF Slice!Lose, Slice!Moves, Slice!Playing
<1>4. QED
  BY <1>2, <1>3

LEMMA StepIsSlice == IInv /\ FlagInv /\ [Next]_vars => [Slice!Next]_(Slice!vars)
<1> SUFFICES ASSUME IInv, FlagInv, [Next]_vars PROVE Slice!Next \/ UNCHANGED Slice!vars
  OBVIOUS
<1>1. /\ pidx \in 0..N /\ lastIdx \in Fragments \cup {-1} /\ cidx \in Fragments \cup {None}
      /\ cursor \in 0..N
  BY DEF IInv, TypeOK
<1>2. /\ InLoop => ~interrupted /\ ~error /\ cursor = N
      /\ InHand => cidx \in Fragments /\ cidx = Taken - 1 /\ Settled = Taken - 1
      /\ cpc = "prePlay" => lastIdx < cidx
      /\ cpc \in {"play", "busy"} => lastIdx = cidx
  BY DEF IInv, ConsumerInv, InLoop, InHand, Settled
<1>3. CASE Producer
  <2>1. UNCHANGED <<speaking, consumer, outcome>>
    BY <1>3 DEF Producer, ProducerCheck, Synthesise, Put, PutFin, shared
  <2>2. ~InLoop /\ ~interrupted /\ ~error => FALSE
    BY <1>3 DEF FlagInv, Producer, ProducerCheck, Synthesise, Put, PutFin
  <2>3. SliceAt' = SliceAt /\ SliceVerdict' = SliceVerdict
    BY <2>1, <2>2 DEF SliceAt, SliceVerdict, InLoop, consumer, outcome
  <2>4. QED
    BY <2>1, <2>3 DEF Slice!vars, outcome
<1>4. CASE Guard \/ PrePlay \/ Play \/ PlaybackFails \/ DequeueTimesOut
  <2>1. cpc # "done" /\ cpc' # "done" /\ UNCHANGED <<speaking, spoken>>
    BY <1>4 DEF Guard, PrePlay, Play, PlaybackFails, DequeueTimesOut, Cut, Leave, shared, outcome
  <2>2. SliceAt \in Nat /\ SliceAt' \in SliceAt..N
    BY <1>1, <1>2, <1>4 DEF Guard, PrePlay, Play, PlaybackFails, DequeueTimesOut, ErrorCursor,
         Cut, Leave, SliceAt, InLoop, InHand, shared, outcome
  <2>3. QED
    BY <2>1, <2>2, MoveIsLoss DEF Slice!Next
<1>5. CASE Dequeue
  <2>1. cpc # "done" /\ cpc' # "done" /\ UNCHANGED <<speaking, spoken>>
    BY <1>5 DEF Dequeue, outcome
  <2>2. SliceAt \in Nat /\ SliceAt' \in SliceAt..N
    BY <1>1, <1>2, <1>5 DEF Dequeue, SliceAt, InLoop, outcome, producer
  <2>3. QED
    BY <2>1, <2>2, MoveIsLoss DEF Slice!Next
<1>6. CASE Played
  <2>1. CASE speaking
    <3>1. /\ SliceAt = cidx /\ SliceAt' = cidx + 1 /\ spoken' = spoken \cup {cidx}
          /\ SliceVerdict = "playing" /\ SliceVerdict' = "playing" /\ speaking' = speaking
          /\ cidx \in Fragments
      BY <1>1, <1>2, <1>6, <2>1 DEF Played, SliceAt, SliceVerdict, InLoop, InHand, consumer
    <3>2. Slice!Hear
      BY <2>1, <3>1 DEF Slice!Hear, Slice!Moves, Slice!Playing
    <3>3. QED
      BY <3>2 DEF Slice!Next
  <2>2. CASE ~speaking
    <3>1. UNCHANGED <<speaking, SliceAt, spoken, SliceVerdict>>
      BY <1>2, <1>6, <2>2 DEF Played, CutCursor, Cut, Leave, SliceAt, SliceVerdict, InLoop
    <3>2. QED
      BY <3>1 DEF Slice!vars
  <2>3. QED
    BY <2>1, <2>2
<1>7. CASE Join \/ JoinTimesOut \/ DrainOne
  <2>1. UNCHANGED <<speaking, SliceAt, spoken, SliceVerdict>>
    BY <1>7 DEF Join, JoinTimesOut, DrainOne, SliceAt, SliceVerdict, InLoop, shared, producer,
                consumer, outcome
  <2>2. QED
    BY <2>1 DEF Slice!vars
<1>8. CASE Return
  <2>1. /\ SliceVerdict = "playing" /\ ~speaking' /\ SliceAt' = cursor /\ UNCHANGED spoken
        /\ SliceVerdict' = IF interrupted THEN "interrupted" ELSE IF error THEN "error"
                           ELSE "complete"
    BY <1>8 DEF Return, SliceAt, SliceVerdict, outcome
  <2>2. interrupted \/ error => SliceAt = cursor
    BY <1>8 DEF Return, SliceAt
  <2>3. CASE interrupted
    <3>1. Slice!IsCut
      BY <1>8, <2>1, <2>2, <2>3 DEF Return, FlagInv, Slice!IsCut, Slice!Returns, Slice!Playing
    <3>2. QED
      BY <2>1, <3>1 DEF Slice!Next, Slice!Return
  <2>4. CASE ~interrupted /\ error
    <3>1. Slice!TimesOut
      BY <2>1, <2>2, <2>4 DEF Slice!TimesOut, Slice!Returns, Slice!Playing
    <3>2. QED
      BY <2>1, <3>1 DEF Slice!Next, Slice!Return
  <2>5. CASE ~interrupted /\ ~error
    <3>1. cursor = N /\ ppc = "done" /\ (pidx # N => ~speaking) /\ (pidx = N => SliceAt = N)
      BY <1>8, <2>5 DEF Return, FlagInv, SliceAt, InLoop
    <3>2. Slice!Completes
      BY <2>1, <2>5, <3>1 DEF Slice!Completes, Slice!Returns, Slice!Playing
    <3>3. QED
      BY <2>1, <3>2 DEF Slice!Next, Slice!Return
  <2>6. QED
    BY <2>3, <2>4, <2>5
<1>9. CASE InterruptSpeaking \/ NextArms
  <2>1. UNCHANGED <<SliceAt, spoken, SliceVerdict>> /\ (SliceVerdict # "playing" \/ ~speaking')
    BY <1>9 DEF InterruptSpeaking, NextArms, SliceAt, SliceVerdict, InLoop, producer, consumer,
                outcome
  <2>2. QED
    BY <2>1 DEF Slice!Next, Slice!Flag, Slice!Playing
<1>10. CASE UNCHANGED vars
  BY <1>10 DEF vars, shared, producer, consumer, outcome, Slice!vars, SliceAt, SliceVerdict, InLoop
<1>11. QED
  BY <1>3, <1>4, <1>5, <1>6, <1>7, <1>8, <1>9, <1>10 DEF Next, Consumer

\* The threads of an invocation together implement the one call its caller thinks
\* of: each step of theirs is a fragment heard or lost, the return, a cut, or nothing
\* the caller can see, for slices and queues of any length.
THEOREM ImplementsSlice == Spec => SliceSpec
<1>1. Init => FlagInv /\ Slice!Init
  BY DEF Init, FlagInv, InLoop, Slice!Init, SliceAt, SliceVerdict
<1>2. QED
  BY <1>1, Inductive, FlagInvStep, StepIsSlice, PTL DEF Spec, SliceSpec, Slice!Spec
=============================================================================
