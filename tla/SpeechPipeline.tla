--------------------------- MODULE SpeechPipeline ---------------------------
(***************************************************************************)
(* One invocation of _hablar_impl (core/engine/llm_engine_speech.py): a    *)
(* producer thread synthesises fragments into a bounded queue, the calling *)
(* thread plays them, and any other thread may cut the speech by clearing  *)
(* _speaking.  The invocation returns a SpeechOutcome from which the       *)
(* router resumes the job: a fragment whose index is below the cursor is   *)
(* never played again, one at or above it is.                              *)
(*                                                                         *)
(* _speaking outlives the invocation: the next one arms it again while a   *)
(* producer that was not joined in time may still be running.              *)
(***************************************************************************)
EXTENDS Integers, FiniteSets, Sequences

CONSTANTS N,           \* fragments of the slice, indices 0..N-1
          QueueMax     \* capacity of the audio queue (3 in the code)

ASSUME PipelineAssumption == N \in Nat \ {0} /\ QueueMax \in Nat \ {0}

Fragments == 0..(N - 1)
None == N              \* the placeholder a dropped fragment puts in the queue
FIN == N + 1           \* the producer's end marker

VARIABLES
  speaking,            \* the cut flag, under the motor's _lock
  queue,               \* cola_audios
  files,               \* fragments with an audio file on disk
  stray,               \* those whose file nothing will remove any more
  skipped,             \* fragments lost to a synthesis or a playback failure
  ppc, pidx, pitem,    \* the producer: step, fragment, item to enqueue
  cpc, cidx, lastIdx,  \* the consumer: step, fragment in hand, last one started
  spoken, cursor, interrupted, error,    \* the outcome under construction
  joined               \* the producer had ended before the leftovers were drained

shared == <<speaking, queue, files, stray, skipped>>
producer == <<ppc, pidx, pitem>>
consumer == <<cpc, cidx, lastIdx>>
outcome == <<spoken, cursor, interrupted, error, joined>>
vars == <<shared, producer, consumer, outcome>>

\* The flag has been armed; the closure-B1 check may have cleared it again.
Init ==
  /\ speaking \in BOOLEAN
  /\ queue = <<>> /\ files = {} /\ stray = {} /\ skipped = {}
  /\ ppc = "check" /\ pidx = 0 /\ pitem = None
  /\ cpc = "guard" /\ cidx = None /\ lastIdx = -1
  /\ spoken = {} /\ cursor = N /\ interrupted = FALSE /\ error = FALSE /\ joined = FALSE

-----------------------------------------------------------------------------
(* The producer thread. *)

\* The flag is read once per fragment, with no lock.
ProducerCheck ==
  /\ ppc = "check"
  /\ ppc' = IF pidx \in Fragments /\ speaking THEN "synth" ELSE "fin"
  /\ UNCHANGED <<shared, pidx, pitem, consumer, outcome>>

\* A fragment becomes an audio file, or is dropped (_drop).  An attempt that fails,
\* the last one or an earlier one, may leave the file it had opened.
Synthesise ==
  /\ ppc = "synth"
  /\ stray' \in {stray, stray \cup {pidx}}
  /\ \/ pitem' = pidx /\ files' = files \cup {pidx} /\ UNCHANGED skipped
     \/ pitem' = None /\ files' = files \cup stray' /\ skipped' = skipped \cup {pidx}
  /\ ppc' = "put"
  /\ UNCHANGED <<speaking, queue, pidx, consumer, outcome>>

\* put blocks while the queue is full.
Put ==
  /\ ppc = "put" /\ Len(queue) < QueueMax
  /\ queue' = Append(queue, pitem)
  /\ pidx' = pidx + 1 /\ ppc' = "check"
  /\ UNCHANGED <<speaking, files, stray, skipped, pitem, consumer, outcome>>

PutFin ==
  /\ ppc = "fin" /\ Len(queue) < QueueMax
  /\ queue' = Append(queue, FIN)
  /\ ppc' = "done"
  /\ UNCHANGED <<speaking, files, stray, skipped, pidx, pitem, consumer, outcome>>

-----------------------------------------------------------------------------
(* The consumer: the thread that called _hablar. *)

\* The loop is left with the index the outcome resumes from.
Leave(at) == cpc' = "join" /\ cursor' = at /\ UNCHANGED <<spoken, joined>>
Cut(at) == Leave(at) /\ interrupted' = TRUE /\ UNCHANGED error
\* os.remove may be refused; the refusal is swallowed.
Remove(i) ==
  /\ stray' \in {stray, stray \cup ({i} \cap files)}
  /\ files' = files \ ({i} \ stray')

\* The flag is looked at before a fragment is dequeued.
Guard ==
  /\ cpc = "guard"
  /\ IF speaking THEN cpc' = "get" /\ UNCHANGED outcome ELSE Cut(lastIdx + 1)
  /\ UNCHANGED <<shared, producer, cidx, lastIdx>>

Dequeue ==
  /\ cpc = "get" /\ queue # <<>>
  /\ queue' = Tail(queue)
  /\ cpc' = CASE Head(queue) = FIN -> "join"
              [] Head(queue) = None -> "guard"
              [] OTHER -> "prePlay"
  /\ cidx' = IF Head(queue) \in Fragments THEN Head(queue) ELSE cidx
  /\ UNCHANGED <<speaking, files, stray, skipped, producer, lastIdx, outcome>>

\* TTS_AUDIO_QUEUE_TIMEOUT ran out before the producer delivered anything.
ReplayLast == lastIdx             \* mutant: the last fragment is owed again
ErrorCursor == lastIdx + 1
DequeueTimesOut ==
  /\ cpc = "get" /\ queue = <<>>
  /\ Leave(ErrorCursor) /\ error' = TRUE
  /\ UNCHANGED <<shared, producer, cidx, lastIdx, interrupted>>

\* The flag is looked at again with the fragment in hand.
PrePlay ==
  /\ cpc = "prePlay"
  /\ IF speaking
     THEN cpc' = "play" /\ lastIdx' = cidx /\ UNCHANGED <<outcome, files, stray>>
     ELSE Cut(cidx) /\ Remove(cidx) /\ UNCHANGED lastIdx
  /\ UNCHANGED <<speaking, queue, skipped, producer, cidx>>

Play ==
  /\ cpc = "play"
  /\ cpc' = "busy"
  /\ UNCHANGED <<shared, producer, cidx, lastIdx, outcome>>

\* The mixer raised: this fragment is lost, the slice goes on.
PlaybackFails ==
  /\ cpc \in {"play", "busy"}
  /\ skipped' = skipped \cup {cidx} /\ Remove(cidx)
  /\ cpc' = "guard"
  /\ UNCHANGED <<speaking, queue, producer, cidx, lastIdx, outcome>>

\* The busy-wait ends with the track or with the flag.  The flag alone then
\* decides whether the fragment counts as spoken or is owed a replay.
CutCursorNext == cidx + 1         \* mutant: the cut fragment counts as heard
CutCursor == cidx
Played ==
  /\ cpc = "busy"
  /\ IF speaking
     THEN /\ spoken' = spoken \cup {cidx} /\ cpc' = "guard"
          /\ UNCHANGED <<cursor, interrupted, error, joined>>
     ELSE Cut(CutCursor)
  /\ Remove(cidx)
  /\ UNCHANGED <<speaking, queue, skipped, producer, cidx, lastIdx>>

\* The producer is joined first, then what it left in the queue is drained.
Join ==
  /\ cpc = "join" /\ ppc = "done"
  /\ cpc' = "drain" /\ joined' = TRUE
  /\ UNCHANGED <<shared, producer, cidx, lastIdx, spoken, cursor, interrupted, error>>

\* Mutant: join() is called with no timeout.
NoTimeout == FALSE /\ UNCHANGED vars

\* join(timeout=2.0) gives up on a producer that is still synthesising.
JoinTimesOut ==
  /\ cpc = "join" /\ ppc # "done"
  /\ cpc' = "drain"
  /\ UNCHANGED <<shared, producer, cidx, lastIdx, outcome>>

DrainOne ==
  /\ cpc = "drain" /\ queue # <<>>
  /\ queue' = Tail(queue) /\ Remove(Head(queue))
  /\ UNCHANGED <<speaking, skipped, producer, consumer, outcome>>

Undrained == TRUE                 \* mutant: what the queue still holds is left
Drained == queue = <<>>
Return ==
  /\ cpc = "drain" /\ Drained
  /\ speaking' = FALSE
  /\ cpc' = "done"
  /\ UNCHANGED <<queue, files, stray, skipped, producer, cidx, lastIdx, outcome>>

-----------------------------------------------------------------------------
(* The other threads. *)

\* interrupt_speaking(), from a PTT press, a preempt or the emergency stop.
InterruptSpeaking ==
  /\ speaking
  /\ speaking' = FALSE
  /\ UNCHANGED <<queue, files, stray, skipped, producer, consumer, outcome>>

\* The next invocation arms the flag again.
NextArms ==
  /\ cpc = "done" /\ ~speaking
  /\ speaking' = TRUE
  /\ UNCHANGED <<queue, files, stray, skipped, producer, consumer, outcome>>

Producer == ProducerCheck \/ Synthesise \/ Put \/ PutFin
Consumer == \/ Guard \/ Dequeue \/ DequeueTimesOut \/ PrePlay \/ Play \/ PlaybackFails \/ Played
            \/ Join \/ JoinTimesOut \/ DrainOne \/ Return
Next == Producer \/ Consumer \/ InterruptSpeaking \/ NextArms

Spec == Init /\ [][Next]_vars

\* The calling thread runs; a synthesis may hang for ever.
FairSpec == Spec /\ WF_vars(Consumer)

-----------------------------------------------------------------------------
(* Properties. *)

Items == Fragments \cup {None, FIN}

TypeOK ==
  /\ speaking \in BOOLEAN
  /\ queue \in Seq(Items) /\ Len(queue) <= QueueMax
  /\ files \subseteq Fragments /\ stray \subseteq files /\ skipped \subseteq Fragments /\ spoken \subseteq Fragments
  /\ ppc \in {"check", "synth", "put", "fin", "done"} /\ pidx \in 0..N /\ pitem \in Fragments \cup {None}
  /\ cpc \in {"guard", "get", "prePlay", "play", "busy", "join", "drain", "done"}
  /\ cidx \in Fragments \cup {None} /\ lastIdx \in Fragments \cup {-1}
  /\ cursor \in 0..N /\ interrupted \in BOOLEAN /\ error \in BOOLEAN /\ joined \in BOOLEAN

\* skipped_final: a drop the cut never reached goes back to pending.
SkippedFinal == {i \in skipped : i < cursor}

\* After a cut or an error the cursor is exact: every fragment below it was
\* heard to its end or lost, and not both, so a resume loses nothing it owes.
ResumeLosesNothing ==
  (cpc = "done" /\ (interrupted \/ error)) =>
    \A i \in 0..(cursor - 1) : (i \in spoken) # (i \in SkippedFinal)

\* A resume never repeats a fragment that was heard to its end.
ResumeRepeatsNothing == cpc = "done" => \A i \in spoken : i < cursor

\* No audio file is forgotten when the producer was joined in time: the order join,
\* then drain, is what makes this true.  What is still on disk is what the code gives
\* up knowingly, the output of a failed synthesis or a file the system would not remove.
NoFileForgotten == (cpc = "done" /\ joined) => files \subseteq stray

\* The invocation always returns: not even a synthesis that never comes back
\* keeps the router thread, and with it all speech, waiting.
AlwaysReturns == <>(cpc = "done")

\* Every fragment index ends in exactly one of spoken, skipped and pending.
LedgerIsExact ==
  cpc = "done" => \A i \in Fragments : i >= cursor \/ i \in spoken \/ i \in SkippedFinal

\* The caller's view of the invocation (module SpeechSlice).  A placeholder that
\* nothing was played after is not dealt with yet: a cut owes it again.
InLoop == cpc \in {"guard", "get", "prePlay", "play", "busy"}
SliceAt ==
  IF cpc \in {"play", "busy"} THEN cidx
  ELSE IF cpc = "done" \/ interrupted \/ error THEN cursor
  ELSE IF ~InLoop /\ pidx = N THEN N
  ELSE lastIdx + 1
SliceVerdict ==
  IF cpc # "done" THEN "playing"
  ELSE IF interrupted THEN "interrupted" ELSE IF error THEN "error" ELSE "complete"
Slice == INSTANCE SpeechSlice
           WITH size <- N, at <- SliceAt, heard <- spoken, verdict <- SliceVerdict

\* The producer, the queue and the consumer together are the one call the router
\* thinks of: what it goes on from is where the speech really stood, however the
\* cut, the losses and the end of the queue race.
SliceSpec == Slice!Spec
=============================================================================
