---------------------------- MODULE SpeechRouter ----------------------------
(***************************************************************************)
(* The speech scheduler of OpenCohost (core/speech/router.py): one daemon  *)
(* thread that owns every _hablar call, a priority queue of new jobs, a    *)
(* LIFO stack of suspended ones, the push-to-talk hold, the sweeps of the  *)
(* emergency stop, and the one speaking_start / speaking_end pair per      *)
(* outermost job that the avatar and the agenda react to.                  *)
(*                                                                         *)
(* One action is one critical section of _sched_lock (or of the motor's    *)
(* _lock), or one call-out made while no lock is held; everything between  *)
(* two of them may interleave with the other threads:                      *)
(*   router     the SpeechRouter thread            (rpc, rjob, out, ...)   *)
(*   Submitters the engine worker, warm-up threads (spc, sjob, victim)     *)
(*   operator   the PTT press and release, serialised by PttController     *)
(*   emergency  the stop and enable handlers, serialised by agenda_lock    *)
(* Text is abstracted to the number of fragments it is split into.         *)
(***************************************************************************)
EXTENDS Integers, FiniteSets

CONSTANTS
  MaxJobs,           \* how many jobs are ever submitted
  Sizes,             \* how many fragments a text submitted whole is split into
  Streaming,         \* whether streaming jobs are submitted too
  MaxChunks,         \* the most fragments a streaming job is fed
  Kinds,             \* the kinds of source that submit
  Submitters,        \* threads that call submit / submit_streaming
  MaxPresses,        \* how often the PTT key goes down
  MaxStops,          \* how often the emergency stop is used
  InterruptEnabled   \* the step-3 switch: preemption and the PTT hold

ASSUME RouterAssumption ==
  /\ MaxJobs \in Nat /\ Sizes \subseteq Nat
  /\ Streaming \in BOOLEAN /\ MaxChunks \in Nat
  /\ MaxPresses \in Nat /\ MaxStops \in Nat
  /\ InterruptEnabled \in BOOLEAN
  /\ Kinds \subseteq {"owner", "notice", "chat", "agenda"}

Jobs == 1..MaxJobs        \* a job is its job_id, which is also its age
NoJob == 0

VARIABLES
  \* the fields of a SpeechJob
  kind, state, chunks, split, cursor, sealed, pauseReq, retried, started,
  \* the scheduler, under _sched_lock
  nextId, incoming, active, stack, pttHeld, owner, owedEnd,
  \* the motor: the cut flag and the emergency stop's cancel token
  speaking, cancelled,
  \* the router thread
  rpc, rjob, out, sawCancel,
  \* the submitting threads, the operator and the emergency handler
  spc, sjob, victim, opc, presses, epc, stops,
  \* what the consumers of ui_callback have received
  open, ui,          \* open: speaking_start minus speaking_end
  \* history: who cut the running slice when its job carried no pause request
  bareCut

jobVars == <<kind, state, chunks, split, cursor, sealed, pauseReq, retried, started>>
schedVars == <<nextId, incoming, active, stack, pttHeld, owner, owedEnd>>
motorVars == <<speaking, cancelled>>
routerVars == <<rpc, rjob, out, sawCancel>>
submitVars == <<spc, sjob, victim>>
controlVars == <<opc, presses, epc, stops>>
eventVars == <<open, ui>>
outsideVars == <<submitVars, controlVars>>
vars == <<jobVars, schedVars, motorVars, routerVars, submitVars, controlVars, eventVars, bareCut>>

-----------------------------------------------------------------------------
(* Priorities, sources and the sets the scheduler is made of. *)

\* 0 owner, 1 chat, 2 agenda.  The cloud-fallback notice keeps the source of
\* the failed turn but is submitted in the chat band.
Priority(j) == CASE kind[j] = "owner" -> 0
                 [] kind[j] \in {"chat", "notice"} -> 1
                 [] OTHER -> 2

Precedes(j, k) == \/ Priority(j) < Priority(k)
                  \/ Priority(j) = Priority(k) /\ j <= k

Terminal == {"FINISHED", "DISCARDED"}
OnStack == {j \in Jobs : stack[j] > 0}      \* stack[j] is j's height, 0 off the stack
HasWorkForgetsOwed == active # NoJob \/ incoming # {} \/ OnStack # {}    \* mutant
HasWork == active # NoJob \/ incoming # {} \/ OnStack # {} \/ owedEnd

\* The emergency token refuses the kira-agenda* sources.
SpeechCancelled(j) == cancelled /\ kind[j] = "agenda"

\* What a sweep of a source prefix removes from the stack.
SweptBy(prefix) == {j \in OnStack : \/ prefix = "agenda" /\ kind[j] = "agenda"
                                    \/ prefix = "owner" /\ kind[j] \in {"owner", "notice"}}

NoOutcome == [size |-> 0, cursor |-> 0, interrupted |-> FALSE, error |-> FALSE, raised |-> FALSE]

Init ==
  /\ kind = [j \in Jobs |-> "none"] /\ state = [j \in Jobs |-> "NONE"]
  /\ chunks = [j \in Jobs |-> 0] /\ split = [j \in Jobs |-> FALSE] /\ cursor = [j \in Jobs |-> 0]
  /\ sealed = [j \in Jobs |-> TRUE] /\ pauseReq = [j \in Jobs |-> FALSE]
  /\ retried = [j \in Jobs |-> FALSE] /\ started = [j \in Jobs |-> FALSE]
  /\ nextId = 1 /\ incoming = {} /\ active = NoJob /\ stack = [j \in Jobs |-> 0]
  /\ pttHeld = FALSE /\ owner = NoJob /\ owedEnd = FALSE
  /\ speaking = FALSE /\ cancelled = FALSE
  /\ rpc = "top" /\ rjob = NoJob /\ out = NoOutcome /\ sawCancel = FALSE
  /\ spc = [t \in Submitters |-> "idle"]
  /\ sjob = [t \in Submitters |-> NoJob] /\ victim = [t \in Submitters |-> NoJob]
  /\ opc = "up" /\ presses = 0 /\ epc = "idle" /\ stops = 0
  /\ open = 0 /\ ui = "none" /\ bareCut = "none"

-----------------------------------------------------------------------------
(* Steps shared by several operations. *)

\* interrupt_speaking(): the cut flag goes down under _lock.  History: the
\* invocation it lands in had no pause request, so reconcile will discard it.
Interrupt(who) ==
  /\ speaking' = FALSE
  /\ bareCut' = IF rpc \in {"b1", "play"} /\ active # NoJob /\ ~pauseReq[active]
                THEN who ELSE bareCut

\* Mutant: the end of a swept owner is forgotten.
SweepForgetsEnd(prefix) ==
  LET removed == SweptBy(prefix) IN
  /\ stack' = [j \in Jobs |-> IF j \in removed THEN 0 ELSE stack[j]]
  /\ state' = [j \in Jobs |-> IF j \in removed THEN "DISCARDED" ELSE state[j]]
  /\ owner' = IF owner \in removed THEN NoJob ELSE owner
  /\ UNCHANGED owedEnd

\* sweep_sources: the stack loses every matching entry at any depth; a swept
\* boundary owner leaves an end owed to the router thread.
SweepSources(prefix) ==
  LET removed == SweptBy(prefix) IN
  /\ stack' = [j \in Jobs |-> IF j \in removed THEN 0 ELSE stack[j]]
  /\ state' = [j \in Jobs |-> IF j \in removed THEN "DISCARDED" ELSE state[j]]
  /\ owner' = IF owner \in removed THEN NoJob ELSE owner
  /\ owedEnd' = (owedEnd \/ owner \in removed)

\* _run_job returns without a terminal verdict.
BackToLoop ==
  /\ rpc' = "top" /\ rjob' = NoJob /\ out' = NoOutcome /\ sawCancel' = FALSE
  /\ bareCut' = "none"

\* The lowest height above every suspended job.
Above(d) == \A k \in OnStack : stack[k] < d
PutOnTop(j) ==
  \E d \in Jobs : /\ Above(d) /\ \A e \in Jobs : Above(e) => d <= e
                  /\ stack' = [stack EXCEPT ![j] = d]

\* _push_suspended: the request dies with the suspension it asked for.
KeptRequest(j) == pauseReq[j]    \* mutant: the request outlives the suspension
SpentRequest(j) == FALSE
PushSuspended(j) ==
  /\ PutOnTop(j)
  /\ state' = [state EXCEPT ![j] = "SUSPENDED"]
  /\ pauseReq' = [pauseReq EXCEPT ![j] = SpentRequest(j)]
  /\ active' = NoJob
  /\ BackToLoop

EmitStart == open' = open + 1 /\ ui' = "speaking_start"
EmitEnd == open' = open - 1 /\ ui' = "speaking_end" /\ speaking' = FALSE
EmitIdle == ui' = "idle" /\ UNCHANGED open

-----------------------------------------------------------------------------
(* Submitting threads: submit, submit_streaming, append_chunks, seal. *)

\* The submitting thread goes on to step `to`, keeping the locals it still needs.
Goes(t, to, job, seen) ==
  /\ spc' = [spc EXCEPT ![t] = to]
  /\ sjob' = [sjob EXCEPT ![t] = IF to = "idle" THEN NoJob ELSE job]
  /\ victim' = [victim EXCEPT ![t] = IF to \in {"sweep", "pause"} THEN seen ELSE NoJob]

\* submit returns: the thread is done, or starts feeding its streaming job.
SubmitReturns(t) == Goes(t, IF sealed[sjob[t]] THEN "idle" ELSE "feed", sjob[t], NoJob)

\* The first critical section: the job is queued and the victim is observed.
Submit(t) ==
  /\ spc[t] = "idle" /\ nextId \in Jobs
  /\ \E k \in Kinds, n \in Sizes \cup {0}, streaming \in BOOLEAN :
       /\ IF streaming THEN Streaming /\ n = 0 ELSE n \in Sizes
       /\ kind' = [kind EXCEPT ![nextId] = k]
       /\ chunks' = [chunks EXCEPT ![nextId] = n]
       /\ sealed' = [sealed EXCEPT ![nextId] = ~streaming]
       /\ split' = [split EXCEPT ![nextId] = streaming]
       /\ Goes(t, IF k = "owner" THEN "sweep" ELSE IF streaming THEN "feed" ELSE "idle",
               nextId, IF InterruptEnabled THEN active ELSE NoJob)
  /\ state' = [state EXCEPT ![nextId] = "QUEUED"]
  /\ incoming' = incoming \cup {nextId}
  /\ nextId' = nextId + 1
  /\ UNCHANGED <<cursor, pauseReq, retried, started, active, stack, pttHeld, owner, owedEnd,
                 motorVars, routerVars, controlVars, eventVars, bareCut>>

\* An owner submit sweeps the suspended owner speech it supersedes.
SubmitSweep(t) ==
  /\ spc[t] = "sweep"
  /\ SweepSources("owner")
  /\ IF victim[t] = NoJob THEN SubmitReturns(t) ELSE Goes(t, "pause", sjob[t], victim[t])
  /\ UNCHANGED <<kind, chunks, split, cursor, sealed, pauseReq, retried, started, nextId, incoming,
                 active, pttHeld, motorVars, routerVars, controlVars, eventVars, bareCut>>

\* pause_speech(target): publish the request before the cut, or abort when the
\* observed victim has left ACTIVE.
PauseSpeech(t) ==
  /\ spc[t] = "pause"
  /\ IF active = victim[t]
     THEN pauseReq' = [pauseReq EXCEPT ![active] = TRUE] /\ Goes(t, "cut", sjob[t], NoJob)
     ELSE SubmitReturns(t) /\ UNCHANGED pauseReq
  /\ UNCHANGED <<kind, state, chunks, split, cursor, sealed, retried, started, schedVars,
                 motorVars, routerVars, controlVars, eventVars, bareCut>>

PauseCut(t) ==
  /\ spc[t] = "cut"
  /\ Interrupt("preempt")
  /\ SubmitReturns(t)
  /\ UNCHANGED <<jobVars, schedVars, cancelled, routerVars, controlVars, eventVars>>

\* append_chunks: a finished or discarded job refuses, the producer then seals.
AppendChunks(t) ==
  /\ spc[t] = "feed" /\ state[sjob[t]] \notin Terminal /\ chunks[sjob[t]] < MaxChunks
  /\ chunks' = [chunks EXCEPT ![sjob[t]] = @ + 1]
  /\ UNCHANGED <<kind, state, split, cursor, sealed, pauseReq, retried, started, schedVars,
                 motorVars, routerVars, submitVars, controlVars, eventVars, bareCut>>

\* seal: end of the stream, a guard trip, a cancelled source or a refusal.
Seal(t) ==
  /\ spc[t] = "feed"
  /\ sealed' = [sealed EXCEPT ![sjob[t]] = TRUE]
  /\ Goes(t, "idle", NoJob, NoJob)
  /\ UNCHANGED <<kind, state, chunks, split, cursor, pauseReq, retried, started, schedVars,
                 motorVars, routerVars, controlVars, eventVars, bareCut>>

-----------------------------------------------------------------------------
(* The operator (PTT), the emergency stop and the new-turn drain. *)

\* Mutant: the hold is armed first and the request left to a later step.
HoldOnly ==
  /\ InterruptEnabled /\ opc \in {"up", "held"} /\ presses < MaxPresses
  /\ presses' = presses + 1
  /\ pttHeld' = TRUE
  /\ opc' = IF active # NoJob THEN "cut" ELSE "held"
  /\ UNCHANGED <<jobVars, nextId, incoming, active, stack, owner, owedEnd, motorVars, routerVars,
                 submitVars, epc, stops, eventVars, bareCut>>

\* hold_and_pause: hold and request in one critical section, the cut after it.
HoldAndPause ==
  /\ InterruptEnabled /\ opc \in {"up", "held"} /\ presses < MaxPresses
  /\ presses' = presses + 1
  /\ pttHeld' = TRUE
  /\ IF active # NoJob
     THEN pauseReq' = [pauseReq EXCEPT ![active] = TRUE] /\ opc' = "cut"
     ELSE opc' = "held" /\ UNCHANGED pauseReq
  /\ UNCHANGED <<kind, state, chunks, split, cursor, sealed, retried, started, nextId, incoming,
                 active, stack, owner, owedEnd, motorVars, routerVars, submitVars, epc, stops,
                 eventVars, bareCut>>

HoldCut ==
  /\ opc = "cut"
  /\ Interrupt("press")
  /\ opc' = "held"
  /\ UNCHANGED <<jobVars, schedVars, cancelled, routerVars, submitVars, presses, epc, stops, eventVars>>

\* set_ptt_held(False), from resume_speech_after_ptt.
ReleaseHold ==
  /\ opc = "held"
  /\ pttHeld' = FALSE /\ opc' = "up"
  /\ UNCHANGED <<jobVars, nextId, incoming, active, stack, owner, owedEnd, motorVars, routerVars,
                 submitVars, presses, epc, stops, eventVars, bareCut>>

\* cancel_speech_for_sources sets the token, then sweeps; interrupt_speaking
\* and drop_pending_sources (a second sweep) follow.
CancelSpeech ==
  /\ epc = "idle" /\ stops < MaxStops
  /\ cancelled' = TRUE /\ stops' = stops + 1 /\ epc' = "sweep"
  /\ UNCHANGED <<jobVars, schedVars, speaking, routerVars, submitVars, opc, presses, eventVars, bareCut>>

EmergencySweep ==
  /\ epc \in {"sweep", "drop"}
  /\ SweepSources("agenda")
  /\ epc' = IF epc = "sweep" THEN "cut" ELSE "idle"
  /\ UNCHANGED <<kind, chunks, split, cursor, sealed, pauseReq, retried, started, nextId, incoming, active,
                 pttHeld, motorVars, routerVars, submitVars, opc, presses, stops, eventVars, bareCut>>

EmergencyCut ==
  /\ epc = "cut"
  /\ Interrupt("stop")
  /\ epc' = "drop"
  /\ UNCHANGED <<jobVars, schedVars, cancelled, routerVars, submitVars, opc, presses, stops, eventVars>>

\* clear_speech_cancel, when the agenda is enabled again.
ClearSpeechCancel ==
  /\ epc = "idle" /\ cancelled
  /\ cancelled' = FALSE
  /\ UNCHANGED <<jobVars, schedVars, speaking, routerVars, submitVars, controlVars, eventVars, bareCut>>

\* drain_speech_for_new_turn, from the PTT flush on the WS thread.
DrainForNewTurn ==
  /\ SweptBy("owner") # {}
  /\ SweepSources("owner")
  /\ UNCHANGED <<kind, chunks, split, cursor, sealed, pauseReq, retried, started, nextId, incoming, active,
                 pttHeld, motorVars, routerVars, submitVars, controlVars, eventVars, bareCut>>

-----------------------------------------------------------------------------
(* The router thread: _loop and _pick.                                     *)

\* The top of _loop collects an owed end; it is emitted outside the lock.
LoopTop ==
  /\ rpc = "top"
  /\ owedEnd' = FALSE
  /\ rpc' = IF owedEnd THEN "flushEnd" ELSE "pick"
  /\ UNCHANGED <<jobVars, nextId, incoming, active, stack, pttHeld, owner, motorVars, rjob, out,
                 sawCancel, outsideVars, eventVars, bareCut>>

FlushEnd ==
  /\ rpc = "flushEnd"
  /\ EmitEnd
  /\ rpc' = "flushIdle"
  /\ UNCHANGED <<jobVars, schedVars, cancelled, rjob, out, sawCancel, outsideVars, bareCut>>

\* has_work() is read here and acted on in the next step.
FlushIdle ==
  /\ rpc = "flushIdle"
  /\ rpc' = IF HasWork THEN "pick" ELSE "flushEmitIdle"
  /\ UNCHANGED <<jobVars, schedVars, motorVars, rjob, out, sawCancel, outsideVars, eventVars, bareCut>>

FlushEmitIdle ==
  /\ rpc = "flushEmitIdle"
  /\ EmitIdle
  /\ rpc' = "pick"
  /\ UNCHANGED <<jobVars, schedVars, motorVars, rjob, out, sawCancel, outsideVars, bareCut>>

Peeked(j) == stack               \* mutant: the entry is run and left where it was
Popped(j) == [stack EXCEPT ![j] = 0]

\* The job leaves INCOMING, or else the top of the stack, and becomes ACTIVE.
Activate(j) ==
  /\ state' = [state EXCEPT ![j] = "ACTIVE"]
  /\ active' = j /\ rjob' = j /\ rpc' = "check"
  /\ UNCHANGED <<kind, chunks, split, cursor, sealed, pauseReq, retried, started, nextId, pttHeld,
                 owner, owedEnd, motorVars, out, sawCancel, outsideVars, eventVars, bareCut>>

PickIncoming ==
  /\ rpc = "pick" /\ ~pttHeld
  /\ \E j \in incoming : /\ \A k \in incoming : Precedes(j, k)
                         /\ incoming' = incoming \ {j}
                         /\ UNCHANGED stack
                         /\ Activate(j)

PickStack ==
  /\ rpc = "pick" /\ ~pttHeld /\ incoming = {}
  /\ \E j \in OnStack : /\ \A k \in OnStack : stack[k] <= stack[j]
                        /\ stack' = Popped(j)
                        /\ UNCHANGED incoming
                        /\ Activate(j)

\* Nothing to play, or the mic is live: wait on _wake, then go round again.
PickNone ==
  /\ rpc = "pick"
  /\ pttHeld \/ (incoming = {} /\ OnStack = {})
  /\ rpc' = "top"
  /\ UNCHANGED <<jobVars, schedVars, motorVars, rjob, out, sawCancel, outsideVars, eventVars, bareCut>>

-----------------------------------------------------------------------------
(* The router thread: _run_job up to the playback call.                    *)

\* A terminal verdict; _finish acts on it.
Verdict(s, why) ==
  /\ rpc' = "finish"
  /\ out' = [verdict |-> s, reason |-> why]
  /\ UNCHANGED <<rjob, sawCancel, bareCut>>

CheckCancelled ==
  /\ rpc = "check"
  /\ IF SpeechCancelled(rjob)
     THEN Verdict("DISCARDED", "cancelled")
     ELSE rpc' = "claim" /\ UNCHANGED <<rjob, out, sawCancel>>
  /\ UNCHANGED <<jobVars, schedVars, motorVars, outsideVars, eventVars, bareCut>>

ClaimsAnyway == ~started[rjob]    \* mutant: a nested job claims a pair of its own
Claims == owner = NoJob /\ ~started[rjob]
\* Mutant: the claim does not look at the end a sweep still owes.
ClaimIgnoresOwed ==
  /\ rpc = "claim"
  /\ owner' = IF Claims THEN rjob ELSE owner
  /\ rpc' = IF Claims THEN "emitStart" ELSE "window"
  /\ UNCHANGED <<jobVars, nextId, incoming, active, stack, pttHeld, owedEnd, motorVars, rjob, out, sawCancel,
                 outsideVars, eventVars, bareCut>>

\* Only a job that finds no boundary owner claims the pair; a sweep's owed end
\* is collected in the same critical section and emitted first.
ClaimBoundary ==
  /\ rpc = "claim"
  /\ owedEnd' = FALSE
  /\ owner' = IF Claims THEN rjob ELSE owner
  /\ rpc' = IF owedEnd THEN "collectEnd" ELSE IF Claims THEN "emitStart" ELSE "window"
  /\ UNCHANGED <<jobVars, nextId, incoming, active, stack, pttHeld, motorVars, rjob, out, sawCancel,
                 outsideVars, eventVars, bareCut>>

CollectOwedEnd ==
  /\ rpc = "collectEnd"
  /\ EmitEnd
  /\ rpc' = IF owner = rjob /\ ~started[rjob] THEN "emitStart" ELSE "window"
  /\ UNCHANGED <<jobVars, schedVars, cancelled, rjob, out, sawCancel, outsideVars, bareCut>>

BoundaryStart ==
  /\ rpc = "emitStart"
  /\ EmitStart
  /\ speaking' = TRUE
  /\ started' = [started EXCEPT ![rjob] = TRUE]
  /\ rpc' = "window"
  /\ UNCHANGED <<kind, state, chunks, split, cursor, sealed, pauseReq, retried, schedVars, cancelled,
                 rjob, out, sawCancel, outsideVars, bareCut>>

\* A consumer of speaking_start raises: no pair was opened, the job is lost.
BoundaryStartRaises ==
  /\ rpc = "emitStart"
  /\ speaking' = FALSE
  /\ Verdict("DISCARDED", "error")
  /\ UNCHANGED <<jobVars, schedVars, cancelled, outsideVars, eventVars, bareCut>>

\* The pick-to-play window: a hold or a request that came in meanwhile.
WindowCheck ==
  /\ rpc = "window"
  /\ IF pttHeld \/ pauseReq[rjob]
     THEN PushSuspended(rjob)
     ELSE rpc' = "call" /\ UNCHANGED <<state, pauseReq, active, stack, rjob, out, sawCancel, bareCut>>
  /\ UNCHANGED <<kind, chunks, split, cursor, sealed, retried, started, nextId, incoming, pttHeld,
                 owner, owedEnd, motorVars, outsideVars, eventVars>>

-----------------------------------------------------------------------------
(* The router thread: _hablar and _hablar_impl, as the router sees them.   *)

SliceSwapped(j) == cursor[j] - chunks[j]     \* mutant
SliceWhole(j) == chunks[j]                   \* mutant: a resume starts the text over
Slice(j) == chunks[j] - cursor[j]

\* The owed slice chunks[cursor:] is taken, then the token may refuse it.
Hablar ==
  /\ rpc = "call"
  /\ IF SpeechCancelled(rjob)
     THEN out' = NoOutcome /\ rpc' = "settle"
     ELSE out' = [NoOutcome EXCEPT !.size = Slice(rjob)] /\ rpc' = "arm"
  /\ UNCHANGED <<jobVars, schedVars, motorVars, rjob, sawCancel, outsideVars, eventVars, bareCut>>

Arm ==
  /\ rpc = "arm"
  /\ speaking' = TRUE /\ rpc' = "b1"
  /\ UNCHANGED <<jobVars, schedVars, cancelled, rjob, out, sawCancel, outsideVars, eventVars, bareCut>>

StillArmed == speaking                       \* mutant: the hold is not looked at again
PlayAllowed == speaking /\ ~pttHeld /\ ~pauseReq[rjob]

\* pause_pending_for_active un-stomps a cut that landed before Arm; an empty
\* slice returns at once.
RecheckPause ==
  /\ rpc = "b1"
  /\ speaking' = (PlayAllowed /\ out.size > 0)
  /\ rpc' = IF out.size = 0 THEN "settle" ELSE "play"
  /\ UNCHANGED <<jobVars, schedVars, cancelled, rjob, out, sawCancel, outsideVars, eventVars, bareCut>>

\* The next fragment is heard, or some are lost; a fragment may still turn out to be
\* lost when the flag is down (module SpeechSlice).
PlayFragment ==
  /\ rpc = "play"
  /\ \E n \in (out.cursor + 1)..out.size : out' = [out EXCEPT !.cursor = n]
  /\ UNCHANGED <<jobVars, schedVars, motorVars, rpc, rjob, sawCancel, outsideVars, eventVars, bareCut>>

\* _hablar returns o; _speaking is down again, except after a raise.
Returns(o) ==
  /\ out' = o
  /\ rpc' = "settle"
  /\ speaking' = (speaking /\ o.raised)
  /\ UNCHANGED <<jobVars, schedVars, cancelled, rjob, sawCancel, outsideVars, eventVars, bareCut>>

PlayCompletes == rpc = "play" /\ out.cursor = out.size /\ Returns(out)

\* The consumer sees the cut and reports the fragment that is owed a replay.
PlayIsCut ==
  /\ rpc = "play" /\ ~speaking
  /\ Returns([out EXCEPT !.interrupted = TRUE])

\* The producer saw the cut first and ended the queue: the consumer takes the
\* end for a completed slice (module SpeechPipeline).
PlayCutUnseen ==
  /\ rpc = "play" /\ ~speaking
  /\ Returns([out EXCEPT !.cursor = out.size])

PlayTimesOut ==
  /\ rpc = "play"
  /\ Returns([out EXCEPT !.error = TRUE])

\* Splitting the text or starting the producer raises, before anything plays.
HablarRaises ==
  /\ rpc = "play" /\ out.cursor = 0
  /\ Returns([out EXCEPT !.raised = TRUE])

-----------------------------------------------------------------------------
(* The router thread: _reconcile and _starved_wait.                        *)

\* The cancel token is read before _sched_lock is taken.
ReadCancel ==
  /\ rpc \in {"settle", "starved"}
  /\ sawCancel' = SpeechCancelled(rjob)
  /\ rpc' = IF rpc = "settle" THEN "reconcile" ELSE "starvedLock"
  /\ UNCHANGED <<jobVars, schedVars, motorVars, rjob, out, outsideVars, eventVars, bareCut>>

reconcileSame == <<kind, sealed, started, nextId, pttHeld, owner, owedEnd, motorVars,
                   outsideVars, eventVars>>
\* The first outcome of a job that was submitted whole brings its chunk list.
Owed == IF split[rjob] THEN chunks[rjob] ELSE out.size
ReachedAbsolute == out.cursor                \* mutant: the slice index is taken for a job index
Reached == cursor[rjob] + out.cursor
Settle == /\ chunks' = [chunks EXCEPT ![rjob] = Owed]
          /\ split' = [split EXCEPT ![rjob] = TRUE]
          /\ cursor' = [cursor EXCEPT ![rjob] = Reached]
ConsumeRequest == pauseReq' = [pauseReq EXCEPT ![rjob] = FALSE]

\* A raise: a requested pause outranks it; otherwise retry once if the job
\* never advanced, else the job is lost.
ReconcileRaised ==
  /\ rpc = "reconcile" /\ out.raised
  /\ \/ /\ pauseReq[rjob] /\ ~sawCancel
        /\ PushSuspended(rjob)
        /\ UNCHANGED <<incoming, retried>>
     \/ /\ ~pauseReq[rjob] \/ sawCancel
        /\ ~retried[rjob] /\ cursor[rjob] = 0
        /\ retried' = [retried EXCEPT ![rjob] = TRUE]
        /\ state' = [state EXCEPT ![rjob] = "QUEUED"]
        /\ incoming' = incoming \cup {rjob}
        /\ active' = NoJob
        /\ ConsumeRequest
        /\ BackToLoop
        /\ UNCHANGED stack
     \/ /\ ~pauseReq[rjob] \/ sawCancel
        /\ retried[rjob] \/ cursor[rjob] > 0
        /\ ConsumeRequest
        /\ Verdict("DISCARDED", "error")
        /\ UNCHANGED <<state, incoming, active, stack, retried>>
  /\ UNCHANGED <<chunks, split, cursor, reconcileSame>>

Refused == sawCancel /\ out.size = 0
Drained == Reached >= Owed
\* The producer appended while this slice played: a clean slice, with a tail.
Grew == ~Drained /\ out.cursor >= out.size /\ ~out.interrupted

ReconcileRefused ==
  /\ rpc = "reconcile" /\ ~out.raised /\ Refused
  /\ ConsumeRequest
  /\ Verdict("DISCARDED", "cancelled")
  /\ UNCHANGED <<state, chunks, split, cursor, incoming, active, stack, retried, reconcileSame>>

\* Finished when sealed; an unsealed or grown job goes to the starved wait
\* with its pause request published again.
ReconcileDrained ==
  /\ rpc = "reconcile" /\ ~out.raised /\ ~Refused /\ (Drained \/ Grew)
  /\ Settle
  /\ IF Drained /\ sealed[rjob]
     THEN ConsumeRequest /\ Verdict("FINISHED", "none")
     ELSE rpc' = "starved" /\ out' = NoOutcome /\ bareCut' = "none" /\ UNCHANGED <<rjob, sawCancel, pauseReq>>
  /\ UNCHANGED <<state, incoming, active, stack, retried, reconcileSame>>

\* Cut short: cancelled, or paused and owed a resume, or stopped for good.
ReconcileCut ==
  /\ rpc = "reconcile" /\ ~out.raised /\ ~Refused /\ ~Drained /\ ~Grew
  /\ Settle
  /\ IF pauseReq[rjob] /\ ~sawCancel
     THEN PushSuspended(rjob)
     ELSE /\ ConsumeRequest
          /\ Verdict("DISCARDED", IF sawCancel THEN "cancelled"
                                  ELSE IF out.error THEN "error" ELSE "interrupted")
          /\ UNCHANGED <<state, active, stack>>
  /\ UNCHANGED <<incoming, retried, reconcileSame>>

\* Precedence: cancel, hold or pause, new chunks, sealed; else wait a tick.
StarvedWait ==
  /\ rpc = "starvedLock"
  /\ \/ /\ sawCancel
        /\ Verdict("DISCARDED", "cancelled")
        /\ UNCHANGED <<state, pauseReq, active, stack>>
     \/ /\ ~sawCancel /\ (pttHeld \/ pauseReq[rjob])
        /\ PushSuspended(rjob)
     \/ /\ ~sawCancel /\ ~pttHeld /\ ~pauseReq[rjob]
        /\ IF cursor[rjob] < chunks[rjob]
           THEN rpc' = "call" /\ UNCHANGED <<rjob, out, sawCancel, bareCut>>
           ELSE IF sealed[rjob] THEN Verdict("FINISHED", "none")
           ELSE rpc' = "starved" /\ UNCHANGED <<rjob, out, sawCancel, bareCut>>
        /\ UNCHANGED <<state, pauseReq, active, stack>>
  /\ UNCHANGED <<chunks, split, cursor, incoming, retried, reconcileSame>>

-----------------------------------------------------------------------------
(* The router thread: _finish.                                             *)

DropOwner == NoJob               \* mutant: any finished job gives the pair up
OwnerAfter == IF owner = rjob THEN NoJob ELSE owner

Finish ==
  /\ rpc = "finish"
  /\ state' = [state EXCEPT ![rjob] = out.verdict]
  /\ active' = NoJob
  /\ owner' = OwnerAfter
  /\ rpc' = IF started[rjob] THEN "finishEnd" ELSE "idleCheck"
  /\ out' = NoOutcome /\ bareCut' = "none"
  /\ UNCHANGED <<kind, chunks, split, cursor, sealed, pauseReq, retried, started, nextId, incoming, stack,
                 pttHeld, owedEnd, motorVars, rjob, sawCancel, outsideVars, eventVars>>

FinishEnd ==
  /\ rpc = "finishEnd"
  /\ EmitEnd
  /\ rpc' = "idleCheck"
  /\ UNCHANGED <<jobVars, schedVars, cancelled, rjob, out, sawCancel, outsideVars, bareCut>>

\* has_work() is read here and acted on in the next step.
IdleCheck ==
  /\ rpc = "idleCheck"
  /\ rpc' = IF HasWork THEN "top" ELSE "emitIdle"
  /\ rjob' = NoJob /\ sawCancel' = FALSE
  /\ UNCHANGED <<jobVars, schedVars, motorVars, out, outsideVars, eventVars, bareCut>>

FinishIdle ==
  /\ rpc = "emitIdle"
  /\ EmitIdle
  /\ rpc' = "top"
  /\ UNCHANGED <<jobVars, schedVars, motorVars, rjob, out, sawCancel, outsideVars, bareCut>>

-----------------------------------------------------------------------------
Loop == \/ LoopTop \/ FlushEnd \/ FlushIdle \/ FlushEmitIdle
        \/ PickIncoming \/ PickStack \/ PickNone
RunJob == \/ CheckCancelled \/ ClaimBoundary \/ CollectOwedEnd
          \/ BoundaryStart \/ BoundaryStartRaises \/ WindowCheck
Playback == \/ Hablar \/ Arm \/ RecheckPause \/ PlayFragment \/ PlayCompletes
            \/ PlayIsCut \/ PlayCutUnseen \/ PlayTimesOut \/ HablarRaises
Reconcile == \/ ReadCancel \/ ReconcileRaised \/ ReconcileRefused
             \/ ReconcileDrained \/ ReconcileCut \/ StarvedWait
FinishJob == Finish \/ FinishEnd \/ IdleCheck \/ FinishIdle
Router == Loop \/ RunJob \/ Playback \/ Reconcile \/ FinishJob

Preempting(t) == SubmitSweep(t) \/ PauseSpeech(t) \/ PauseCut(t)
Submitting(t) == Submit(t) \/ Preempting(t) \/ AppendChunks(t) \/ Seal(t)
Operator == HoldAndPause \/ HoldCut \/ ReleaseHold
Emergency == CancelSpeech \/ EmergencySweep \/ EmergencyCut \/ ClearSpeechCancel

Next == \/ Router \/ Operator \/ Emergency \/ DrainForNewTurn
        \/ \E t \in Submitters : Submitting(t)

Spec == Init /\ [][Next]_vars

\* The threads run: the router polls every 0.25 s, a submit returns, an
\* emergency handler finishes, a producer seals its stream on every exit path,
\* and every press is released (by the key or by the 15 s deadman).
Fairness ==
  /\ WF_vars(Router)
  /\ \A t \in Submitters : WF_vars(Preempting(t)) /\ WF_vars(Seal(t))
  /\ WF_vars(HoldCut) /\ WF_vars(ReleaseHold)
  /\ WF_vars(EmergencySweep \/ EmergencyCut)

FairSpec == Spec /\ Fairness
-----------------------------------------------------------------------------
(* Properties.                                                             *)

Outcomes == [size : Nat, cursor : Nat, interrupted : BOOLEAN, error : BOOLEAN, raised : BOOLEAN]
Verdicts == [verdict : Terminal, reason : {"none", "cancelled", "interrupted", "error"}]
States == {"NONE", "QUEUED", "ACTIVE", "SUSPENDED"} \cup Terminal
RouterPcs == {"top", "flushEnd", "flushIdle", "flushEmitIdle", "pick", "check", "claim", "collectEnd",
              "emitStart", "window", "call", "arm", "b1", "play", "settle", "reconcile", "starved",
              "starvedLock", "finish", "finishEnd", "idleCheck", "emitIdle"}

JobsOK ==
  /\ kind \in [Jobs -> Kinds \cup {"none"}]
  /\ state \in [Jobs -> States]
  /\ chunks \in [Jobs -> Nat] /\ cursor \in [Jobs -> Nat]
  /\ split \in [Jobs -> BOOLEAN] /\ sealed \in [Jobs -> BOOLEAN] /\ pauseReq \in [Jobs -> BOOLEAN]
  /\ retried \in [Jobs -> BOOLEAN] /\ started \in [Jobs -> BOOLEAN]
SchedOK ==
  /\ nextId \in 1..(MaxJobs + 1) /\ incoming \subseteq Jobs /\ active \in Jobs \cup {NoJob}
  /\ stack \in [Jobs -> Nat] /\ pttHeld \in BOOLEAN
  /\ owner \in Jobs \cup {NoJob} /\ owedEnd \in BOOLEAN
RouterOK ==
  /\ rpc \in RouterPcs /\ rjob \in Jobs \cup {NoJob} /\ sawCancel \in BOOLEAN
  /\ IF rpc = "finish" THEN out \in Verdicts ELSE out \in Outcomes
ThreadsOK ==
  /\ spc \in [Submitters -> {"idle", "sweep", "pause", "cut", "feed"}]
  /\ sjob \in [Submitters -> Jobs \cup {NoJob}] /\ victim \in [Submitters -> Jobs \cup {NoJob}]
  /\ opc \in {"up", "cut", "held"} /\ presses \in 0..MaxPresses
  /\ epc \in {"idle", "sweep", "cut", "drop"} /\ stops \in 0..MaxStops
EventsOK ==
  /\ speaking \in BOOLEAN /\ cancelled \in BOOLEAN
  /\ open \in Int /\ ui \in {"none", "speaking_start", "speaking_end", "idle"}
  /\ bareCut \in {"none", "preempt", "press", "stop"}

\* Every variable keeps the values the code can give it.
TypeOK == JobsOK /\ SchedOK /\ RouterOK /\ ThreadsOK /\ EventsOK

\* speaking_start and speaking_end strictly alternate, whatever is preempted,
\* suspended, swept or retried in between: a second start or a trailing end
\* would complete an agenda turn that never ran (router.py, closure B2).
BoundaryBalanced == open \in {0, 1}

\* 'idle' never reaches the avatar while a boundary pair is open, so the mouth
\* does not stop mid-sentence (has_work counts an owed end for this reason).
IdleOutsidePair == ui = "idle" => open = 0

\* A live job is in exactly one of INCOMING, the active slot and STACK, the one
\* its state names; nothing else is in any of them (_pick: pop, not peek).
OneHome ==
  \A j \in Jobs :
    /\ (j \in incoming) <=> (state[j] = "QUEUED")
    /\ (j = active) <=> (state[j] = "ACTIVE")
    /\ (j \in OnStack) <=> (state[j] = "SUSPENDED")

\* Once a press has returned, nothing goes on playing into the live mic: a job
\* that got past the hold checks has had its cut flag cleared (closure B1).
HoldSilences == (pttHeld /\ opc = "held" /\ rpc = "play") => ~speaking

\* A job is dropped as "interrupted" only if a cut really landed in it without a
\* request: a stray preempt or the emergency stop, never a press, whose hold and
\* request are one critical section, so that reconcile owes the job a resume.
InterruptedOnlyByBareCut ==
  (rpc = "finish" /\ out.reason = "interrupted") => bareCut \in {"preempt", "stop"}

\* An open pair is always answered for by exactly one thing that will close it:
\* a live started owner, an end owed by a sweep, or an end being emitted.
Live(j) == state[j] \in {"QUEUED", "ACTIVE", "SUSPENDED"}
OwnerLive == owner # NoJob => Live(owner)
OwnerOpen == owner # NoJob /\ started[owner]
EndPending == owedEnd \/ rpc \in {"flushEnd", "collectEnd", "finishEnd"}
PairAccounted ==
  /\ OwnerLive
  /\ open = 1 => (OwnerOpen \/ EndPending)
  /\ (OwnerOpen \/ EndPending) => open = 1
  /\ ~(OwnerOpen /\ EndPending)

\* Only the outermost job speaks to the consumers: of the jobs that are still
\* alive, none but the boundary owner has emitted a start (D4).
OutermostOnly == \A j \in Jobs : started[j] /\ Live(j) => owner = j

\* The slice handed to _hablar is a tail of the job, and a job that was submitted
\* whole has not advanced before its first outcome: no resume index is ever out
\* of the range of the chunk list it was computed against.
Slicing == rpc \in {"arm", "b1", "play", "settle", "reconcile"}
CursorsInRange ==
  /\ \A j \in Jobs : /\ cursor[j] <= chunks[j]
                     /\ ~split[j] \/ j >= nextId => cursor[j] = 0
  /\ rpc # "finish" => out.cursor <= out.size
  /\ (Slicing /\ out.size > 0 /\ split[rjob]) => cursor[rjob] + out.size <= chunks[rjob]

\* The inductive invariant behind the boundary properties: who is alive and
\* where, who may hold an unstarted claim, and what every open pair waits for.
RunPcs == {"check", "claim", "collectEnd", "emitStart", "window", "call", "arm", "b1", "play",
           "settle", "reconcile", "starved", "starvedLock", "finish"}
RouterHoldsActive ==
  /\ rpc \in RunPcs => rjob \in Jobs /\ active = rjob
  /\ rpc \notin RunPcs => active = NoJob
NewJobsAreBlank ==
  \A j \in Jobs : /\ j >= nextId => state[j] = "NONE"
                  /\ state[j] = "NONE" => ~started[j]
ClaimIsRunning ==
  /\ owner # NoJob /\ ~started[owner] => owner = rjob /\ rpc \in {"collectEnd", "emitStart", "finish"}
  /\ rpc \in {"collectEnd", "emitStart"} => owner = rjob /\ ~started[rjob] /\ ~owedEnd
EndsExclude ==
  /\ ~(owedEnd /\ rpc \in {"flushEnd", "finishEnd"})
  /\ open = IF OwnerOpen \/ EndPending THEN 1 ELSE 0
  /\ ~(OwnerOpen /\ EndPending)
IdleIsQuiet == rpc \in {"flushEmitIdle", "emitIdle"} => owner = NoJob /\ ~owedEnd
BoundaryInv ==
  /\ OneHome /\ RouterHoldsActive /\ NewJobsAreBlank
  /\ OwnerLive /\ OutermostOnly /\ ClaimIsRunning /\ EndsExclude /\ IdleIsQuiet /\ IdleOutsidePair

\* The emitted events are those of the abstract protocol (module SpeechEvents).
Events == INSTANCE SpeechEvents WITH speaking <- open > 0, last <- ui
EventsSpec == Events!Spec

\* An open pair is always closed again: every start finds its end.
PairsClose == Events!PairsClose

\* Every submitted job ends: no hold, preemption, sweep or starvation loses it.
JobsTerminate == \A j \in Jobs : state[j] = "QUEUED" ~> state[j] \in Terminal

\* Once the router is out of work for good, the last event is 'idle'.
IdleSettles == <>[](ui \in {"none", "idle"})

\* A submit sweeps the owner speech it supersedes, not the job it submitted.
SweepSparesOwnJob ==
  [][\A t \in Submitters : spc[t] = "sweep" /\ spc'[t] # "sweep" =>
       (state[sjob[t]] = "SUSPENDED" => state'[sjob[t]] = "SUSPENDED")]_vars

\* Once the emergency stop has cut, no agenda speech is heard while its cancel
\* token stays set.
StopSilencesAgenda ==
  (cancelled /\ epc \in {"drop", "idle"} /\ rpc = "play" /\ kind[rjob] = "agenda") => ~speaking

\* The cursor a job resumes from never moves back, and a terminal job never
\* plays again: nothing takes it back into INCOMING, STACK or the active slot.
TerminalIsFinal ==
  [][\A j \in Jobs : /\ state[j] \in Terminal => state'[j] = state[j] /\ cursor'[j] = cursor[j]
                     /\ cursor[j] <= cursor'[j]]_<<state, cursor>>
=============================================================================
