-------------------------- MODULE AgendaController --------------------------
(***************************************************************************)
(* KiraAgendaController (smart_aggregator/kira_agenda_controller.py): the  *)
(* passive state machine of an agenda session.  It owns no thread: each    *)
(* method is an operator from the controller's record to the next one,     *)
(* used by whoever holds agenda_lock.                                      *)
(*                                                                         *)
(* A text stands for a prompt: what it asks and of which topic, <<"open",  *)
(* t>>, <<"continue", t>>, <<"preview", t>> or <<"closing", t>>; a goodbye *)
(* prepared ahead has the same prompt as one asked for on the spot.        *)
(***************************************************************************)
EXTENDS Integers, FiniteSets

CONSTANTS Topics,       \* how many topics are queued for the session
          TurnMax,      \* max_turns_per_topic
          CloseGiveUp,  \* failures after which a closing topic just ends (3)
          PauseAt,      \* MAX_FAILURES_BEFORE_PAUSE
          RetryMax      \* Len(RETRY_DELAYS_SECONDS)

ASSUME ControllerAssumption ==
  /\ Topics \in Nat \ {0} /\ TurnMax \in Nat \ {0}
  /\ CloseGiveUp \in Nat \ {0} /\ PauseAt \in Nat \ {0} /\ RetryMax \in Nat

States == {"off", "idle", "generating", "speaking", "waiting", "regen",
           "closing", "paused", "hard"}

AgendaTexts == {"open", "continue", "preview", "closing"} \X (0..Topics)

\* st: AgendaState; topic: active_topic (0: none) and ending: its status is
\* CLOSING; turns: its turns_spoken; stop: stop_requested; fails, sick, retries:
\* the RecoveryPolicy; opened: how many topics have left the queue.
AgendaRecord ==
  [st : States, topic : 0..Topics, ending : BOOLEAN, turns : 0..TurnMax,
   stop : BOOLEAN, fails : Nat, sick : Nat, retries : 0..RetryMax,
   opened : 0..Topics]

NewAgenda ==
  [st |-> "off", topic |-> 0, ending |-> FALSE, turns |-> 0, stop |-> FALSE,
   fails |-> 0, sick |-> 0, retries |-> 0, opened |-> 0]

\* Mutant: off by one.
QueuedInclusive(a) == a.opened <= Topics

Queued(a) == a.opened < Topics
Succeeded(a) == [a EXCEPT !.fails = 0, !.sick = 0, !.retries = 0]

\* The session ends if a stop was asked for, and goes on otherwise.
Settled(a) == [a EXCEPT !.st = IF a.stop THEN "off" ELSE "idle", !.stop = FALSE]
TopicDone(a) == [Settled(a) EXCEPT !.topic = 0, !.ending = FALSE, !.turns = 0]

\* Mutant: the last turn is never spent.
DebitShort(a) ==
  IF a.topic # 0 /\ ~a.ending /\ a.turns + 1 < TurnMax
  THEN [a EXCEPT !.turns = @ + 1] ELSE a

\* A turn is spent, unless it is the goodbye.
Debit(a) ==
  IF a.topic # 0 /\ ~a.ending /\ a.turns < TurnMax
  THEN [a EXCEPT !.turns = @ + 1] ELSE a

-----------------------------------------------------------------------------
(* Session controls. *)

Enabled(a) == [a EXCEPT !.st = IF @ = "off" THEN "idle" ELSE @, !.stop = FALSE]

EmergencyStopped(a) ==
  [Succeeded(a) EXCEPT !.st = "off", !.stop = FALSE, !.topic = 0,
                       !.ending = FALSE, !.turns = 0]

\* What a decision returns: the controller after it, and the text to enqueue.
Deciding(a, text) == [agenda |-> a, text |-> text]

Closing(a) ==
  Deciding([a EXCEPT !.st = "generating", !.ending = (a.topic # 0)],
           {<<"closing", a.topic>>})

SoftStop(a) ==
  LET b == [a EXCEPT !.stop = TRUE]
  IN  IF b.st \in {"off", "idle", "waiting"} /\ b.topic = 0
      THEN Deciding([b EXCEPT !.st = "off"], {})
      ELSE IF b.st \in {"idle", "waiting"} THEN Closing(b)
      ELSE Deciding(b, {})

\* can_auto_resume of a paused controller, when its cooldown has run (due) or not.
AutoResume(a, due) ==
  IF a.retries = RetryMax /\ a.fails >= PauseAt THEN [a EXCEPT !.st = "hard"]
  ELSE IF a.retries < RetryMax /\ due
       THEN [a EXCEPT !.st = "idle", !.retries = @ + 1]
  ELSE a

-----------------------------------------------------------------------------
(* The next turn. *)

Open(a) ==
  Deciding([a EXCEPT !.st = "generating", !.opened = @ + 1, !.topic = a.opened + 1,
                     !.ending = FALSE, !.turns = 0],
           {<<"open", a.opened + 1>>})

ContinueOrClose(a) ==
  IF a.topic # 0 /\ a.turns >= TurnMax THEN Closing(a)
  ELSE Deciding([a EXCEPT !.st = "generating"], {<<"continue", a.topic>>})

\* next_action: nothing while she is busy; a rejected turn is tried again; a stop
\* comes before everything; an idle session goes on with its topic or opens one.
Quiet == {"off", "paused", "hard", "generating", "speaking"}

NextAction(a, busy) ==
  LET b == [a EXCEPT !.st = IF @ = "regen" THEN "waiting" ELSE @]
  IN  IF busy \/ a.st \in Quiet THEN Deciding(a, {})
      ELSE IF b.stop THEN Closing(b)
      ELSE IF b.st = "closing" \/ (b.st = "idle" /\ b.topic = 0 /\ ~Queued(b))
           THEN Deciding(b, {})
      ELSE IF b.st = "idle" /\ b.topic = 0 THEN Open(b)
      ELSE ContinueOrClose(b)

\* prefetch_action_after_current_speech: what she will say next, if anything.
Preview(a) ==
  IF a.st # "speaking" \/ a.topic = 0 \/ a.ending THEN {}
  ELSE IF a.stop \/ a.turns + 1 >= TurnMax THEN {<<"closing", a.topic>>}
  ELSE {<<"preview", a.topic>>}

\* start_prefetched_action, of a controller with a topic.
Adopted(a, text) ==
  IF text[1] = "closing" THEN [a EXCEPT !.st = "closing", !.ending = TRUE]
  ELSE [a EXCEPT !.st = "generating"]

-----------------------------------------------------------------------------
(* What became of it. *)

Accepted(a) ==
  IF a.st \in {"generating", "regen", "closing"}
  THEN [a EXCEPT !.st = "speaking"] ELSE a

SpeechComplete(a) ==
  IF a.st \notin {"speaking", "generating"} THEN a
  ELSE IF a.ending THEN TopicDone(a)
  ELSE [Debit(a) EXCEPT !.st = "waiting"]

\* register_failure, of a model that is unwell (health) or says what it must not.
Failed(a, health) ==
  LET b == Debit([a EXCEPT !.fails = @ + 1,
                           !.sick = IF health THEN @ + 1 ELSE 0])
  IN  IF b.ending /\ b.fails >= CloseGiveUp THEN Succeeded(TopicDone(b))
      ELSE IF b.topic # 0 /\ health /\ b.sick >= 2
           THEN [b EXCEPT !.turns = TurnMax, !.st = "waiting"]
      ELSE IF b.fails >= PauseAt THEN [b EXCEPT !.st = "paused"]
      ELSE IF b.topic = 0 /\ (b.stop \/ Queued(b)) THEN Succeeded(Settled(b))
      ELSE [b EXCEPT !.st = "regen"]

\* accept_output(""): nothing was generated, or the rejection has been registered
\* already.
AcceptEmpty(a) ==
  IF a.topic = 0
  THEN IF a.st \in {"off", "idle", "paused", "hard"} THEN a ELSE Settled(a)
  ELSE IF a.st \in {"generating", "closing"} THEN Failed(a, TRUE) ELSE a

\* accept_output of a text the guardrails refuse, and the empty one that follows.
AcceptRejected(a) == AcceptEmpty(Failed(a, FALSE))
=============================================================================
