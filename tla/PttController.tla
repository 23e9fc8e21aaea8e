---------------------------- MODULE PttController ---------------------------
(***************************************************************************)
(* Push-to-talk (api/ptt_session.py): the controller owns one session slot *)
(* and the engine's mic-live hold; each press builds a session with a      *)
(* WebSocket thread of its own.  The threads are the HTTP handler of each  *)
(* start (apc), one stop handler (tpc), the WebSocket threads (wpc) and    *)
(* the deadman timers.  A press is named by its epoch, which is also the   *)
(* name of its session.  Text is abstracted to a number of words; time to  *)
(* the order in which timeouts may fire.                                   *)
(***************************************************************************)
EXTENDS Integers, FiniteSets

CONSTANTS MaxPresses,     \* how many presses build a session
          MaxWords,       \* the most words a session hears
          MinWords        \* fewer words than this are not a turn (2)

ASSUME PttAssumption ==
  MaxPresses \in Nat /\ MaxWords \in Nat /\ MinWords \in Nat \ {0}

Presses == 1..MaxPresses
Nobody == 0

VARIABLES
  slot, pressEpoch, heldEpoch,    \* PttController, under its _lock
  hold,                           \* the engine's _ptt_held
  sess, lastError, words,         \* PttSession, under its _lock (an error or none)
  connected, connectOk,           \* _connected_evt and _connect_ok
  apc, wpc, tpc, tsess, tepoch,   \* the threads
  deadman,                        \* armed 15 s timers
  sent,                           \* turns of each session that the engine took
  dictated, refused,              \* history: sessions that heard a turn's worth of
                                  \* words, and those whose turn was refused
  ended                           \* history: presses the operator or start() ended

control == <<slot, pressEpoch, heldEpoch, hold>>
session == <<sess, lastError, words, connected, connectOk>>
stopper == <<tpc, tsess, tepoch>>
delivery == <<sent, dictated, refused>>
vars == <<control, session, apc, wpc, stopper, deadman, delivery, ended>>

Init ==
  /\ slot = Nobody /\ pressEpoch = 0 /\ heldEpoch = Nobody /\ hold = FALSE
  /\ sess = [s \in Presses |-> "idle"] /\ lastError = [s \in Presses |-> FALSE]
  /\ words = [s \in Presses |-> 0]
  /\ connected = [s \in Presses |-> FALSE] /\ connectOk = [s \in Presses |-> FALSE]
  /\ apc = [s \in Presses |-> "off"] /\ wpc = [s \in Presses |-> "off"]
  /\ tpc = "idle" /\ tsess = Nobody /\ tepoch = Nobody
  /\ deadman = {} /\ ended = {}
  /\ sent = [s \in Presses |-> 0] /\ dictated = {} /\ refused = {}

\* Mutant: a release is not tied to the press it belongs to.
ReleaseAny(e) == hold' = FALSE /\ heldEpoch' = Nobody

\* _release_hold: exactly once, and only for the press that holds.
ReleaseHold(e) ==
  /\ hold' = (hold /\ e # heldEpoch)
  /\ heldEpoch' = IF e = heldEpoch THEN Nobody ELSE heldEpoch

-----------------------------------------------------------------------------
(* The start handlers. *)

\* start() wins the slot and fires the hold before it lets the lock go; a press
\* that finds the slot taken raises SessionActive and changes nothing.
Press ==
  /\ slot = Nobody /\ pressEpoch < MaxPresses
  /\ pressEpoch' = pressEpoch + 1
  /\ slot' = pressEpoch' /\ heldEpoch' = pressEpoch'
  /\ hold' = TRUE
  /\ apc' = [apc EXCEPT ![pressEpoch'] = "spawn"]
  /\ UNCHANGED <<session, wpc, stopper, deadman, delivery, ended>>

\* session.start(): CONNECTING, then the WebSocket thread, which may not start.
Spawn(s) ==
  /\ apc[s] = "spawn"
  /\ sess' = [sess EXCEPT ![s] = "connecting"]
  /\ \/ apc' = [apc EXCEPT ![s] = "wait"] /\ wpc' = [wpc EXCEPT ![s] = "connect"]
     \/ apc' = [apc EXCEPT ![s] = "free"] /\ UNCHANGED wpc
  /\ UNCHANGED <<control, lastError, words, connected, connectOk, stopper, deadman, delivery, ended>>

StartReturns(s) ==
  /\ apc[s] = "wait" /\ connected[s]
  /\ apc' = [apc EXCEPT ![s] = IF connectOk[s] THEN "done" ELSE "free"]
  /\ UNCHANGED <<control, session, wpc, stopper, deadman, delivery, ended>>

\* The connect result did not come in time and the session is made idle.  The
\* WebSocket thread goes on, and may connect before the wait ends or between the end
\* of the wait and this step.
StartTimesOut(s) ==
  /\ apc[s] = "wait"
  /\ sess' = [sess EXCEPT ![s] = "idle"]
  /\ lastError' = [lastError EXCEPT ![s] = TRUE]
  /\ apc' = [apc EXCEPT ![s] = "free"]
  /\ UNCHANGED <<control, words, connected, connectOk, wpc, stopper, deadman, delivery, ended>>

\* start() raised: the slot is freed if it is still this session's ...
StartFrees(s) ==
  /\ apc[s] = "free"
  /\ slot' = IF slot = s THEN Nobody ELSE slot
  /\ apc' = [apc EXCEPT ![s] = "release"]
  /\ ended' = ended \cup {s}
  /\ UNCHANGED <<pressEpoch, heldEpoch, hold, session, wpc, stopper, deadman, delivery>>

\* ... and then the hold.
StartReleases(s) ==
  /\ apc[s] = "release"
  /\ ReleaseHold(s)
  /\ apc' = [apc EXCEPT ![s] = "done"]
  /\ UNCHANGED <<slot, pressEpoch, session, wpc, stopper, deadman, delivery, ended>>

-----------------------------------------------------------------------------
(* The stop handler: the operator's key comes up. *)

\* Mutant: the captured session is not compared with None.
StopUnchecked ==
  /\ tpc = "idle" /\ pressEpoch > 0 /\ pressEpoch \notin ended
  /\ tsess' = slot /\ tepoch' = pressEpoch
  /\ tpc' = "read"
  /\ ended' = ended \cup {pressEpoch}
  /\ UNCHANGED <<control, session, apc, wpc, deadman, delivery>>

\* stop(): the session and the press epoch are captured under the lock.
Stop ==
  /\ tpc = "idle" /\ pressEpoch > 0 /\ pressEpoch \notin ended
  /\ tsess' = slot /\ tepoch' = pressEpoch
  /\ tpc' = IF slot = Nobody THEN "release" ELSE "read"
  /\ ended' = ended \cup {pressEpoch}
  /\ UNCHANGED <<control, session, apc, wpc, deadman, delivery>>

\* PttSession.stop reads the state, then acts on it in _begin_grace.
StopReads ==
  /\ tpc = "read"
  /\ tpc' = IF sess[tsess] = "listening" THEN "grace" ELSE "release"
  /\ UNCHANGED <<control, session, apc, wpc, tsess, tepoch, deadman, delivery, ended>>

\* _begin_grace: from listening to flushing, the first caller wins.
BeginGrace(s, err) ==
  /\ sess' = IF sess[s] = "listening" THEN [sess EXCEPT ![s] = "flushing"] ELSE sess
  /\ lastError' = [lastError EXCEPT ![s] = @ \/ (err /\ sess[s] = "listening")]

StopGrace ==
  /\ tpc = "grace"
  /\ BeginGrace(tsess, FALSE)
  /\ tpc' = "release"
  /\ UNCHANGED <<control, words, connected, connectOk, apc, wpc, tsess, tepoch, deadman, delivery, ended>>

\* on_release and the controller's own release, of one epoch and exactly once.
StopReleases ==
  /\ tpc = "release"
  /\ ReleaseHold(tepoch)
  /\ tpc' = "idle" /\ tsess' = Nobody /\ tepoch' = Nobody
  /\ UNCHANGED <<slot, pressEpoch, session, apc, wpc, deadman, delivery, ended>>

-----------------------------------------------------------------------------
(* The WebSocket threads. *)

\* LISTENING whatever start() has made of the session in the meantime.  start() is
\* told a moment later; one that times out just then might as well have done so
\* just before.
Connects(s) ==
  /\ wpc[s] = "connect"
  /\ sess' = [sess EXCEPT ![s] = "listening"]
  /\ connected' = [connected EXCEPT ![s] = TRUE] /\ connectOk' = [connectOk EXCEPT ![s] = TRUE]
  /\ wpc' = [wpc EXCEPT ![s] = "recv"]
  /\ UNCHANGED <<control, lastError, words, apc, stopper, deadman, delivery, ended>>

ConnectFails(s) ==
  /\ wpc[s] = "connect"
  /\ sess' = [sess EXCEPT ![s] = "idle"]
  /\ lastError' = [lastError EXCEPT ![s] = TRUE]
  /\ connected' = [connected EXCEPT ![s] = TRUE]
  /\ wpc' = [wpc EXCEPT ![s] = "done"]
  /\ UNCHANGED <<control, words, connectOk, apc, stopper, deadman, delivery, ended>>

\* A transcript segment, while listening or in the grace period.
Ingest(s) ==
  /\ wpc[s] = "recv" /\ words[s] < MaxWords
  /\ words' = [words EXCEPT ![s] = @ + 1]
  /\ dictated' = IF words'[s] >= MinWords THEN dictated \cup {s} ELSE dictated
  /\ UNCHANGED <<control, sess, lastError, connected, connectOk, apc, wpc, stopper, deadman, sent, refused, ended>>

\* Keepalive starvation synthesises a stop that keeps the hold.
Watchdog(s) ==
  /\ wpc[s] = "recv" /\ sess[s] = "listening"
  /\ BeginGrace(s, TRUE)
  /\ UNCHANGED <<control, words, connected, connectOk, apc, wpc, stopper, deadman, delivery, ended>>

\* Mutant: a lost connection loses the dictation with it.
DropDiscards(s) ==
  /\ wpc[s] = "recv"
  /\ BeginGrace(s, TRUE)
  /\ wpc' = [wpc EXCEPT ![s] = "idle"]
  /\ UNCHANGED <<control, words, connected, connectOk, apc, stopper, deadman, delivery, ended>>

\* The connection is lost: what was heard is flushed at once.
ConnectionDrops(s) ==
  /\ wpc[s] = "recv"
  /\ BeginGrace(s, TRUE)
  /\ wpc' = [wpc EXCEPT ![s] = "flush"]
  /\ UNCHANGED <<control, words, connected, connectOk, apc, stopper, deadman, delivery, ended>>

GraceExpires(s) ==
  /\ wpc[s] = "recv" /\ sess[s] = "flushing"
  /\ wpc' = [wpc EXCEPT ![s] = "flush"]
  /\ UNCHANGED <<control, session, apc, stopper, deadman, delivery, ended>>

KeptBuffer(s) == words[s]         \* mutant: the buffer outlives its flush
Emptied(s) == 0

\* _flush_buffer: the buffer is emptied, and dispatched if it is a turn.  Nothing
\* comes of a turn that a full command queue refuses or whose dispatch raises: the
\* answer is not looked at and the exception is swallowed.
Deliver(s) ==
  IF words[s] < MinWords THEN UNCHANGED <<sent, refused>>
  ELSE \/ sent' = [sent EXCEPT ![s] = @ + 1] /\ UNCHANGED refused
       \/ refused' = refused \cup {s} /\ UNCHANGED sent

\* The WebSocket's own close may then raise, and the buffer is flushed again.
FlushBuffer(s) ==
  /\ wpc[s] \in {"flush", "reflush"}
  /\ words' = [words EXCEPT ![s] = Emptied(s)]
  /\ Deliver(s)
  /\ \/ wpc' = [wpc EXCEPT ![s] = "idle"]
     \/ wpc[s] = "flush" /\ wpc' = [wpc EXCEPT ![s] = "reflush"]
  /\ UNCHANGED <<control, sess, lastError, connected, connectOk, dictated, apc, stopper, deadman, ended>>

GoesIdle(s) ==
  /\ wpc[s] = "idle"
  /\ sess' = [sess EXCEPT ![s] = "idle"]
  /\ wpc' = [wpc EXCEPT ![s] = "notify"]
  /\ UNCHANGED <<control, lastError, words, connected, connectOk, apc, stopper, deadman, delivery, ended>>

\* Mutant: only a clean close gives the slot back.
FreeOnClean(s) == IF lastError[s] THEN slot ELSE Nobody
FreedSlot(s) == Nobody

\* _on_session_closed: the slot is freed ...
SessionClosed(s) ==
  /\ wpc[s] = "notify"
  /\ slot' = FreedSlot(s)
  /\ wpc' = [wpc EXCEPT ![s] = "backstop"]
  /\ UNCHANGED <<pressEpoch, heldEpoch, hold, session, apc, stopper, deadman, delivery, ended>>

\* Mutant: an abnormal close arms no timer.
NoDeadman(s) == deadman
Armed(s) == IF lastError[s] THEN deadman \cup {s} ELSE deadman

\* ... then a clean close releases the hold, an abnormal one arms the deadman.
CloseBackstop(s) ==
  /\ wpc[s] = "backstop"
  /\ IF lastError[s] THEN UNCHANGED <<hold, heldEpoch>> ELSE ReleaseHold(s)
  /\ deadman' = Armed(s)
  /\ wpc' = [wpc EXCEPT ![s] = "done"]
  /\ UNCHANGED <<slot, pressEpoch, session, apc, stopper, delivery, ended>>

DeadmanFires(s) ==
  /\ s \in deadman
  /\ ReleaseHold(s)
  /\ deadman' = deadman \ {s}
  /\ UNCHANGED <<slot, pressEpoch, session, apc, wpc, stopper, delivery, ended>>

-----------------------------------------------------------------------------
Starting(s) == Spawn(s) \/ StartReturns(s) \/ StartTimesOut(s) \/ StartFrees(s) \/ StartReleases(s)
Stopping == StopReads \/ StopGrace \/ StopReleases
Closing(s) == \/ Connects(s) \/ ConnectFails(s) \/ GraceExpires(s) \/ FlushBuffer(s)
              \/ GoesIdle(s) \/ SessionClosed(s) \/ CloseBackstop(s)

Next == \/ Press \/ Stop \/ Stopping
        \/ \E s \in Presses : \/ Starting(s) \/ Closing(s) \/ DeadmanFires(s)
                              \/ Ingest(s) \/ Watchdog(s) \/ ConnectionDrops(s)

Spec == Init /\ [][Next]_vars

\* As long as a handler, a WebSocket thread or a timer can move, one of them
\* does; a client that neither releases the key nor keeps it alive is starved by
\* the watchdog.  (Every press takes finitely many steps, so this is enough.)
Progress == \/ Stopping
            \/ \E s \in Presses : Starting(s) \/ Closing(s) \/ Watchdog(s) \/ DeadmanFires(s)
FairSpec == Spec /\ WF_vars(Progress)

-----------------------------------------------------------------------------
(* Properties. *)

WsPcs == {"off", "connect", "recv", "flush", "reflush", "idle", "notify", "backstop", "done"}

ControlOK ==
  /\ slot \in Presses \cup {Nobody} /\ pressEpoch \in 0..MaxPresses
  /\ heldEpoch \in Presses \cup {Nobody} /\ hold \in BOOLEAN
SessionOK ==
  /\ sess \in [Presses -> {"idle", "connecting", "listening", "flushing"}]
  /\ lastError \in [Presses -> BOOLEAN] /\ words \in [Presses -> 0..MaxWords]
  /\ connected \in [Presses -> BOOLEAN] /\ connectOk \in [Presses -> BOOLEAN]
StopperOK ==
  /\ tpc \in {"idle", "read", "grace", "release"}
  /\ tsess \in Presses \cup {Nobody} /\ tepoch \in Presses \cup {Nobody}
  /\ tpc \in {"read", "grace"} => tsess \in Presses
ThreadsOK ==
  /\ apc \in [Presses -> {"off", "spawn", "wait", "free", "release", "done"}]
  /\ wpc \in [Presses -> WsPcs]
  /\ deadman \subseteq Presses /\ ended \subseteq Presses
  /\ sent \in [Presses -> Nat] /\ dictated \subseteq Presses /\ refused \subseteq Presses

TypeOK == ControlOK /\ SessionOK /\ StopperOK /\ ThreadsOK

\* While the newest press listens and nobody has ended it, speech is held: no
\* late close, failed start or deadman of an earlier press clears its hold.
LiveMicIsHeld ==
  (pressEpoch > 0 /\ sess[pressEpoch] = "listening" /\ pressEpoch \notin ended) => hold

\* What a session heard becomes at most one turn, close errors included.
AtMostOneTurn == \A s \in Presses : sent[s] <= 1

\* Dictation is accounted for, however its session ends: once it has closed, what was
\* heard has become one turn if it amounts to one, or that turn was refused, and less
\* has become none.
Flushed(s) == wpc[s] \in {"idle", "notify", "backstop", "done"}
DictationAccounted ==
  \A s \in Presses : Flushed(s) =>
    sent[s] + (IF s \in refused THEN 1 ELSE 0) = IF s \in dictated THEN 1 ELSE 0

\* No press mutes the engine for good, whatever its client or network does.
HoldEnds == []<>~hold

\* The slot is always given back: no press is refused for ever.
SlotIsFreed == []<>(slot = Nobody)

\* One operator, one mic, one session.
OneLiveSession ==
  \A s, t \in Presses : sess[s] = "listening" /\ sess[t] = "listening" => s = t
=============================================================================
