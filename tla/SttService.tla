----------------------------- MODULE SttService -----------------------------
(***************************************************************************)
(* Who uses the supervisor: the push-to-talk routes (api/routers/ptt.py)   *)
(* and ensure_local_service (stt/discovery.py), which probes, spawns,      *)
(* waits, scans and repoints the controller under ensure_lock; the prewarm *)
(* thread and PUT /api/ptt/config.  A URI is its port: for any other URI   *)
(* than ws:// on the loopback host the routes skip all of this.  The slot  *)
(* a start takes and its session are PttController's subject.              *)
(***************************************************************************)
EXTENDS SttSupervisor

CONSTANTS Starters,     \* threads that serve POST /api/ptt/start
          Testers       \* threads that serve POST /api/ptt/test
Callers == Starters \cup Testers

Nobody == "nobody"
ASSUME CallersAssumption == Nobody \notin Callers

VARIABLES
  uri,        \* PttController._ws_uri
  lock,       \* who holds ensure_lock
  prewarm,    \* whether the prewarm thread has still to run
  call        \* of each caller: where it is, and its locals: route, URI, port, outcome

vars == <<supVars, uri, lock, prewarm, call>>
Ensuring == {"probe1", "spawn", "port", "scan", "probe2", "repoint", "outcome"}
Places == {"idle", "gate", "ready", "start", "probe", "lock", "retry"} \cup Ensuring
Idle == [pc |-> "idle", route |-> "start", uri |-> NoPort, port |-> NoPort, ok |-> FALSE]

Init ==
  /\ SupInit /\ uri \in Ports /\ lock = Nobody /\ prewarm \in BOOLEAN
  /\ call = [c \in Callers |-> Idle]

\* Steps of a caller.
At(c, place) == call[c].pc = place
Goto(c, place) == call' = [call EXCEPT ![c].pc = place]
Answer(c) == call' = [call EXCEPT ![c] = Idle]
Conclude(c, ok) == call' = [call EXCEPT ![c].pc = "outcome", ![c].ok = ok]

\* A bare connect to u: an answer needs a listener, a failure may be a timeout.
Connects(u) == u \in Listening /\ Touch(u)
Refused == UNCHANGED <<model, pipe>>
supRest == <<life, bound, pumpVars, manual, sup>>

-----------------------------------------------------------------------------
(* The routes. *)

PressStart(c) ==
  /\ c \in Starters /\ At(c, "idle") /\ ~sup.shut
  /\ call' = [call EXCEPT ![c] = [Idle EXCEPT !.pc = "gate", !.uri = uri]]
  /\ UNCHANGED <<supVars, uri, lock, prewarm>>

\* The URI of the body, or the controller's.
PressTest(c) ==
  /\ c \in Testers /\ At(c, "idle") /\ ~sup.shut
  /\ \E u \in Ports :
       call' = [call EXCEPT ![c] = [Idle EXCEPT !.pc = "probe", !.route = "test", !.uri = u]]
  /\ UNCHANGED <<supVars, uri, lock, prewarm>>

\* The loading gate comes first and reads memory only.
Gate(c) ==
  /\ At(c, "gate")
  /\ Goto(c, IF IsLoading THEN "ready" ELSE "start")
  /\ UNCHANGED <<supVars, uri, lock, prewarm>>

\* wait_for_ready: ready; or over, or its 5 s have passed (answered stt_loading).
WaitReady(c) ==
  /\ At(c, "ready")
  /\ \/ sup.asr = "ready" /\ Goto(c, "start")
     \/ sup.asr # "ready" /\ Answer(c)
  /\ UNCHANGED <<supVars, uri, lock, prewarm>>

\* controller.start() against the URI of now: the connect succeeds (listening), the
\* slot is taken (session_active), or the connect fails, and then the first time the
\* service is ensured, and a retry is answered stt_unreachable.
StartHold(c) ==
  /\ At(c, "start") \/ At(c, "retry")
  /\ \/ Connects(uri) /\ Answer(c)
     \/ Refused /\ Answer(c)
     \/ Refused /\ At(c, "start") /\ Goto(c, "lock")
  /\ UNCHANGED <<supRest, uri, lock, prewarm>>

\* A test probes first: connected, or an ensure cycle on the loopback host.
ProbeTested(c) ==
  /\ At(c, "probe")
  /\ \/ Connects(call[c].uri) /\ Answer(c)
     \/ Refused /\ Goto(c, "lock")
  /\ UNCHANGED <<supRest, uri, lock, prewarm>>

-----------------------------------------------------------------------------
(* ensure_local_service. *)

TakeLock(c) ==
  /\ At(c, "lock") /\ lock = Nobody /\ lock' = c /\ Goto(c, "probe1")
  /\ UNCHANGED <<supVars, uri, prewarm>>

ProbeConfigured(c) ==
  /\ At(c, "probe1")
  /\ \/ Connects(call[c].uri) /\ Conclude(c, TRUE)
     \/ Refused /\ Goto(c, "spawn")
  /\ UNCHANGED <<supRest, uri, lock, prewarm>>

StartService(c) ==
  /\ At(c, "spawn")
  /\ \E started \in BOOLEAN :
       EnsureStarted(started) /\ Goto(c, IF started THEN "port" ELSE "scan")
  /\ UNCHANGED <<uri, lock, prewarm>>

\* wait_for_port: the port on record, whoever reported it; else over, or 8 s passed.
WaitPort(c) ==
  /\ At(c, "port")
  /\ \/ /\ sup.port # NoPort
        /\ call' = [call EXCEPT ![c].pc = "probe2", ![c].port = sup.port]
     \/ sup.port = NoPort /\ Goto(c, "scan")
  /\ UNCHANGED <<supVars, uri, lock, prewarm>>

\* find_liveaudio_port: from the URI's port up, the first service that greets.
ScanPorts(c) ==
  /\ At(c, "scan")
  /\ \/ \E p \in Listening :
          /\ p >= call[c].uri /\ \A q \in Listening : q >= call[c].uri => p <= q
          /\ Touch(p)
          /\ call' = [call EXCEPT ![c].pc = "probe2", ![c].port = p]
     \/ Refused /\ Conclude(c, FALSE)
  /\ UNCHANGED <<supRest, uri, lock, prewarm>>

ProbeCandidate(c) ==
  /\ At(c, "probe2")
  /\ \/ Connects(call[c].port) /\ Goto(c, "repoint")
     \/ Refused /\ Conclude(c, FALSE)
  /\ UNCHANGED <<supRest, uri, lock, prewarm>>

\* set_ws_uri, whatever was configured in the meantime; never persisted.
Repoint(c) ==
  /\ At(c, "repoint") /\ uri' = call[c].port /\ Conclude(c, TRUE)
  /\ UNCHANGED <<supVars, lock, prewarm>>

\* Mutant: the lock is kept when the ensure fails.
OutcomeKeepsLock(c) ==
  /\ At(c, "outcome") /\ lock' = IF call[c].ok THEN Nobody ELSE lock
  /\ IF call[c].route = "start" /\ call[c].ok /\ ~IsLoading THEN Goto(c, "retry") ELSE Answer(c)
  /\ UNCHANGED <<supVars, uri, prewarm>>

\* Whether the service is loading is read last, under ensure_lock.  A start is
\* retried, or answered stt_loading or stt_unreachable; a test is answered.
Outcome(c) ==
  /\ At(c, "outcome") /\ lock' = Nobody
  /\ IF call[c].route = "start" /\ call[c].ok /\ ~IsLoading THEN Goto(c, "retry") ELSE Answer(c)
  /\ UNCHANGED <<supVars, uri, prewarm>>

-----------------------------------------------------------------------------
(* The others. *)

\* The prewarm thread runs ensure_started once, outside ensure_lock.
Prewarm ==
  /\ prewarm /\ prewarm' = FALSE
  /\ \E started \in BOOLEAN : EnsureStarted(started)
  /\ UNCHANGED <<uri, lock, call>>

\* PUT /api/ptt/config: saved, then applied to the controller.
Configure ==
  /\ ~sup.shut /\ \E u \in Ports : uri' = u
  /\ UNCHANGED <<supVars, lock, prewarm, call>>

Ensure(c) ==
  \/ ProbeConfigured(c) \/ StartService(c) \/ WaitPort(c) \/ ScanPorts(c)
  \/ ProbeCandidate(c) \/ Repoint(c) \/ Outcome(c)
Serve(c) == Gate(c) \/ WaitReady(c) \/ StartHold(c) \/ ProbeTested(c) \/ Ensure(c)
routeVars == <<uri, lock, prewarm, call>>
Outside == (Operator \/ \E k \in Kids : Service(k)) /\ UNCHANGED routeVars
PumpStep(k) == Pump(k) /\ UNCHANGED routeVars

Next ==
  \/ \E c \in Callers : PressStart(c) \/ PressTest(c) \/ Serve(c) \/ TakeLock(c)
  \/ Prewarm \/ Configure \/ Outside \/ \E k \in Kids : PumpStep(k)

Spec == Init /\ [][Next]_vars

\* The threads of the routes and the pumps run, a thread that waits for ensure_lock
\* gets it when it is free often enough, and the operator keeps pressing.
RetrySpec ==
  /\ Spec
  /\ \A c \in Callers : WF_vars(Serve(c)) /\ SF_vars(TakeLock(c))
  /\ \A k \in Kids : WF_vars(PumpStep(k))
  /\ \A c \in Starters : WF_vars(PressStart(c))

-----------------------------------------------------------------------------
\* Types; and ensure_lock is held by the one caller that is inside an ensure.
TypeOK ==
  /\ SupTypeOK
  /\ uri \in Ports /\ lock \in Callers \cup {Nobody} /\ prewarm \in BOOLEAN
  /\ call \in [Callers -> [pc : Places, route : {"start", "test"}, uri : Ports \cup {NoPort},
                           port : Ports \cup {NoPort}, ok : BOOLEAN]]
  /\ \A c \in Callers : call[c].pc \in Ensuring <=> lock = c

\* However many presses, tests and the prewarm thread ask for the service, and
\* whenever OpenCohost shuts down under them, one child runs at a time, and none
\* is left or started once shutdown() has returned.
OneChild ==
  /\ \A j, k \in Up : j = k
  /\ sup.shut /\ sup.ending = NoKid => Up = {}

\* The supervisor believes the exit of the child it holds, and of no other: an old
\* pump that ends after a respawn must not make the new child's waiters give up,
\* and a child that died unread must not count as running once its pump is over.
ExitIsOfChild ==
  sup.proc # NoKid =>
    /\ sup.exited => life[sup.proc] = "dead"
    /\ life[sup.proc] = "dead" /\ pump[sup.proc] = "over" => sup.exited

\* What QUICKSTART.md says of stt_loading, "just press again": pressing again
\* gets past a gate that reports loading for a child known to have exited.
GateOpens == (IsLoading /\ sup.exited) ~> ~(IsLoading /\ sup.exited)
=============================================================================
