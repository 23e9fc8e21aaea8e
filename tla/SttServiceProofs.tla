-------------------------- MODULE SttServiceProofs --------------------------
(***************************************************************************)
(* Theorems about SttService, for any number of children, ports and        *)
(* threads.  The supervisor keeps two things straight on its own, and the  *)
(* callers only ever reach it through EnsureStarted:                       *)
(*   - which child may be up: the one in hand, until shutdown takes it     *)
(*     out of the hand and ends it (ChildInv);                             *)
(*   - whose exit is on record: the thread that pumps the child in hand    *)
(*     reads that very child, and when it is over the exit is on record    *)
(*     (ExitInv), although any other pump thread may read it as well.      *)
(***************************************************************************)
EXTENDS SttService, TLAPS

\* The child that may be up, and where shutdown has got to.
ChildInv ==
  /\ \A k \in Up : k = sup.proc \/ k = sup.ending
  /\ sup.ending # NoKid => sup.shut
  /\ sup.shut => sup.proc = NoKid

\* The pump thread of the child in hand, and the exit on record.
ExitInv ==
  sup.proc # NoKid =>
    /\ pump[sup.proc] = "run" => target[sup.proc] = sup.proc
    /\ pump[sup.proc] = "over" => sup.exited
    /\ sup.exited => life[sup.proc] = "dead"

SupRecords ==
  [proc : Kids \cup {NoKid}, port : Ports \cup {NoPort},
   asr : {"unknown", "loading", "ready"}, exited : BOOLEAN,
   shut : BOOLEAN, ending : Kids \cup {NoKid}]

\* The locals of a caller, which has a candidate port where it needs one, and what
\* holds of the callers, the lock and the URI.
Calls ==
  {r \in [pc : Places, route : {"start", "test"}, uri : Ports \cup {NoPort},
          port : Ports \cup {NoPort}, ok : BOOLEAN] :
     r.pc \in {"probe2", "repoint"} => r.port # NoPort}
CallersOK ==
  /\ uri \in Ports /\ lock \in Callers \cup {Nobody} /\ prewarm \in BOOLEAN
  /\ call \in [Callers -> Calls]
  /\ \A c \in Callers : call[c].pc \in Ensuring <=> lock = c

\* The inductive invariant.
IInv == SupTypeOK /\ CallersOK /\ ChildInv /\ ExitInv

-----------------------------------------------------------------------------
(* Types. *)

LEMMA KidsAreNumbers == Kids \subseteq Nat \ {0} /\ NoKid \notin Kids
BY SttAssumption DEF Kids, NoKid

LEMMA InitTypes == Init => SupTypeOK /\ CallersOK
<1> SUFFICES ASSUME Init PROVE SupTypeOK /\ CallersOK
  OBVIOUS
<1>1. SupTypeOK
  BY SttAssumption DEF Init, SupInit, SupTypeOK
<1>2. Idle \in Calls /\ Idle.pc \notin Ensuring
  BY DEF Idle, Calls, Places, Ensuring
<1>3. CallersOK
  BY <1>2, CallersAssumption DEF Init, CallersOK
<1>4. QED
  BY <1>1, <1>3

\* A client never does more to the types than what the service says back.
LEMMA TouchTypes ==
  ASSUME SupTypeOK, NEW p, Touch(p)
  PROVE  /\ model' \in [Kids -> {"cold", "loading", "ready"}]
         /\ pipe' \in [Kids -> Seq(Events)]
<1>1. Event("asr_state", "loading") \in Events
  BY DEF Events
<1>2. QED
  BY <1>1 DEF Touch, SupTypeOK

LEMMA EnsureStartedTypes ==
  ASSUME SupTypeOK, NEW started \in BOOLEAN, EnsureStarted(started)
  PROVE  SupTypeOK'
<1>1. CASE UNCHANGED <<life, pump, sup>>
  BY <1>1 DEF EnsureStarted, SupTypeOK
<1>2. ASSUME NEW k \in Kids, Spawn(k) PROVE SupTypeOK'
  BY <1>2 DEF EnsureStarted, Spawn, SupTypeOK
<1>3. CASE NoSpawn
  BY <1>3 DEF EnsureStarted, NoSpawn, SupTypeOK
<1>4. QED
  BY <1>1, <1>2, <1>3 DEF EnsureStarted

LEMMA ServiceTypes ==
  ASSUME SupTypeOK, NEW k \in Kids, Service(k)
  PROVE  SupTypeOK'
<1>1. CASE Bind(k)
  <2> PICK p \in Ports \ Listening :
        bound' = [bound EXCEPT ![k] = p] /\ Says(k, Event("ws_port", p))
    BY <1>1 DEF Bind
  <2>1. Event("ws_port", p) \in Events
    BY DEF Events
  <2>2. QED
    BY <1>1, <2>1 DEF Bind, Says, SupTypeOK, pumpVars
<1>2. CASE ModelLoads(k)
  <2>1. Event("asr_state", "ready") \in Events
    BY DEF Events
  <2>2. QED
    BY <1>2, <2>1 DEF ModelLoads, Says, SupTypeOK, pumpVars
<1>3. CASE Die(k)
  BY <1>3 DEF Die, Dies, SupTypeOK, pumpVars
<1>4. QED
  BY <1>1, <1>2, <1>3 DEF Service

\* An event changes what is known of the port or the model, and nothing else.
LEMMA NotedOnly ==
  ASSUME SupTypeOK, NEW e \in Events
  PROVE  /\ Noted(e) \in SupRecords
         /\ Noted(e).proc = sup.proc /\ Noted(e).exited = sup.exited
         /\ Noted(e).shut = sup.shut /\ Noted(e).ending = sup.ending
<1>1. ASSUME NEW p \in Ports, e = Event("ws_port", p)
      PROVE  e.type = "ws_port" /\ e.value = p /\ Noted(e) = [sup EXCEPT !.port = p]
  BY <1>1 DEF Event, Noted
<1>2. ASSUME NEW s \in {"loading", "ready"}, e = Event("asr_state", s)
      PROVE  e.type = "asr_state" /\ e.value = s /\ Noted(e) = [sup EXCEPT !.asr = s]
  BY <1>2 DEF Event, Noted
<1>3. \/ \E p \in Ports : Noted(e) = [sup EXCEPT !.port = p]
      \/ \E s \in {"loading", "ready"} : Noted(e) = [sup EXCEPT !.asr = s]
  BY <1>1, <1>2 DEF Events
<1>4. QED
  BY <1>3 DEF SupTypeOK, SupRecords

LEMMA PumpTypes ==
  ASSUME SupTypeOK, NEW k \in Kids, Pump(k)
  PROVE  SupTypeOK'
<1>1. CASE PumpStarts(k)
  BY <1>1 DEF PumpStarts, SupTypeOK, kidVars
<1>2. CASE PumpReads(k)
  <2> DEFINE t == target[k]
             e == Head(pipe[t])
  <2>1. t \in Kids /\ pipe[t] \in Seq(Events) /\ pipe[t] # <<>>
    BY <1>2 DEF PumpReads, SupTypeOK
  <2>2. e \in Events /\ Tail(pipe[t]) \in Seq(Events)
    BY <2>1
  <2>3. Noted(e) \in SupRecords
    BY <2>2, NotedOnly
  <2>4. pipe' \in [Kids -> Seq(Events)]
    BY <1>2, <2>2 DEF PumpReads, SupTypeOK
  <2>5. QED
    BY <1>2, <2>3, <2>4 DEF PumpReads, SupTypeOK, SupRecords, pumpVars
<1>3. CASE PumpEnds(k)
  <2>1. pipe' \in [Kids -> Seq(Events)]
    BY <1>3 DEF PumpEnds, SupTypeOK
  <2>2. sup' \in SupRecords
    BY <1>3 DEF PumpEnds, SupTypeOK, SupRecords
  <2>3. QED
    BY <1>3, <2>1, <2>2 DEF PumpEnds, SupTypeOK, SupRecords, NoKid
<1>4. QED
  BY <1>1, <1>2, <1>3 DEF Pump

LEMMA OperatorTypes == SupTypeOK /\ Operator => SupTypeOK'
<1> SUFFICES ASSUME SupTypeOK, Operator PROVE SupTypeOK'
  OBVIOUS
<1>1. CASE ManualStarts \/ ManualQuits
  BY <1>1 DEF ManualStarts, ManualQuits, SupTypeOK, kidVars, pumpVars
<1>2. CASE Shutdown
  BY <1>2 DEF Shutdown, SupTypeOK, kidVars, pumpVars
<1>3. CASE Terminate
  BY <1>3 DEF Terminate, Dies, SupTypeOK, pumpVars
<1>4. QED
  BY <1>1, <1>2, <1>3 DEF Operator

\* The callers: each step moves one of them, and the lock with it.
LEMMA CallerMoves ==
  ASSUME CallersOK, NEW c \in Callers, NEW r \in Calls,
         call' = [call EXCEPT ![c] = r],
         uri' \in Ports, prewarm' \in BOOLEAN, lock' \in Callers \cup {Nobody},
         r.pc \in Ensuring <=> lock' = c,
         \A d \in Callers \ {c} : lock' = d <=> lock = d
  PROVE  CallersOK'
BY DEF CallersOK, Calls

\* The moves the actions are made of, when the lock stays where it is.
LEMMA GotoKeeps ==
  ASSUME CallersOK, NEW c \in Callers, NEW place \in Places, Goto(c, place),
         UNCHANGED <<uri, lock, prewarm>>,
         place \in Ensuring <=> call[c].pc \in Ensuring,
         place \in {"probe2", "repoint"} => call[c].port # NoPort
  PROVE  CallersOK'
<1> DEFINE r == [call[c] EXCEPT !.pc = place]
<1>1. call[c] \in Calls
  BY DEF CallersOK
<1>2. r \in Calls /\ r.pc = place
  BY <1>1 DEF Calls
<1>3. call' = [call EXCEPT ![c] = r]
  BY DEF Goto
<1> HIDE DEF r
<1>4. QED
  BY <1>2, <1>3, CallerMoves DEF CallersOK

LEMMA CandidateKeeps ==
  ASSUME CallersOK, NEW c \in Callers, NEW p \in Ports,
         call' = [call EXCEPT ![c].pc = "probe2", ![c].port = p],
         UNCHANGED <<uri, lock, prewarm>>, call[c].pc \in Ensuring
  PROVE  CallersOK'
<1> DEFINE r == [call[c] EXCEPT !.pc = "probe2", !.port = p]
<1>1. call[c] \in Calls
  BY DEF CallersOK
<1>2. r \in Calls /\ r.pc \in Ensuring
  BY <1>1, SttAssumption DEF Calls, Places, Ensuring, NoPort
<1>3. call' = [call EXCEPT ![c] = r]
  BY <1>1 DEF CallersOK
<1> HIDE DEF r
<1>4. QED
  BY <1>2, <1>3, CallerMoves DEF CallersOK

LEMMA ConcludeKeeps ==
  ASSUME CallersOK, NEW c \in Callers, NEW ok \in BOOLEAN, Conclude(c, ok),
         uri' \in Ports, UNCHANGED <<lock, prewarm>>, call[c].pc \in Ensuring
  PROVE  CallersOK'
<1> DEFINE r == [call[c] EXCEPT !.pc = "outcome", !.ok = ok]
<1>1. call[c] \in Calls
  BY DEF CallersOK
<1>2. r \in Calls /\ r.pc \in Ensuring
  BY <1>1 DEF Calls, Places, Ensuring
<1>3. call' = [call EXCEPT ![c] = r]
  BY <1>1 DEF CallersOK, Conclude
<1> HIDE DEF r
<1>4. QED
  BY <1>2, <1>3, CallerMoves DEF CallersOK

LEMMA IdleIsCall == Idle \in Calls /\ Idle.pc \notin Ensuring
BY DEF Idle, Calls, Places, Ensuring

LEMMA AnswerKeeps ==
  ASSUME CallersOK, NEW c \in Callers, Answer(c),
         UNCHANGED <<uri, lock, prewarm>>, call[c].pc \notin Ensuring
  PROVE  CallersOK'
BY IdleIsCall, CallerMoves DEF Answer, CallersOK

LEMMA CallersStep ==
  ASSUME CallersOK, SupTypeOK, NEW c \in Callers,
         PressStart(c) \/ PressTest(c) \/ Serve(c) \/ TakeLock(c)
  PROVE  CallersOK'
<1> USE DEF At
<1>1. uri \in Ports /\ call[c] \in Calls /\ lock \in Callers \cup {Nobody} /\ prewarm \in BOOLEAN
      /\ (call[c].pc \in Ensuring <=> lock = c)
  BY DEF CallersOK, Calls
<1>2. CASE PressStart(c)
  <2> DEFINE r == [Idle EXCEPT !.pc = "gate", !.uri = uri]
  <2>1. r \in Calls /\ r.pc \notin Ensuring
    BY <1>1 DEF Idle, Calls, Places, Ensuring
  <2>2. call[c].pc \notin Ensuring
    BY <1>2 DEF PressStart, Ensuring
  <2>3. QED
    BY <1>1, <1>2, <2>1, <2>2, CallerMoves DEF PressStart
<1>3. CASE PressTest(c)
  <2> PICK u \in Ports :
        call' = [call EXCEPT ![c] = [Idle EXCEPT !.pc = "probe", !.route = "test", !.uri = u]]
    BY <1>3 DEF PressTest
  <2> DEFINE r == [Idle EXCEPT !.pc = "probe", !.route = "test", !.uri = u]
  <2>1. r \in Calls /\ r.pc \notin Ensuring
    BY DEF Idle, Calls, Places, Ensuring
  <2>2. call[c].pc \notin Ensuring
    BY <1>3 DEF PressTest, Ensuring
  <2>3. call' = [call EXCEPT ![c] = r]
    OBVIOUS
  <2> HIDE DEF r
  <2>4. QED
    BY <1>1, <1>3, <2>1, <2>2, <2>3, CallerMoves DEF PressTest
<1>4. CASE Gate(c)
  <2>1. Goto(c, "ready") \/ Goto(c, "start")
    BY <1>4 DEF Gate
  <2>2. QED
    BY <1>4, <2>1, GotoKeeps DEF Gate, Places, Ensuring
<1>5. CASE WaitReady(c)
  <2>1. Goto(c, "start") \/ Answer(c)
    BY <1>5 DEF WaitReady
  <2>2. QED
    BY <1>5, <2>1, GotoKeeps, AnswerKeeps DEF WaitReady, Places, Ensuring
<1>6. CASE StartHold(c)
  <2>1. Goto(c, "lock") \/ Answer(c)
    BY <1>6 DEF StartHold
  <2>2. QED
    BY <1>6, <2>1, GotoKeeps, AnswerKeeps DEF StartHold, Places, Ensuring
<1>7. CASE ProbeTested(c)
  <2>1. Goto(c, "lock") \/ Answer(c)
    BY <1>7 DEF ProbeTested
  <2>2. QED
    BY <1>7, <2>1, GotoKeeps, AnswerKeeps DEF ProbeTested, Places, Ensuring
<1>8. CASE TakeLock(c)
  <2> DEFINE r == [call[c] EXCEPT !.pc = "probe1"]
  <2>1. r \in Calls /\ r.pc \in Ensuring
    BY <1>1 DEF Calls, Places, Ensuring
  <2>2. call' = [call EXCEPT ![c] = r]
    BY <1>8 DEF TakeLock, Goto
  <2> HIDE DEF r
  <2>3. \A d \in Callers \ {c} : lock' = d <=> lock = d
    BY <1>8, CallersAssumption DEF TakeLock
  <2>4. QED
    BY <1>1, <1>8, <2>1, <2>2, <2>3, CallerMoves DEF TakeLock
<1>9. CASE ProbeConfigured(c)
  <2>1. Conclude(c, TRUE) \/ Goto(c, "spawn")
    BY <1>9 DEF ProbeConfigured
  <2>2. QED
    BY <1>1, <1>9, <2>1, GotoKeeps, ConcludeKeeps DEF ProbeConfigured, Places, Ensuring
<1>10. CASE StartService(c)
  <2>1. Goto(c, "port") \/ Goto(c, "scan")
    BY <1>10 DEF StartService
  <2>2. QED
    BY <1>10, <2>1, GotoKeeps DEF StartService, Places, Ensuring
<1>11. CASE WaitPort(c)
  <2>1. CASE sup.port # NoPort
    <3>1. sup.port \in Ports
      BY <2>1 DEF SupTypeOK
    <3>2. QED
      BY <1>11, <2>1, <3>1, CandidateKeeps DEF WaitPort, Ensuring
  <2>2. CASE sup.port = NoPort
    BY <1>11, <2>2, GotoKeeps DEF WaitPort, Places, Ensuring
  <2>3. QED
    BY <2>1, <2>2
<1>12. CASE ScanPorts(c)
  <2>1. Listening \subseteq Ports
    BY SttAssumption DEF SupTypeOK, Listening, Up
  <2>2. CASE Conclude(c, FALSE)
    BY <1>1, <1>12, <2>2, ConcludeKeeps DEF ScanPorts, Ensuring
  <2>3. CASE \E p \in Listening : call' = [call EXCEPT ![c].pc = "probe2", ![c].port = p]
    BY <1>12, <2>1, <2>3, CandidateKeeps DEF ScanPorts, Ensuring
  <2>4. QED
    BY <1>12, <2>2, <2>3 DEF ScanPorts
<1>13. CASE ProbeCandidate(c)
  <2>1. call[c].port # NoPort
    BY <1>1, <1>13 DEF ProbeCandidate, Calls
  <2>2. Conclude(c, FALSE) \/ Goto(c, "repoint")
    BY <1>13 DEF ProbeCandidate
  <2>3. QED
    BY <1>1, <1>13, <2>1, <2>2, GotoKeeps, ConcludeKeeps DEF ProbeCandidate, Places, Ensuring
<1>14. CASE Repoint(c)
  <2>1. call[c].port \in Ports
    BY <1>1, <1>14 DEF Repoint, Calls
  <2>2. QED
    BY <1>1, <1>14, <2>1, ConcludeKeeps DEF Repoint, Ensuring
<1>15. CASE Outcome(c)
  <2>1. lock = c
    BY <1>1, <1>15 DEF Outcome, Ensuring
  <2>2. PICK r \in Calls : r.pc \notin Ensuring /\ call' = [call EXCEPT ![c] = r]
    <3> DEFINE s == [call[c] EXCEPT !.pc = "retry"]
    <3>1. s \in Calls /\ s.pc \notin Ensuring
      BY <1>1 DEF Calls, Places, Ensuring
    <3>2. Goto(c, "retry") => call' = [call EXCEPT ![c] = s]
      BY DEF Goto
    <3> HIDE DEF s
    <3>3. QED
      BY <1>15, <3>1, <3>2, IdleIsCall DEF Outcome, Answer
  <2>3. \A d \in Callers \ {c} : lock' = d <=> lock = d
    BY <1>15, <2>1, CallersAssumption DEF Outcome
  <2>4. QED
    BY <1>1, <1>15, <2>2, <2>3, CallersAssumption, CallerMoves DEF Outcome
<1>16. QED
  BY <1>2, <1>3, <1>4, <1>5, <1>6, <1>7, <1>8, <1>9, <1>10, <1>11, <1>12,
     <1>13, <1>14, <1>15 DEF Serve, Ensure

\* A step of a caller outside ensure_started leaves the supervisor alone but for
\* what its connection does to a child.
LEMMA CallerSupTypes ==
  ASSUME SupTypeOK, CallersOK, NEW c \in Callers,
         PressStart(c) \/ PressTest(c) \/ Serve(c) \/ TakeLock(c)
  PROVE  SupTypeOK'
<1>1. call[c] \in Calls
  BY DEF CallersOK
<1>2. ASSUME UNCHANGED supRest, model' \in [Kids -> {"cold", "loading", "ready"}],
             pipe' \in [Kids -> Seq(Events)]
      PROVE  SupTypeOK'
  BY <1>2 DEF supRest, pumpVars, SupTypeOK
<1>3. ASSUME UNCHANGED supRest, NEW p, Touch(p) \/ Refused PROVE SupTypeOK'
  BY <1>2, <1>3, TouchTypes DEF Refused, SupTypeOK
<1>4. CASE UNCHANGED supVars
  BY <1>4 DEF supVars, kidVars, pumpVars, SupTypeOK
<1>5. CASE StartHold(c)
  BY <1>3, <1>5 DEF StartHold, Connects
<1>6. CASE ProbeTested(c)
  BY <1>3, <1>6 DEF ProbeTested, Connects
<1>7. CASE ProbeConfigured(c)
  BY <1>3, <1>7 DEF ProbeConfigured, Connects
<1>8. CASE StartService(c)
  BY <1>8, EnsureStartedTypes DEF StartService
<1>9. CASE ScanPorts(c)
  BY <1>3, <1>9 DEF ScanPorts
<1>10. CASE ProbeCandidate(c)
  BY <1>3, <1>10 DEF ProbeCandidate, Connects
<1>11. CASE \/ PressStart(c) \/ PressTest(c) \/ Gate(c) \/ WaitReady(c) \/ TakeLock(c)
            \/ WaitPort(c) \/ Repoint(c) \/ Outcome(c)
  BY <1>4, <1>11 DEF PressStart, PressTest, Gate, WaitReady, TakeLock, WaitPort, Repoint, Outcome
<1>12. QED
  BY <1>5, <1>6, <1>7, <1>8, <1>9, <1>10, <1>11 DEF Serve, Ensure

-----------------------------------------------------------------------------
(* The child and its exit.  What keeps both invariants is stated of the      *)
(* supervisor's variables alone.                                             *)

LEMMA SupInvInit == Init => ChildInv /\ ExitInv
BY KidsAreNumbers DEF Init, SupInit, ChildInv, ExitInv, Up, NoKid

\* Steps that leave the children's lives, the pumps and the supervisor's hand.
LEMMA Uninvolved ==
  ASSUME ChildInv, ExitInv, UNCHANGED <<life, pump, target>>,
         sup'.proc = sup.proc, sup'.exited = sup.exited, sup'.shut = sup.shut,
         sup'.ending = sup.ending
  PROVE  ChildInv' /\ ExitInv'
BY DEF ChildInv, ExitInv, Up

LEMMA EnsureStartedInv ==
  ASSUME SupTypeOK, ChildInv, ExitInv, NEW started \in BOOLEAN, EnsureStarted(started)
  PROVE  ChildInv' /\ ExitInv'
<1>1. CASE UNCHANGED <<life, pump, sup>>
  BY <1>1, Uninvolved DEF EnsureStarted
<1>2. CASE ~sup.shut /\ ~Alive(sup.proc) /\ UNCHANGED target /\ \E k \in Kids : Spawn(k)
  <2> PICK k \in Kids : Spawn(k)
    BY <1>2
  <2>1. Up = {} /\ sup.ending = NoKid
    BY <1>2, KidsAreNumbers DEF ChildInv, Alive, Up
  <2>2. /\ life' = [life EXCEPT ![k] = "up"] /\ pump' = [pump EXCEPT ![k] = "new"]
        /\ sup'.proc = k /\ ~sup'.exited /\ sup'.shut = sup.shut /\ sup'.ending = sup.ending
    BY DEF Spawn, SupTypeOK
  <2>3. Up' = {k}
    BY <2>1, <2>2 DEF Up, SupTypeOK
  <2>4. ChildInv'
    BY <1>2, <2>1, <2>2, <2>3 DEF ChildInv
  <2>5. ExitInv'
    BY <2>2 DEF ExitInv, SupTypeOK
  <2>6. QED
    BY <2>4, <2>5
<1>3. CASE ~sup.shut /\ ~Alive(sup.proc) /\ NoSpawn
  <2>1. Up = {} /\ sup.ending = NoKid
    BY <1>3, KidsAreNumbers DEF ChildInv, Alive, Up
  <2>2. sup'.proc = NoKid /\ life' = life /\ sup'.shut = sup.shut /\ sup'.ending = sup.ending
    BY <1>3 DEF NoSpawn, SupTypeOK
  <2>3. QED
    BY <2>1, <2>2 DEF ChildInv, ExitInv, Up
<1>4. QED
  BY <1>1, <1>2, <1>3 DEF EnsureStarted

\* A child that dies only ever makes the facts easier to keep.
LEMMA DiesInv ==
  ASSUME SupTypeOK, ChildInv, ExitInv, NEW k \in Kids, Dies(k), UNCHANGED <<pump, target, sup>>
  PROVE  ChildInv' /\ ExitInv'
<1>1. Up' \subseteq Up /\ \A j \in Kids : life[j] = "dead" => life'[j] = "dead"
  BY DEF Dies, Up, SupTypeOK
<1>2. QED
  BY <1>1 DEF ChildInv, ExitInv, SupTypeOK

LEMMA PumpInv ==
  ASSUME SupTypeOK, ChildInv, ExitInv, NEW k \in Kids, Pump(k)
  PROVE  ChildInv' /\ ExitInv'
<1>1. CASE PumpStarts(k)
  BY <1>1 DEF PumpStarts, ChildInv, ExitInv, SupTypeOK, kidVars, Up
<1>2. CASE PumpReads(k)
  <2>1. /\ sup'.proc = sup.proc /\ sup'.exited = sup.exited /\ sup'.shut = sup.shut
        /\ sup'.ending = sup.ending
    <3>1. Head(pipe[target[k]]) \in Events
      BY <1>2 DEF PumpReads, SupTypeOK
    <3>2. QED
      BY <1>2, <3>1, NotedOnly DEF PumpReads
  <2>2. QED
    BY <1>2, <2>1, Uninvolved DEF PumpReads, pumpVars
<1>3. CASE PumpEnds(k)
  <2>1. /\ sup'.proc = sup.proc /\ sup'.shut = sup.shut /\ sup'.ending = sup.ending
        /\ sup'.exited = (sup.exited \/ sup.proc = target[k])
    BY <1>3 DEF PumpEnds, SupTypeOK
  <2>2. /\ life' = life /\ pump' = [pump EXCEPT ![k] = "over"]
        /\ target' = [target EXCEPT ![k] = NoKid] /\ pump[k] = "run"
    BY <1>3 DEF PumpEnds
  <2>3. ChildInv'
    BY <2>1, <2>2 DEF ChildInv, Up
  <2>4. ASSUME sup.proc # NoKid PROVE target[k] = sup.proc => life[sup.proc] = "dead"
    BY <1>3, <2>4 DEF PumpEnds, ChildInv
  <2>5. ExitInv'
    BY <2>1, <2>2, <2>4 DEF ExitInv, SupTypeOK
  <2>6. QED
    BY <2>3, <2>5
<1>4. QED
  BY <1>1, <1>2, <1>3 DEF Pump

LEMMA OutsideInv ==
  ASSUME SupTypeOK, ChildInv, ExitInv, Operator \/ \E k \in Kids : Service(k)
  PROVE  ChildInv' /\ ExitInv'
<1>1. CASE ManualStarts \/ ManualQuits
  BY <1>1, Uninvolved DEF ManualStarts, ManualQuits, kidVars, pumpVars
<1>2. CASE Shutdown
  <2>1. sup'.shut /\ sup'.proc = NoKid /\ sup'.ending = sup.proc /\ life' = life
    BY <1>2 DEF Shutdown, SupTypeOK, kidVars
  <2>2. QED
    BY <1>2, <2>1 DEF Shutdown, ChildInv, ExitInv, Up
<1>3. CASE Terminate
  <2>1. sup'.proc = NoKid /\ sup'.shut = sup.shut /\ sup'.ending = NoKid
    BY <1>3 DEF Terminate, SupTypeOK, ChildInv
  <2>2. sup.ending \in Kids /\ Up' = Up \ {sup.ending}
    BY <1>3 DEF Terminate, Dies, Up, SupTypeOK
  <2>3. QED
    BY <1>3, <2>1, <2>2 DEF Terminate, ChildInv, ExitInv
<1>4. ASSUME NEW k \in Kids, Service(k) PROVE ChildInv' /\ ExitInv'
  <2>1. CASE Bind(k)
    BY <2>1, Uninvolved DEF Bind, pumpVars
  <2>2. CASE ModelLoads(k)
    BY <2>2, Uninvolved DEF ModelLoads, pumpVars
  <2>3. CASE Die(k)
    BY <2>3, DiesInv DEF Die, pumpVars
  <2>4. QED
    BY <1>4, <2>1, <2>2, <2>3 DEF Service
<1>5. QED
  BY <1>1, <1>2, <1>3, <1>4 DEF Operator

LEMMA CallerInv ==
  ASSUME SupTypeOK, ChildInv, ExitInv, NEW c \in Callers,
         PressStart(c) \/ PressTest(c) \/ Serve(c) \/ TakeLock(c)
  PROVE  ChildInv' /\ ExitInv'
<1>1. CASE UNCHANGED <<life, pump, target, sup>>
  BY <1>1, Uninvolved
<1>2. CASE StartService(c)
  BY <1>2, EnsureStartedInv DEF StartService
<1>3. CASE \/ StartHold(c) \/ ProbeTested(c) \/ ProbeConfigured(c) \/ ScanPorts(c)
           \/ ProbeCandidate(c)
  BY <1>1, <1>3 DEF StartHold, ProbeTested, ProbeConfigured, ScanPorts, ProbeCandidate,
                    supRest, pumpVars
<1>4. CASE \/ PressStart(c) \/ PressTest(c) \/ Gate(c) \/ WaitReady(c) \/ TakeLock(c)
           \/ WaitPort(c) \/ Repoint(c) \/ Outcome(c)
  BY <1>1, <1>4 DEF PressStart, PressTest, Gate, WaitReady, TakeLock, WaitPort, Repoint,
                    Outcome, supVars, kidVars, pumpVars
<1>5. QED
  BY <1>2, <1>3, <1>4 DEF Serve, Ensure

-----------------------------------------------------------------------------
(* The theorems.                                                             *)

LEMMA InitInv == Init => IInv
BY InitTypes, SupInvInit DEF IInv

LEMMA StepInv == IInv /\ [Next]_vars => IInv'
<1> SUFFICES ASSUME IInv, [Next]_vars PROVE IInv'
  OBVIOUS
<1> USE DEF IInv
<1>1. ASSUME NEW c \in Callers, PressStart(c) \/ PressTest(c) \/ Serve(c) \/ TakeLock(c)
      PROVE  IInv'
  BY <1>1, CallersStep, CallerSupTypes, CallerInv
<1>2. CASE Prewarm
  <2>1. CallersOK'
    BY <1>2 DEF Prewarm, CallersOK
  <2>2. QED
    BY <1>2, <2>1, EnsureStartedTypes, EnsureStartedInv DEF Prewarm
<1>3. CASE Configure
  <2>1. CallersOK'
    BY <1>3 DEF Configure, CallersOK
  <2>2. SupTypeOK' /\ UNCHANGED <<life, pump, target, sup>>
    BY <1>3 DEF Configure, supVars, kidVars, pumpVars, SupTypeOK
  <2>3. QED
    BY <2>1, <2>2, Uninvolved
<1>4. CASE Outside
  <2>1. CallersOK'
    BY <1>4 DEF Outside, routeVars, CallersOK
  <2>2. QED
    BY <1>4, <2>1, OperatorTypes, ServiceTypes, OutsideInv DEF Outside
<1>5. ASSUME NEW k \in Kids, PumpStep(k) PROVE IInv'
  <2>1. CallersOK'
    BY <1>5 DEF PumpStep, routeVars, CallersOK
  <2>2. QED
    BY <1>5, <2>1, PumpTypes, PumpInv DEF PumpStep
<1>6. CASE UNCHANGED vars
  <2>1. CallersOK' /\ SupTypeOK' /\ UNCHANGED <<life, pump, target, sup>>
    BY <1>6 DEF vars, supVars, kidVars, pumpVars, CallersOK, SupTypeOK
  <2>2. QED
    BY <2>1, Uninvolved
<1>7. QED
  BY <1>1, <1>2, <1>3, <1>4, <1>5, <1>6 DEF Next

\* The inductive invariant holds in every reachable state.
THEOREM Invariance == Spec => []IInv
BY InitInv, StepInv, PTL DEF Spec

\* Supervisor, service, routes and lock stay well typed, and ensure_lock is held by
\* the one caller inside an ensure cycle, for any number of threads.
THEOREM TypeCorrect == Spec => []TypeOK
<1>1. IInv => TypeOK
  BY DEF IInv, CallersOK, Calls, TypeOK
<1>2. QED
  BY <1>1, Invariance, PTL

\* However many threads ask for the service, at most one child runs, and none once
\* shutdown has returned.
THEOREM OneChildRuns == Spec => []OneChild
<1>1. IInv => OneChild
  BY KidsAreNumbers DEF IInv, ChildInv, OneChild, Up
<1>2. QED
  BY <1>1, Invariance, PTL

\* The exit on record is that of the child in hand, and is on record once the
\* child's pump thread is over, for any number of respawns.
THEOREM ExitIsBelieved == Spec => []ExitIsOfChild
<1>1. IInv => ExitIsOfChild
  BY DEF IInv, ExitInv, ExitIsOfChild
<1>2. QED
  BY <1>1, Invariance, PTL
=============================================================================
