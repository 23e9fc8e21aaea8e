---------------------------- MODULE SttSupervisor ----------------------------
(***************************************************************************)
(* The supervisor of the speech-to-text service (stt/supervisor.py): it    *)
(* owns at most one liveaudio-service child, learns about it from a thread *)
(* that pumps the child's stdout, and never looks back once it has shut    *)
(* down.  The child itself is not part of the repository: it is modelled   *)
(* by the contract in the docstring (a port at once, the model on the      *)
(* first client, an exit at any time).  Fatal codes are left out: a wait   *)
(* that one ends early is a wait that times out.  So are the fields only   *)
(* status() reads.  A child is a number, in the order of the spawns; ports *)
(* are numbers.                                                            *)
(***************************************************************************)
EXTENDS Naturals, Sequences

CONSTANTS MaxKids,        \* how many children are ever spawned
          Ports,          \* the ports base..base+9 of the service
          ManualPorts     \* where the operator may start a LiveAudio by hand

ASSUME SttAssumption ==
  MaxKids \in Nat /\ Ports \subseteq Nat \ {0} /\ ManualPorts \subseteq Ports

Kids == 1..MaxKids
NoKid == 0
NoPort == 0

VARIABLES
  life,      \* of each child: unborn, up or dead
  bound,     \* the port it listens on
  model,     \* its ASR: cold, loading (from the first client on) or ready
  pipe,      \* events on its stdout that nobody has read yet
  pump,      \* its pump thread: off, new, run, over
  target,    \* the process that thread reads, its local `proc`
  manual,    \* the port of a LiveAudio started by hand, if any
  sup        \* the fields of LiveAudioSupervisor under its _lock; the child shutdown ends

kidVars == <<life, bound, model, pipe>>
pumpVars == <<pump, target>>
supVars == <<kidVars, pumpVars, manual, sup>>

SupInit ==
  /\ life = [k \in Kids |-> "unborn"] /\ bound = [k \in Kids |-> NoPort]
  /\ model = [k \in Kids |-> "cold"] /\ pipe = [k \in Kids |-> <<>>]
  /\ pump = [k \in Kids |-> "off"] /\ target = [k \in Kids |-> NoKid]
  /\ manual = NoPort
  /\ sup = [proc |-> NoKid, port |-> NoPort, asr |-> "unknown", exited |-> FALSE,
            shut |-> FALSE, ending |-> NoKid]

-----------------------------------------------------------------------------
(* The service, as the contract describes it. *)

Event(type, value) == [type |-> type, value |-> value]
Events == {Event("ws_port", p) : p \in Ports}
            \cup {Event("asr_state", s) : s \in {"loading", "ready"}}
Says(k, e) == pipe' = [pipe EXCEPT ![k] = Append(@, e)]

Up == {k \in Kids : life[k] = "up"}
Listening == ({bound[k] : k \in Up} \cup {manual}) \ {NoPort}

\* A client on port p is what makes the service there load its model.
Touch(p) ==
  LET cold == {k \in Up : bound[k] = p /\ p # NoPort /\ model[k] = "cold"}
  IN  /\ model' = [k \in Kids |-> IF k \in cold THEN "loading" ELSE model[k]]
      /\ pipe' = [k \in Kids |-> IF k \in cold THEN Append(pipe[k], Event("asr_state", "loading"))
                                               ELSE pipe[k]]

Bind(k) ==
  /\ k \in Up /\ bound[k] = NoPort /\ model[k] = "cold"
  /\ \E p \in Ports \ Listening :
       bound' = [bound EXCEPT ![k] = p] /\ Says(k, Event("ws_port", p))
  /\ UNCHANGED <<life, model, pumpVars, manual, sup>>

ModelLoads(k) ==
  /\ k \in Up /\ model[k] = "loading"
  /\ model' = [model EXCEPT ![k] = "ready"] /\ Says(k, Event("asr_state", "ready"))
  /\ UNCHANGED <<life, bound, pumpVars, manual, sup>>

\* It is rejected as a second instance, lacks a device or a model, or crashes.
\* A dead child has neither port nor model; what it wrote can still be read.
Dies(k) ==
  /\ life' = [life EXCEPT ![k] = "dead"]
  /\ bound' = [bound EXCEPT ![k] = NoPort] /\ model' = [model EXCEPT ![k] = "cold"]
Die(k) == k \in Up /\ Dies(k) /\ UNCHANGED <<pipe, pumpVars, manual, sup>>

\* The operator starts or quits a LiveAudio of their own.
ManualStarts ==
  /\ manual = NoPort /\ \E p \in ManualPorts \ Listening : manual' = p
  /\ UNCHANGED <<kidVars, pumpVars, sup>>
ManualQuits ==
  /\ manual # NoPort /\ manual' = NoPort
  /\ UNCHANGED <<kidVars, pumpVars, sup>>

-----------------------------------------------------------------------------
(* The pump threads. *)

\* The thread reads self._proc when it first runs, without the lock.
PumpStarts(k) ==
  /\ pump[k] = "new"
  /\ pump' = [pump EXCEPT ![k] = "run"] /\ target' = [target EXCEPT ![k] = sup.proc]
  /\ UNCHANGED <<kidVars, manual, sup>>

\* _handle_event: nothing ties an event to the child the fields are about.
Noted(e) ==
  CASE e.type = "ws_port" -> [sup EXCEPT !.port = e.value]
    [] e.type = "asr_state" -> [sup EXCEPT !.asr = e.value]

PumpReads(k) ==
  /\ pump[k] = "run" /\ target[k] # NoKid /\ pipe[target[k]] # <<>>
  /\ sup' = Noted(Head(pipe[target[k]]))
  /\ pipe' = [pipe EXCEPT ![target[k]] = Tail(@)]
  /\ UNCHANGED <<life, bound, model, pumpVars, manual>>

\* Mutant: the finally clause does not ask whose exit it saw.
PumpEndsAny(k) ==
  /\ pump[k] = "run"
  /\ \/ target[k] = NoKid \/ sup.shut
     \/ target[k] # NoKid /\ life[target[k]] = "dead" /\ pipe[target[k]] = <<>>
  /\ pump' = [pump EXCEPT ![k] = "over"] /\ target' = [target EXCEPT ![k] = NoKid]
  /\ pipe' = [j \in Kids |-> IF j = target[k] THEN <<>> ELSE pipe[j]]
  /\ sup' = [sup EXCEPT !.exited = TRUE]
  /\ UNCHANGED <<life, bound, model, manual>>

\* End of file, the first event after the shutdown or a closed stdout; then the
\* finally clause, which believes the exit only of the process it read.
PumpEnds(k) ==
  /\ pump[k] = "run"
  /\ \/ target[k] = NoKid \/ sup.shut
     \/ target[k] # NoKid /\ life[target[k]] = "dead" /\ pipe[target[k]] = <<>>
  /\ pump' = [pump EXCEPT ![k] = "over"] /\ target' = [target EXCEPT ![k] = NoKid]
  /\ pipe' = [j \in Kids |-> IF j = target[k] THEN <<>> ELSE pipe[j]]
  /\ sup' = [sup EXCEPT !.exited = @ \/ sup.proc = target[k]]
  /\ UNCHANGED <<life, bound, model, manual>>

-----------------------------------------------------------------------------
(* The supervisor's methods. *)

Alive(k) == k \in Up
IsLoading == sup.proc # NoKid /\ sup.asr = "loading"

Fresh(k) == life[k] = "unborn" /\ \A j \in Kids : j < k => life[j] # "unborn"

Spawn(k) ==
  /\ Fresh(k)
  /\ life' = [life EXCEPT ![k] = "up"] /\ pump' = [pump EXCEPT ![k] = "new"]
  /\ sup' = [sup EXCEPT !.proc = k, !.exited = FALSE]
NoSpawn ==
  sup' = [sup EXCEPT !.proc = NoKid, !.exited = FALSE] /\ UNCHANGED <<life, pump>>

\* Mutant: the check of the shutdown flag is dropped.
EnsureStartedUnchecked(started) ==
  /\ \/ Alive(sup.proc) /\ started = TRUE /\ UNCHANGED <<life, pump, sup>>
     \/ ~Alive(sup.proc) /\ started = TRUE /\ \E k \in Kids : Spawn(k)
     \/ ~Alive(sup.proc) /\ started = FALSE /\ NoSpawn
  /\ UNCHANGED <<bound, model, pipe, target, manual>>

\* ensure_started: single flight under _lock.  There may be no binary, or the
\* spawn may fail; what is known of an earlier child (port, asr) stays.
EnsureStarted(started) ==
  /\ \/ sup.shut /\ started = FALSE /\ UNCHANGED <<life, pump, sup>>
     \/ ~sup.shut /\ Alive(sup.proc) /\ started = TRUE /\ UNCHANGED <<life, pump, sup>>
     \/ ~sup.shut /\ ~Alive(sup.proc) /\ started = TRUE /\ \E k \in Kids : Spawn(k)
     \/ ~sup.shut /\ ~Alive(sup.proc) /\ started = FALSE /\ NoSpawn
  /\ UNCHANGED <<bound, model, pipe, target, manual>>

\* shutdown: the flag under _lock, the child after it; a second call returns.
Shutdown ==
  /\ ~sup.shut
  /\ sup' = [sup EXCEPT !.shut = TRUE, !.proc = NoKid, !.ending = sup.proc]
  /\ UNCHANGED <<kidVars, pumpVars, manual>>
Terminate ==
  /\ sup.ending # NoKid
  /\ Dies(sup.ending)
  /\ sup' = [sup EXCEPT !.ending = NoKid]
  /\ UNCHANGED <<pipe, pumpVars, manual>>

Service(k) == Bind(k) \/ ModelLoads(k) \/ Die(k)
Pump(k) == PumpStarts(k) \/ PumpReads(k) \/ PumpEnds(k)
Operator == ManualStarts \/ ManualQuits \/ Shutdown \/ Terminate

-----------------------------------------------------------------------------
SupTypeOK ==
  /\ life \in [Kids -> {"unborn", "up", "dead"}] /\ bound \in [Kids -> Ports \cup {NoPort}]
  /\ model \in [Kids -> {"cold", "loading", "ready"}]
  /\ pipe \in [Kids -> Seq(Events)]
  /\ pump \in [Kids -> {"off", "new", "run", "over"}] /\ target \in [Kids -> Kids \cup {NoKid}]
  /\ manual \in ManualPorts \cup {NoPort}
  /\ sup \in [proc : Kids \cup {NoKid}, port : Ports \cup {NoPort},
              asr : {"unknown", "loading", "ready"}, exited : BOOLEAN,
              shut : BOOLEAN, ending : Kids \cup {NoKid}]
=============================================================================
