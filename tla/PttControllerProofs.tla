------------------------ MODULE PttControllerProofs ------------------------
(***************************************************************************)
(* Proofs about PttController for every number of presses and words.  The  *)
(* properties are not inductive: a hold is safe because of how far the     *)
(* WebSocket thread of its press has come (NewestPressHolds), and a turn   *)
(* is sent once because of what the buffer contains when (Delivery).       *)
(***************************************************************************)
EXTENDS PttController, TLAPS

\* A thread that has gone past its session's end.
Ending == {"notify", "backstop", "done"}

\* The handler and the WebSocket thread of a press start in this order; whoever
\* releases a hold outside of a close has ended the press first.
ThreadsInOrder ==
  /\ \A s \in Presses : s > pressEpoch => apc[s] = "off"
  /\ \A s \in Presses : apc[s] \in {"off", "spawn"} => wpc[s] = "off"
  /\ \A s \in Presses : apc[s] = "release" => s \in ended
  /\ tpc # "idle" => tepoch \in ended
  /\ \A s \in deadman : wpc[s] = "done"

\* A session whose thread is past the end does not listen.
EndedIsDeaf == \A s \in Presses : wpc[s] \in Ending => sess[s] # "listening"

\* The newest press holds until it is ended or its thread has closed it.
NewestPressHolds ==
  (/\ pressEpoch > 0 /\ pressEpoch \notin ended
   /\ wpc[pressEpoch] # "done") => hold /\ heldEpoch = pressEpoch

\* The buffer fills while the thread receives, and has in it all that was heard; the
\* first flush makes of it the one turn of the session, taken or refused, or none.
Unflushed(s) == wpc[s] \in {"off", "connect", "recv", "flush"}
Turns(s) == sent[s] + (IF s \in refused THEN 1 ELSE 0)

Delivery ==
  \A s \in Presses :
    /\ wpc[s] \notin {"recv", "flush"} => words[s] = 0
    /\ Unflushed(s) => /\ sent[s] = 0 /\ s \notin refused
                       /\ s \in dictated <=> words[s] >= MinWords
    /\ ~Unflushed(s) => Turns(s) = IF s \in dictated THEN 1 ELSE 0

IInv == TypeOK /\ ThreadsInOrder /\ EndedIsDeaf /\ NewestPressHolds /\ Delivery

-----------------------------------------------------------------------------

USE PttAssumption DEF Presses, Nobody

LEMMA InitIInv == Init => IInv
<1> SUFFICES ASSUME Init PROVE IInv
  OBVIOUS
<1> USE DEF Init
<1>1. ControlOK
  <2>1. slot \in Presses \cup {Nobody} /\ pressEpoch \in 0..MaxPresses
    OBVIOUS
  <2>2. heldEpoch \in Presses \cup {Nobody} /\ hold \in BOOLEAN
    OBVIOUS
  <2> QED BY <2>1, <2>2 DEF ControlOK
<1>2. SessionOK
  BY DEF SessionOK
<1>3. StopperOK
  BY DEF StopperOK
<1>4. ThreadsOK
  BY DEF ThreadsOK, WsPcs
<1>5. ThreadsInOrder /\ EndedIsDeaf /\ NewestPressHolds /\ Delivery
  <2>1. ThreadsInOrder /\ EndedIsDeaf /\ NewestPressHolds
    BY DEF ThreadsInOrder, EndedIsDeaf, NewestPressHolds, Ending
  <2>2. Delivery
    BY DEF Delivery, Unflushed, Turns
  <2> QED BY <2>1, <2>2
<1> QED
  BY <1>1, <1>2, <1>3, <1>4, <1>5 DEF IInv, TypeOK

-----------------------------------------------------------------------------
(* The types, part by part. *)

LEMMA ControlStep == TypeOK /\ [Next]_vars => ControlOK'
<1> SUFFICES ASSUME TypeOK, [Next]_vars PROVE ControlOK'
  OBVIOUS
<1> USE DEF TypeOK, ControlOK
<1>1. CASE UNCHANGED control
  BY <1>1 DEF control
<1>2. CASE Press
  BY <1>2 DEF Press
<1>3. ASSUME NEW e, ReleaseHold(e), UNCHANGED <<slot, pressEpoch>> PROVE ControlOK'
  BY <1>3 DEF ReleaseHold
<1>4. ASSUME NEW s \in Presses, UNCHANGED <<pressEpoch, heldEpoch, hold>>, slot' \in {slot, Nobody}
      PROVE  ControlOK'
  BY <1>4
<1>5. CASE Stop \/ Stopping
  BY <1>1, <1>3, <1>5 DEF Stop, Stopping, StopReads, StopGrace, StopReleases
<1>6. ASSUME NEW s \in Presses, Starting(s) PROVE ControlOK'
  BY <1>1, <1>3, <1>4, <1>6
  DEF Starting, Spawn, StartReturns, StartTimesOut, StartFrees, StartReleases
<1>7. ASSUME NEW s \in Presses, Closing(s) \/ DeadmanFires(s) PROVE ControlOK'
  BY <1>1, <1>3, <1>4, <1>7
  DEF Closing, Connects, ConnectFails, GraceExpires, FlushBuffer, GoesIdle, SessionClosed,
      FreedSlot, CloseBackstop, DeadmanFires, control
<1>8. ASSUME NEW s \in Presses, Ingest(s) \/ Watchdog(s) \/ ConnectionDrops(s) PROVE ControlOK'
  BY <1>1, <1>8 DEF Ingest, Watchdog, ConnectionDrops
<1>9. CASE UNCHANGED vars
  BY <1>1, <1>9 DEF vars, control
<1> QED
  BY <1>2, <1>5, <1>6, <1>7, <1>8, <1>9 DEF Next

LEMMA SessionStep == TypeOK /\ [Next]_vars => SessionOK'
<1> SUFFICES ASSUME TypeOK, [Next]_vars PROVE SessionOK'
  OBVIOUS
<1> USE DEF TypeOK, SessionOK
<1>1. CASE UNCHANGED session
  BY <1>1 DEF session
<1>2. ASSUME NEW s \in Presses, NEW e \in BOOLEAN, BeginGrace(s, e),
             UNCHANGED <<words, connected, connectOk>>
      PROVE  SessionOK'
  BY <1>2 DEF BeginGrace
<1>3. CASE Press \/ Stop
  BY <1>1, <1>3 DEF Press, Stop
<1>4. CASE Stopping
  <2>1. CASE StopGrace
    <3>1. tsess \in Presses
      BY <2>1 DEF StopGrace, StopperOK
    <3> QED BY <1>2, <2>1, <3>1 DEF StopGrace
  <2> QED BY <1>1, <1>4, <2>1 DEF Stopping, StopReads, StopReleases
<1>5. ASSUME NEW s \in Presses, Starting(s) PROVE SessionOK'
  <2>1. CASE Spawn(s)
    BY <2>1 DEF Spawn
  <2>2. CASE StartTimesOut(s)
    BY <2>2 DEF StartTimesOut
  <2> QED
    BY <1>1, <1>5, <2>1, <2>2 DEF Starting, StartReturns, StartFrees, StartReleases
<1>6. ASSUME NEW s \in Presses, Closing(s) \/ DeadmanFires(s) PROVE SessionOK'
  <2>1. CASE Connects(s)
    BY <2>1 DEF Connects
  <2>2. CASE ConnectFails(s)
    BY <2>2 DEF ConnectFails
  <2>3. CASE FlushBuffer(s)
    BY <2>3 DEF FlushBuffer, Emptied
  <2>4. CASE GoesIdle(s)
    BY <2>4 DEF GoesIdle
  <2> QED
    BY <1>1, <1>6, <2>1, <2>2, <2>3, <2>4
    DEF Closing, GraceExpires, SessionClosed, CloseBackstop, DeadmanFires
<1>7. ASSUME NEW s \in Presses, Ingest(s) PROVE SessionOK'
  BY <1>7 DEF Ingest
<1>8. ASSUME NEW s \in Presses, Watchdog(s) \/ ConnectionDrops(s) PROVE SessionOK'
  BY <1>2, <1>8 DEF Watchdog, ConnectionDrops
<1>9. CASE UNCHANGED vars
  BY <1>1, <1>9 DEF vars, session
<1> QED
  BY <1>3, <1>4, <1>5, <1>6, <1>7, <1>8, <1>9 DEF Next

LEMMA StopperStep == TypeOK /\ [Next]_vars => StopperOK'
<1> SUFFICES ASSUME TypeOK, [Next]_vars PROVE StopperOK'
  OBVIOUS
<1>1. CASE UNCHANGED stopper
  BY <1>1 DEF TypeOK, StopperOK, stopper
<1>2. CASE Stop
  BY <1>2 DEF TypeOK, StopperOK, ControlOK, Stop
<1>3. CASE Stopping
  BY <1>3 DEF TypeOK, StopperOK, Stopping, StopReads, StopGrace, StopReleases
<1>4. CASE ~(Stop \/ Stopping)
  BY <1>1, <1>4
  DEF Next, vars, stopper, Press, Starting, Spawn, StartReturns, StartTimesOut, StartFrees,
      StartReleases, Closing, Connects, ConnectFails, GraceExpires, FlushBuffer, GoesIdle,
      SessionClosed, CloseBackstop, DeadmanFires, Ingest, Watchdog, ConnectionDrops
<1> QED
  BY <1>2, <1>3, <1>4

LEMMA ThreadsStep == TypeOK /\ [Next]_vars => ThreadsOK'
<1> SUFFICES ASSUME TypeOK, [Next]_vars PROVE ThreadsOK'
  OBVIOUS
<1> USE DEF TypeOK, ThreadsOK, WsPcs, delivery
<1>1. CASE UNCHANGED <<apc, wpc, deadman, delivery, ended>>
  BY <1>1
<1>2. CASE Press
  BY <1>2 DEF Press, ControlOK
<1>3. CASE Stop \/ Stopping
  <2>1. pressEpoch > 0 => pressEpoch \in Presses
    BY DEF ControlOK
  <2> QED BY <1>3, <2>1 DEF Stop, Stopping, StopReads, StopGrace, StopReleases
<1>4. ASSUME NEW s \in Presses, Starting(s) PROVE ThreadsOK'
  BY <1>4 DEF Starting, Spawn, StartReturns, StartTimesOut, StartFrees, StartReleases
<1>5. ASSUME NEW s \in Presses, FlushBuffer(s) PROVE ThreadsOK'
  <2>1. wpc' \in [Presses -> WsPcs]
    BY <1>5 DEF FlushBuffer
  <2>2. sent' \in [Presses -> Nat] /\ refused' \subseteq Presses
    <3>1. Deliver(s)
      BY <1>5 DEF FlushBuffer
    <3>2. CASE sent' = [sent EXCEPT ![s] = @ + 1] /\ UNCHANGED refused
      BY <3>2
    <3>3. CASE UNCHANGED sent /\ refused' \subseteq refused \cup {s}
      BY <3>3
    <3> QED BY <3>1, <3>2, <3>3 DEF Deliver
  <2> QED BY <1>5, <2>1, <2>2 DEF FlushBuffer
<1>6. ASSUME NEW s \in Presses, Closing(s) \/ DeadmanFires(s), ~FlushBuffer(s) PROVE ThreadsOK'
  <2>1. CASE Connects(s) \/ ConnectFails(s) \/ GraceExpires(s) \/ GoesIdle(s) \/ SessionClosed(s)
    BY <2>1 DEF Connects, ConnectFails, GraceExpires, GoesIdle, SessionClosed
  <2>2. CASE CloseBackstop(s)
    BY <2>2 DEF CloseBackstop, Armed
  <2>3. CASE DeadmanFires(s)
    BY <2>3 DEF DeadmanFires
  <2> QED BY <1>6, <2>1, <2>2, <2>3 DEF Closing
<1>7. ASSUME NEW s \in Presses, Ingest(s) \/ Watchdog(s) \/ ConnectionDrops(s) PROVE ThreadsOK'
  BY <1>7 DEF Ingest, Watchdog, ConnectionDrops
<1>8. CASE UNCHANGED vars
  BY <1>1, <1>8 DEF vars
<1> QED
  BY <1>2, <1>3, <1>4, <1>5, <1>6, <1>7, <1>8 DEF Next

LEMMA TypeStep == TypeOK /\ [Next]_vars => TypeOK'
  BY ControlStep, SessionStep, StopperStep, ThreadsStep DEF TypeOK

-----------------------------------------------------------------------------
(* The order of the threads, and what it means for the hold. *)

LEMMA OrderStep == IInv /\ [Next]_vars => ThreadsInOrder'
<1> SUFFICES ASSUME IInv, [Next]_vars PROVE ThreadsInOrder'
  OBVIOUS
<1> USE DEF IInv, TypeOK, ControlOK, StopperOK, ThreadsOK, WsPcs, ThreadsInOrder
<1>1. CASE UNCHANGED <<pressEpoch, apc, wpc, tpc, tepoch, deadman, ended>>
  BY <1>1
<1>2. CASE Press
  BY <1>2 DEF Press, stopper
<1>3. CASE Stop \/ Stopping
  BY <1>3 DEF Stop, Stopping, StopReads, StopGrace, StopReleases, control
<1>4. ASSUME NEW s \in Presses, Spawn(s) PROVE ThreadsInOrder'
  BY <1>4 DEF Spawn, control, stopper
<1>5. ASSUME NEW s \in Presses, Starting(s), ~Spawn(s) PROVE ThreadsInOrder'
  <2>1. CASE StartReturns(s)
    BY <2>1 DEF StartReturns, control, stopper
  <2>4. CASE StartTimesOut(s)
    BY <2>4 DEF StartTimesOut, control, stopper
  <2>2. CASE StartFrees(s)
    BY <2>2 DEF StartFrees, stopper
  <2>3. CASE StartReleases(s)
    BY <2>3 DEF StartReleases, stopper
  <2> QED BY <1>5, <2>1, <2>2, <2>3, <2>4 DEF Starting
<1>6. ASSUME NEW s \in Presses, Connects(s) \/ ConnectFails(s) \/ GraceExpires(s) \/ GoesIdle(s)
             \/ SessionClosed(s) \/ ConnectionDrops(s)
      PROVE  ThreadsInOrder'
  BY <1>6 DEF Connects, ConnectFails, GraceExpires, GoesIdle, SessionClosed, ConnectionDrops,
              control, stopper
<1>7. ASSUME NEW s \in Presses, FlushBuffer(s) PROVE ThreadsInOrder'
  BY <1>7 DEF FlushBuffer, control, stopper
<1>8. ASSUME NEW s \in Presses, CloseBackstop(s) PROVE ThreadsInOrder'
  BY <1>8 DEF CloseBackstop, Armed, stopper
<1>9. ASSUME NEW s \in Presses, DeadmanFires(s) PROVE ThreadsInOrder'
  BY <1>9 DEF DeadmanFires, stopper
<1>10. ASSUME NEW s \in Presses, Ingest(s) \/ Watchdog(s) PROVE ThreadsInOrder'
  BY <1>1, <1>10 DEF Ingest, Watchdog, control, stopper
<1>11. CASE UNCHANGED vars
  BY <1>1, <1>11 DEF vars, control, stopper
<1> QED
  BY <1>2, <1>3, <1>4, <1>5, <1>6, <1>7, <1>8, <1>9, <1>10, <1>11 DEF Next, Closing

\* Only Connects makes a session listen, and its thread then receives.
LEMMA DeafStep == IInv /\ [Next]_vars => EndedIsDeaf'
<1> SUFFICES ASSUME IInv, [Next]_vars PROVE EndedIsDeaf'
  OBVIOUS
<1> USE DEF IInv, TypeOK, SessionOK, StopperOK, ThreadsOK, WsPcs, EndedIsDeaf, Ending
<1>1. CASE UNCHANGED <<wpc, sess>>
  BY <1>1
<1>2. CASE Press \/ Stop
  BY <1>1, <1>2 DEF Press, Stop, session
<1>3. CASE Stopping
  BY <1>3 DEF Stopping, StopReads, StopGrace, StopReleases, BeginGrace, session
<1>4. ASSUME NEW s \in Presses, Starting(s) PROVE EndedIsDeaf'
  BY <1>4 DEF Starting, Spawn, StartReturns, StartTimesOut, StartFrees, StartReleases, session
<1>5. ASSUME NEW s \in Presses, Connects(s) \/ ConnectFails(s) \/ GraceExpires(s) \/ GoesIdle(s)
      PROVE  EndedIsDeaf'
  BY <1>5 DEF Connects, ConnectFails, GraceExpires, GoesIdle, session
<1>6. ASSUME NEW s \in Presses, FlushBuffer(s) PROVE EndedIsDeaf'
  BY <1>6 DEF FlushBuffer
<1>7. ASSUME NEW s \in Presses, SessionClosed(s) \/ CloseBackstop(s) \/ DeadmanFires(s) PROVE EndedIsDeaf'
  BY <1>7 DEF SessionClosed, CloseBackstop, DeadmanFires, session
<1>8. ASSUME NEW s \in Presses, Ingest(s) PROVE EndedIsDeaf'
  BY <1>1, <1>8 DEF Ingest
<1>9. ASSUME NEW s \in Presses, Watchdog(s) \/ ConnectionDrops(s) PROVE EndedIsDeaf'
  BY <1>9 DEF Watchdog, ConnectionDrops, BeginGrace
<1>10. CASE UNCHANGED vars
  BY <1>1, <1>10 DEF vars, session
<1> QED
  BY <1>2, <1>3, <1>4, <1>5, <1>6, <1>7, <1>8, <1>9, <1>10 DEF Next, Closing

\* A release of another press does not touch the newest one's hold.
LEMMA OtherRelease ==
  ASSUME IInv, NEW e, ReleaseHold(e), pressEpoch' = pressEpoch, ended \subseteq ended',
         e = pressEpoch => e \in ended' \/ wpc'[e] = "done",
         pressEpoch \in Presses /\ wpc[pressEpoch] = "done" => wpc'[pressEpoch] = "done"
  PROVE  NewestPressHolds'
  BY DEF IInv, TypeOK, ControlOK, NewestPressHolds, ReleaseHold

LEMMA HoldStep == IInv /\ [Next]_vars => NewestPressHolds'
<1> SUFFICES ASSUME IInv, [Next]_vars PROVE NewestPressHolds'
  OBVIOUS
<1> USE DEF IInv, TypeOK, ControlOK, ThreadsOK, WsPcs
<1>1. CASE /\ UNCHANGED <<pressEpoch, heldEpoch, hold>> /\ ended \subseteq ended'
           /\ pressEpoch \in Presses /\ wpc[pressEpoch] = "done" => wpc'[pressEpoch] = "done"
  BY <1>1 DEF NewestPressHolds
<1>2. CASE Press
  BY <1>2 DEF Press, NewestPressHolds
<1>3. CASE Stop \/ StopReads \/ StopGrace
  BY <1>1, <1>3 DEF Stop, StopReads, StopGrace, control
<1>4. CASE StopReleases
  BY <1>4, OtherRelease DEF StopReleases, ThreadsInOrder
<1>5. ASSUME NEW s \in Presses, Spawn(s) PROVE NewestPressHolds'
  BY <1>1, <1>5 DEF Spawn, control, ThreadsInOrder
<1>6. ASSUME NEW s \in Presses, StartReturns(s) \/ StartTimesOut(s) \/ StartFrees(s)
      PROVE  NewestPressHolds'
  BY <1>1, <1>6 DEF StartReturns, StartTimesOut, StartFrees, control
<1>7. ASSUME NEW s \in Presses, StartReleases(s) PROVE NewestPressHolds'
  BY <1>7, OtherRelease DEF StartReleases, ThreadsInOrder
<1>8. ASSUME NEW s \in Presses, Closing(s), ~CloseBackstop(s) PROVE NewestPressHolds'
  <2>1. UNCHANGED <<pressEpoch, heldEpoch, hold, ended>>
    BY <1>8 DEF Closing, Connects, ConnectFails, GraceExpires, FlushBuffer, GoesIdle,
                SessionClosed, control
  <2>2. wpc[s] # "done" /\ \A t \in Presses \ {s} : wpc'[t] = wpc[t]
    BY <1>8 DEF Closing, Connects, ConnectFails, GraceExpires, FlushBuffer, GoesIdle,
                SessionClosed
  <2> QED BY <1>1, <2>1, <2>2
<1>9. ASSUME NEW s \in Presses, CloseBackstop(s) PROVE NewestPressHolds'
  <2>1. wpc'[s] = "done" /\ \A t \in Presses \ {s} : wpc'[t] = wpc[t]
    BY <1>9 DEF CloseBackstop
  <2>2. UNCHANGED <<pressEpoch, ended>>
    BY <1>9 DEF CloseBackstop
  <2>3. CASE ReleaseHold(s)
    BY <2>1, <2>2, <2>3, OtherRelease
  <2>4. CASE UNCHANGED <<hold, heldEpoch>>
    BY <1>1, <2>1, <2>2, <2>4
  <2> QED BY <1>9, <2>3, <2>4 DEF CloseBackstop
<1>10. ASSUME NEW s \in Presses, DeadmanFires(s) PROVE NewestPressHolds'
  BY <1>10, OtherRelease DEF DeadmanFires, ThreadsInOrder
<1>11. ASSUME NEW s \in Presses, Ingest(s) \/ Watchdog(s) \/ ConnectionDrops(s)
       PROVE  NewestPressHolds'
  <2>1. UNCHANGED <<pressEpoch, heldEpoch, hold, ended>>
    BY <1>11 DEF Ingest, Watchdog, ConnectionDrops, control
  <2>2. wpc[s] # "done" /\ \A t \in Presses \ {s} : wpc'[t] = wpc[t]
    BY <1>11 DEF Ingest, Watchdog, ConnectionDrops
  <2> QED BY <1>1, <2>1, <2>2
<1>12. CASE UNCHANGED vars
  BY <1>1, <1>12 DEF vars, control
<1> QED
  BY <1>2, <1>3, <1>4, <1>5, <1>6, <1>7, <1>8, <1>9, <1>10, <1>11, <1>12
  DEF Next, Stopping, Starting

-----------------------------------------------------------------------------
(* Delivery. *)

\* A step that touches neither buffer nor turns and flushes nothing.
Proceeds(t) ==
  \/ wpc'[t] = wpc[t]
  \/ wpc[t] \in {"off", "connect"}
  \/ wpc[t] = "recv" /\ wpc'[t] = "flush"
  \/ ~Unflushed(t) /\ ~Unflushed(t)'

LEMMA DeliveryKept ==
  ASSUME IInv, UNCHANGED <<words, sent, refused, dictated>>, \A t \in Presses : Proceeds(t)
  PROVE  Delivery'
<1> SUFFICES ASSUME NEW t \in Presses
             PROVE  /\ wpc'[t] \notin {"recv", "flush"} => words[t] = 0
                    /\ Unflushed(t)' => /\ sent[t] = 0 /\ t \notin refused
                                        /\ t \in dictated <=> words[t] >= MinWords
                    /\ ~Unflushed(t)' => Turns(t) = IF t \in dictated THEN 1 ELSE 0
  BY DEF Delivery, Turns
<1>1. /\ wpc[t] \notin {"recv", "flush"} => words[t] = 0
      /\ Unflushed(t) => /\ sent[t] = 0 /\ t \notin refused
                         /\ t \in dictated <=> words[t] >= MinWords
      /\ ~Unflushed(t) => Turns(t) = IF t \in dictated THEN 1 ELSE 0
  BY DEF IInv, Delivery
<1>2. CASE wpc'[t] = wpc[t] \/ (wpc[t] = "recv" /\ wpc'[t] = "flush")
  BY <1>1, <1>2 DEF Unflushed
<1>3. CASE wpc[t] \in {"off", "connect"}
  <2>1. words[t] = 0 /\ sent[t] = 0 /\ t \notin refused /\ t \notin dictated
    BY <1>1, <1>3 DEF Unflushed
  <2> QED BY <2>1 DEF Turns
<1>4. CASE ~Unflushed(t) /\ ~Unflushed(t)'
  BY <1>1, <1>4 DEF Unflushed
<1> QED
  BY <1>2, <1>3, <1>4 DEF Proceeds

LEMMA DeliveryStep == IInv /\ [Next]_vars => Delivery'
<1> SUFFICES ASSUME IInv, [Next]_vars PROVE Delivery'
  OBVIOUS
<1> USE DEF IInv, TypeOK, SessionOK, ThreadsOK, WsPcs
<1>1. CASE UNCHANGED <<wpc, words, delivery>>
  BY <1>1, DeliveryKept DEF Proceeds, delivery
<1>2. CASE Press \/ Stop \/ Stopping
  BY <1>1, <1>2
  DEF Press, Stop, Stopping, StopReads, StopGrace, StopReleases, session
<1>3. ASSUME NEW s \in Presses, Starting(s) PROVE Delivery'
  <2>1. UNCHANGED <<words, delivery>>
    BY <1>3 DEF Starting, Spawn, StartReturns, StartTimesOut, StartFrees, StartReleases, session
  <2>2. \A t \in Presses : wpc'[t] = wpc[t] \/ wpc[t] = "off"
    BY <1>3 DEF Starting, Spawn, StartReturns, StartTimesOut, StartFrees, StartReleases,
                ThreadsInOrder
  <2> QED BY <2>1, <2>2, DeliveryKept DEF Proceeds, delivery
<1>4. ASSUME NEW s \in Presses, Closing(s) \/ ConnectionDrops(s), ~FlushBuffer(s),
             UNCHANGED <<words, delivery>>
      PROVE  Delivery'
  <2>1. ASSUME NEW t \in Presses, t # s PROVE Proceeds(t)
    <3>1. wpc'[t] = wpc[t]
      <4>1. CASE Connects(s) \/ ConnectFails(s)
        BY <2>1, <4>1 DEF Connects, ConnectFails
      <4>3. CASE GraceExpires(s) \/ ConnectionDrops(s)
        BY <2>1, <4>3 DEF GraceExpires, ConnectionDrops
      <4>2. CASE GoesIdle(s) \/ SessionClosed(s) \/ CloseBackstop(s)
        BY <2>1, <4>2 DEF GoesIdle, SessionClosed, CloseBackstop
      <4> QED BY <1>4, <4>1, <4>2, <4>3 DEF Closing
    <3> QED BY <3>1 DEF Proceeds
  <2>2. Proceeds(s)
    <3>1. CASE Connects(s) \/ ConnectFails(s)
      BY <3>1 DEF Proceeds, Connects, ConnectFails
    <3>2. CASE GraceExpires(s) \/ ConnectionDrops(s)
      BY <3>2 DEF Proceeds, GraceExpires, ConnectionDrops
    <3>3. CASE GoesIdle(s) \/ SessionClosed(s) \/ CloseBackstop(s)
      BY <3>3 DEF Proceeds, Unflushed, GoesIdle, SessionClosed, CloseBackstop
    <3> QED BY <1>4, <3>1, <3>2, <3>3 DEF Closing
  <2> QED BY <1>4, <2>1, <2>2, DeliveryKept DEF delivery
<1>5. ASSUME NEW s \in Presses, FlushBuffer(s) PROVE Delivery'
  <2>1. /\ words' = [words EXCEPT ![s] = 0] /\ dictated' = dictated
        /\ wpc'[s] \in {"idle", "reflush"}
        /\ \A t \in Presses \ {s} : /\ wpc'[t] = wpc[t] /\ sent'[t] = sent[t]
                                    /\ t \in refused' <=> t \in refused
    BY <1>5 DEF FlushBuffer, Deliver, Emptied
  <2>2. Turns(s)' = IF s \in dictated THEN 1 ELSE 0
    <3>1. CASE wpc[s] = "reflush"
      <4>1. Turns(s) = IF s \in dictated THEN 1 ELSE 0
        BY <3>1 DEF Delivery, Unflushed
      <4>2. words[s] = 0 /\ ~(0 >= MinWords)
        <5>1. words[s] = 0
          BY <3>1 DEF Delivery
        <5>2. ~(0 >= MinWords)
          BY PttAssumption
        <5> QED BY <5>1, <5>2
      <4> QED BY <1>5, <2>1, <4>1, <4>2 DEF FlushBuffer, Deliver, Turns
    <3>2. CASE wpc[s] = "flush"
      <4>1. sent[s] = 0 /\ s \notin refused /\ (s \in dictated <=> words[s] >= MinWords)
        BY <3>2 DEF Delivery, Unflushed
      <4> QED BY <1>5, <2>1, <4>1 DEF FlushBuffer, Deliver, Turns
    <3> QED BY <1>5, <3>1, <3>2 DEF FlushBuffer
  <2>3. ASSUME NEW t \in Presses \ {s}
        PROVE  /\ wpc'[t] = wpc[t] /\ words'[t] = words[t] /\ sent'[t] = sent[t]
               /\ t \in refused' <=> t \in refused
               /\ Turns(t)' = Turns(t)
    <3>1. wpc'[t] = wpc[t] /\ words'[t] = words[t] /\ sent'[t] = sent[t]
      BY <2>1, <2>3
    <3>2. t \in refused' <=> t \in refused
      BY <2>1, <2>3
    <3> QED BY <3>1, <3>2 DEF Turns
  <2>4. ~Unflushed(s)' /\ words'[s] = 0
    BY <2>1 DEF Unflushed
  <2>5. ASSUME NEW t \in Presses
        PROVE  /\ wpc'[t] \notin {"recv", "flush"} => words'[t] = 0
               /\ Unflushed(t)' => /\ sent'[t] = 0 /\ t \notin refused'
                                   /\ t \in dictated' <=> words'[t] >= MinWords
               /\ ~Unflushed(t)' => Turns(t)' = IF t \in dictated' THEN 1 ELSE 0
    <3>1. CASE t = s
      BY <2>1, <2>2, <2>4, <3>1
    <3>2. CASE t # s
      BY <2>1, <2>3, <3>2 DEF Delivery, Unflushed
    <3> QED BY <3>1, <3>2
  <2> QED BY <2>5 DEF Delivery
<1>6. ASSUME NEW s \in Presses, Ingest(s) PROVE Delivery'
  <2>1. /\ words' = [words EXCEPT ![s] = @ + 1] /\ wpc[s] = "recv" /\ wpc' = wpc
        /\ dictated' = IF words'[s] >= MinWords THEN dictated \cup {s} ELSE dictated
        /\ UNCHANGED <<sent, refused>>
    BY <1>6 DEF Ingest
  <2>2. s \in dictated' <=> words'[s] >= MinWords
    BY <2>1 DEF Delivery, Unflushed
  <2> QED BY <2>1, <2>2 DEF Delivery, Unflushed, Turns
<1>7. ASSUME NEW s \in Presses, Closing(s) \/ ConnectionDrops(s) \/ Watchdog(s) \/ DeadmanFires(s),
             ~FlushBuffer(s)
      PROVE  Delivery'
  BY <1>1, <1>4, <1>7
  DEF Closing, Connects, ConnectFails, GraceExpires, GoesIdle, SessionClosed, CloseBackstop,
      ConnectionDrops, Watchdog, DeadmanFires, session
<1>8. CASE UNCHANGED vars
  BY <1>1, <1>8 DEF vars, session
<1> QED
  BY <1>2, <1>3, <1>5, <1>6, <1>7, <1>8 DEF Next

-----------------------------------------------------------------------------
(* The theorems. *)

\* Every handler, thread and timer keeps the controller and its sessions well typed.
THEOREM TypeCorrect == Spec => []TypeOK
<1>1. Init => TypeOK
  BY InitIInv DEF IInv
<1> QED
  BY <1>1, TypeStep, PTL DEF Spec

LEMMA Inductive == Spec => []IInv
<1>1. IInv /\ [Next]_vars => IInv'
  BY TypeStep, OrderStep, DeafStep, HoldStep, DeliveryStep DEF IInv
<1> QED
  BY <1>1, InitIInv, PTL DEF Spec

\* However many presses there are, speech is held while the newest one listens and
\* has not been ended: no late close, failed start or deadman timer of an earlier
\* press gives its hold away.
THEOREM LiveMicIsAlwaysHeld == Spec => []LiveMicIsHeld
<1>1. IInv => LiveMicIsHeld
  BY DEF IInv, TypeOK, ControlOK, NewestPressHolds, EndedIsDeaf, Ending, LiveMicIsHeld
<1> QED
  BY <1>1, Inductive, PTL

\* A session's words become at most one turn, even if its buffer is flushed again
\* after its WebSocket failed to close.
THEOREM OneTurnAtMost == Spec => []AtMostOneTurn
<1>1. IInv => AtMostOneTurn
  <2> SUFFICES ASSUME IInv, NEW s \in Presses PROVE sent[s] <= 1
    BY DEF AtMostOneTurn
  <2>1. Turns(s) <= 1
    BY DEF IInv, Delivery, Turns, Unflushed
  <2> QED BY <2>1 DEF IInv, TypeOK, ThreadsOK, Turns
<1> QED
  BY <1>1, Inductive, PTL

\* A session that is closed, in whatever way, has made one turn of what it heard if
\* that amounts to one, taken by the engine or refused, and none if it does not.
THEOREM EveryDictationCounts == Spec => []DictationAccounted
<1>1. IInv => DictationAccounted
  BY DEF IInv, Delivery, Unflushed, Turns, Flushed, DictationAccounted
<1> QED
  BY <1>1, Inductive, PTL
=============================================================================
