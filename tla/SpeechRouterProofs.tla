------------------------- MODULE SpeechRouterProofs -------------------------
(***************************************************************************)
(* Proofs about SpeechRouter for every number of jobs, fragments, threads, *)
(* presses and stops.  IInv is inductive: TypeOK alone is not, because a   *)
(* resumed slice chunks[cursor:] has a length in Nat only while the cursor *)
(* is in range, and the emitted pairs stay balanced only because of who is *)
(* alive where (BoundaryInv).                                              *)
(***************************************************************************)
EXTENDS SpeechRouter, TLAPS

IInv == TypeOK /\ CursorsInRange /\ BoundaryInv

-----------------------------------------------------------------------------
(* The helper operators keep the types. *)

\* A sweep of any prefix leaves the stack, the states and the owner well typed.
LEMMA SweepTypes ==
  ASSUME IInv, NEW p, SweepSources(p)
  PROVE  /\ state' \in [Jobs -> States] /\ stack' \in [Jobs -> Nat]
         /\ owner' \in Jobs \cup {NoJob} /\ owedEnd' \in BOOLEAN
<1>1. state' \in [Jobs -> States]
  BY DEF IInv, TypeOK, JobsOK, SweepSources, States, Terminal
<1>2. stack' \in [Jobs -> Nat]
  BY DEF IInv, TypeOK, SchedOK, SweepSources
<1>3. owner' \in Jobs \cup {NoJob} /\ owedEnd' \in BOOLEAN
  BY DEF IInv, TypeOK, SchedOK, SweepSources
<1> QED BY <1>1, <1>2, <1>3

\* A suspension empties the active slot and ends _run_job; the stack gains rjob.
LEMMA PushEffect ==
  ASSUME IInv, rjob \in Jobs, PushSuspended(rjob)
  PROVE  /\ state' = [state EXCEPT ![rjob] = "SUSPENDED"] /\ state' \in [Jobs -> States]
         /\ pauseReq' \in [Jobs -> BOOLEAN]
         /\ stack' \in [Jobs -> Nat]
         /\ \E d \in Jobs : stack' = [stack EXCEPT ![rjob] = d]
         /\ active' = NoJob
         /\ rpc' = "top" /\ rjob' = NoJob /\ out' = NoOutcome /\ sawCancel' = FALSE
         /\ bareCut' = "none"
<1>1. state' = [state EXCEPT ![rjob] = "SUSPENDED"] /\ state' \in [Jobs -> States]
  BY DEF IInv, TypeOK, JobsOK, PushSuspended, States
<1>2. pauseReq' \in [Jobs -> BOOLEAN]
  BY DEF IInv, TypeOK, JobsOK, PushSuspended, SpentRequest
<1>3. \E d \in Jobs : stack' = [stack EXCEPT ![rjob] = d]
  BY DEF PushSuspended, PutOnTop
<1>4. stack' \in [Jobs -> Nat]
  BY <1>3 DEF IInv, TypeOK, SchedOK, Jobs
<1>5. active' = NoJob /\ rpc' = "top" /\ rjob' = NoJob /\ out' = NoOutcome /\ sawCancel' = FALSE
      /\ bareCut' = "none"
  BY DEF PushSuspended, BackToLoop
<1> QED BY <1>1, <1>2, <1>3, <1>4, <1>5

\* While it runs a job the router holds the active one, and it has been submitted.
LEMMA RunningJob ==
  ASSUME IInv, rpc \in RunPcs
  PROVE  /\ rjob \in Jobs /\ active = rjob /\ state[rjob] = "ACTIVE" /\ rjob < nextId
<1>1. rjob \in Jobs /\ active = rjob
  BY DEF IInv, BoundaryInv, RouterHoldsActive
<1>2. state[rjob] = "ACTIVE"
  BY <1>1 DEF IInv, BoundaryInv, OneHome
<1>3. rjob < nextId
  BY <1>1, <1>2 DEF IInv, BoundaryInv, NewJobsAreBlank, TypeOK, SchedOK, Jobs
<1> QED BY <1>1, <1>2, <1>3

-----------------------------------------------------------------------------
(* TypeOK, one conjunct at a time. *)

\* The fields of the jobs: every operation writes values of their types.
LEMMA JobsStep ==
  ASSUME IInv, Next
  PROVE  JobsOK'
<1>1. CASE UNCHANGED jobVars
  BY <1>1 DEF IInv, TypeOK, JobsOK, jobVars
<1>2. ASSUME NEW t \in Submitters, Submit(t) PROVE JobsOK'
  <2>1. kind' \in [Jobs -> Kinds \cup {"none"}]
    BY <1>2 DEF IInv, TypeOK, JobsOK, Submit
  <2>2. state' \in [Jobs -> States]
    BY <1>2 DEF IInv, TypeOK, JobsOK, Submit, States
  <2>3. chunks' \in [Jobs -> Nat]
    BY <1>2, RouterAssumption DEF IInv, TypeOK, JobsOK, Submit
  <2>4. sealed' \in [Jobs -> BOOLEAN] /\ split' \in [Jobs -> BOOLEAN]
    BY <1>2 DEF IInv, TypeOK, JobsOK, Submit
  <2> QED BY <1>2, <2>1, <2>2, <2>3, <2>4 DEF IInv, TypeOK, JobsOK, Submit
<1>3. ASSUME NEW t \in Submitters, SubmitSweep(t) PROVE JobsOK'
  BY <1>3, SweepTypes DEF IInv, TypeOK, JobsOK, SubmitSweep
<1>4. CASE EmergencySweep
  BY <1>4, SweepTypes DEF IInv, TypeOK, JobsOK, EmergencySweep
<1>5. CASE DrainForNewTurn
  BY <1>5, SweepTypes DEF IInv, TypeOK, JobsOK, DrainForNewTurn
<1>6. ASSUME NEW t \in Submitters, PauseSpeech(t) PROVE JobsOK'
  <2>1. pauseReq' \in [Jobs -> BOOLEAN]
    BY <1>6 DEF IInv, TypeOK, JobsOK, PauseSpeech
  <2> QED BY <1>6, <2>1 DEF IInv, TypeOK, JobsOK, PauseSpeech
<1>7. ASSUME NEW t \in Submitters, AppendChunks(t) PROVE JobsOK'
  <2>1. chunks' = [chunks EXCEPT ![sjob[t]] = chunks[sjob[t]] + 1] /\ chunks \in [Jobs -> Nat]
    BY <1>7 DEF IInv, TypeOK, JobsOK, AppendChunks
  <2>2. CASE sjob[t] \in Jobs
    <3>1. chunks[sjob[t]] + 1 \in Nat
      BY <2>1, <2>2
    <3> QED BY <1>7, <2>1, <3>1 DEF IInv, TypeOK, JobsOK, AppendChunks
  <2>3. CASE sjob[t] \notin Jobs
    <3>1. chunks' = chunks
      BY <2>1, <2>3
    <3> QED BY <1>7, <2>1, <3>1 DEF IInv, TypeOK, JobsOK, AppendChunks
  <2> QED BY <2>2, <2>3
<1>8. ASSUME NEW t \in Submitters, Seal(t) PROVE JobsOK'
  <2>1. sealed' \in [Jobs -> BOOLEAN]
    BY <1>8 DEF IInv, TypeOK, JobsOK, Seal
  <2> QED BY <1>8, <2>1 DEF IInv, TypeOK, JobsOK, Seal
<1>9. CASE HoldAndPause
  <2>1. pauseReq' \in [Jobs -> BOOLEAN]
    BY <1>9 DEF IInv, TypeOK, JobsOK, HoldAndPause
  <2> QED BY <1>9, <2>1 DEF IInv, TypeOK, JobsOK, HoldAndPause
<1>10. CASE PickIncoming \/ PickStack
  <2>1. state' \in [Jobs -> States]
    BY <1>10 DEF IInv, TypeOK, JobsOK, PickIncoming, PickStack, Activate, States
  <2> QED BY <1>10, <2>1 DEF IInv, TypeOK, JobsOK, PickIncoming, PickStack, Activate
<1>11. CASE BoundaryStart
  <2>1. started' \in [Jobs -> BOOLEAN]
    BY <1>11 DEF IInv, TypeOK, JobsOK, BoundaryStart
  <2> QED BY <1>11, <2>1 DEF IInv, TypeOK, JobsOK, BoundaryStart
<1>12. CASE WindowCheck
  <2>1. rjob \in Jobs
    BY <1>12, RunningJob DEF WindowCheck, RunPcs
  <2>2. state' \in [Jobs -> States] /\ pauseReq' \in [Jobs -> BOOLEAN]
    BY <1>12, <2>1, PushEffect DEF IInv, TypeOK, JobsOK, WindowCheck
  <2> QED BY <1>12, <2>2 DEF IInv, TypeOK, JobsOK, WindowCheck
<1>13. CASE ReconcileRaised
  <2>1. rjob \in Jobs
    BY <1>13, RunningJob DEF ReconcileRaised, RunPcs
  <2>2. state' \in [Jobs -> States]
    BY <1>13, <2>1, PushEffect DEF IInv, TypeOK, JobsOK, ReconcileRaised, States
  <2>3. pauseReq' \in [Jobs -> BOOLEAN]
    BY <1>13, <2>1, PushEffect DEF IInv, TypeOK, JobsOK, ReconcileRaised, ConsumeRequest
  <2>4. retried' \in [Jobs -> BOOLEAN]
    BY <1>13 DEF IInv, TypeOK, JobsOK, ReconcileRaised
  <2> QED BY <1>13, <2>2, <2>3, <2>4 DEF IInv, TypeOK, JobsOK, ReconcileRaised, reconcileSame
<1>14. CASE ReconcileRefused
  <2>1. pauseReq' \in [Jobs -> BOOLEAN]
    BY <1>14 DEF IInv, TypeOK, JobsOK, ReconcileRefused, ConsumeRequest
  <2> QED BY <1>14, <2>1 DEF IInv, TypeOK, JobsOK, ReconcileRefused, reconcileSame
<1>15. ASSUME ReconcileDrained \/ ReconcileCut PROVE JobsOK'
  <2>1. rjob \in Jobs /\ out \in Outcomes
    BY <1>15, RunningJob DEF ReconcileDrained, ReconcileCut, RunPcs, IInv, TypeOK, RouterOK
  <2>2. Settle
    BY <1>15 DEF ReconcileDrained, ReconcileCut
  <2>3. Owed \in Nat /\ Reached \in Nat
    BY <2>1 DEF Owed, Reached, IInv, TypeOK, JobsOK, Outcomes
  <2>4. /\ chunks' \in [Jobs -> Nat] /\ cursor' \in [Jobs -> Nat]
        /\ split' \in [Jobs -> BOOLEAN]
    BY <2>2, <2>3 DEF Settle, IInv, TypeOK, JobsOK
  <2>5. state' \in [Jobs -> States]
    BY <1>15, <2>1, PushEffect DEF IInv, TypeOK, JobsOK, ReconcileDrained, ReconcileCut
  <2>6. pauseReq' \in [Jobs -> BOOLEAN]
    BY <1>15, <2>1, PushEffect DEF IInv, TypeOK, JobsOK, ReconcileDrained, ReconcileCut, ConsumeRequest
  <2> QED BY <1>15, <2>4, <2>5, <2>6
          DEF IInv, TypeOK, JobsOK, ReconcileDrained, ReconcileCut, reconcileSame
<1>16. CASE StarvedWait
  <2>1. rjob \in Jobs
    BY <1>16, RunningJob DEF StarvedWait, RunPcs
  <2>2. state' \in [Jobs -> States] /\ pauseReq' \in [Jobs -> BOOLEAN]
    BY <1>16, <2>1, PushEffect DEF IInv, TypeOK, JobsOK, StarvedWait
  <2> QED BY <1>16, <2>2 DEF IInv, TypeOK, JobsOK, StarvedWait, reconcileSame
<1>17. CASE Finish
  <2>1. out.verdict \in Terminal
    BY <1>17 DEF Finish, IInv, TypeOK, RouterOK, Verdicts
  <2>2. state' \in [Jobs -> States]
    BY <1>17, <2>1 DEF IInv, TypeOK, JobsOK, Finish, States
  <2> QED BY <1>17, <2>2 DEF IInv, TypeOK, JobsOK, Finish
<1>18. ASSUME NEW t \in Submitters, PauseCut(t) PROVE JobsOK'
  BY <1>1, <1>18 DEF PauseCut
<1>19. CASE HoldCut \/ ReleaseHold \/ CancelSpeech \/ EmergencyCut \/ ClearSpeechCancel
  BY <1>1, <1>19 DEF HoldCut, ReleaseHold, CancelSpeech, EmergencyCut, ClearSpeechCancel
<1>20. CASE LoopTop \/ FlushEnd \/ FlushIdle \/ FlushEmitIdle \/ PickNone
  BY <1>1, <1>20 DEF LoopTop, FlushEnd, FlushIdle, FlushEmitIdle, PickNone
<1>21. CASE CheckCancelled \/ ClaimBoundary \/ CollectOwedEnd \/ BoundaryStartRaises
  BY <1>1, <1>21 DEF CheckCancelled, ClaimBoundary, CollectOwedEnd, BoundaryStartRaises
<1>22. CASE Playback
  BY <1>1, <1>22 DEF Playback, Hablar, Arm, RecheckPause, PlayFragment, PlayCompletes, PlayIsCut,
                     PlayCutUnseen, PlayTimesOut, HablarRaises, Returns
<1>23. CASE ReadCancel \/ FinishEnd \/ IdleCheck \/ FinishIdle
  BY <1>1, <1>23 DEF ReadCancel, FinishEnd, IdleCheck, FinishIdle
<1> QED
  BY <1>2, <1>3, <1>4, <1>5, <1>6, <1>7, <1>8, <1>9, <1>10, <1>11, <1>12, <1>13, <1>14, <1>15,
     <1>16, <1>17, <1>18, <1>19, <1>20, <1>21, <1>22, <1>23
  DEF Next, Router, Loop, RunJob, Reconcile, FinishJob, Operator, Emergency, Submitting, Preempting

\* What _sched_lock guards.
LEMMA SchedStep ==
  ASSUME IInv, Next
  PROVE  SchedOK'
<1>1. CASE UNCHANGED schedVars
  BY <1>1 DEF IInv, TypeOK, SchedOK, schedVars
<1>2. ASSUME NEW t \in Submitters, Submit(t) PROVE SchedOK'
  <2>1. nextId' \in 1..(MaxJobs + 1) /\ incoming' \subseteq Jobs
    BY <1>2, RouterAssumption DEF IInv, TypeOK, SchedOK, Submit, Jobs
  <2> QED BY <1>2, <2>1 DEF IInv, TypeOK, SchedOK, Submit
<1>3. ASSUME NEW t \in Submitters, SubmitSweep(t) PROVE SchedOK'
  BY <1>3, SweepTypes DEF IInv, TypeOK, SchedOK, SubmitSweep
<1>4. CASE EmergencySweep
  BY <1>4, SweepTypes DEF IInv, TypeOK, SchedOK, EmergencySweep
<1>5. CASE DrainForNewTurn
  BY <1>5, SweepTypes DEF IInv, TypeOK, SchedOK, DrainForNewTurn
<1>6. CASE HoldAndPause
  <2>1. pttHeld' \in BOOLEAN
    BY <1>6 DEF HoldAndPause
  <2> QED BY <1>6, <2>1 DEF IInv, TypeOK, SchedOK, HoldAndPause
<1>7. CASE ReleaseHold
  <2>1. pttHeld' \in BOOLEAN
    BY <1>7 DEF ReleaseHold
  <2> QED BY <1>7, <2>1 DEF IInv, TypeOK, SchedOK, ReleaseHold
<1>8. CASE LoopTop
  <2>1. owedEnd' \in BOOLEAN
    BY <1>8 DEF LoopTop
  <2> QED BY <1>8, <2>1 DEF IInv, TypeOK, SchedOK, LoopTop
<1>9. CASE PickIncoming
  BY <1>9 DEF IInv, TypeOK, SchedOK, PickIncoming, Activate
<1>10. CASE PickStack
  BY <1>10 DEF IInv, TypeOK, SchedOK, PickStack, Popped, Activate, OnStack
<1>11. CASE ClaimBoundary
  <2>1. owedEnd' \in BOOLEAN
    BY <1>11 DEF ClaimBoundary
  <2>2. owner' \in Jobs \cup {NoJob}
    BY <1>11, RunningJob DEF ClaimBoundary, RunPcs, IInv, TypeOK, SchedOK
  <2> QED BY <1>11, <2>1, <2>2 DEF IInv, TypeOK, SchedOK, ClaimBoundary
<1>12. CASE WindowCheck
  <2>1. rjob \in Jobs
    BY <1>12, RunningJob DEF WindowCheck, RunPcs
  <2>2. stack' \in [Jobs -> Nat] /\ active' \in Jobs \cup {NoJob}
    BY <1>12, <2>1, PushEffect DEF IInv, TypeOK, SchedOK, WindowCheck
  <2> QED BY <1>12, <2>2 DEF IInv, TypeOK, SchedOK, WindowCheck
<1>13. CASE ReconcileRaised
  <2>1. rjob \in Jobs
    BY <1>13, RunningJob DEF ReconcileRaised, RunPcs
  <2>2. stack' \in [Jobs -> Nat] /\ active' \in Jobs \cup {NoJob} /\ incoming' \subseteq Jobs
    BY <1>13, <2>1, PushEffect DEF IInv, TypeOK, SchedOK, ReconcileRaised
  <2> QED BY <1>13, <2>2 DEF IInv, TypeOK, SchedOK, ReconcileRaised, reconcileSame
<1>14. CASE ReconcileRefused \/ ReconcileDrained
  BY <1>1, <1>14 DEF ReconcileRefused, ReconcileDrained, reconcileSame, schedVars
<1>15. CASE ReconcileCut
  <2>1. rjob \in Jobs
    BY <1>15, RunningJob DEF ReconcileCut, RunPcs
  <2>2. stack' \in [Jobs -> Nat] /\ active' \in Jobs \cup {NoJob}
    BY <1>15, <2>1, PushEffect DEF IInv, TypeOK, SchedOK, ReconcileCut
  <2> QED BY <1>15, <2>2 DEF IInv, TypeOK, SchedOK, ReconcileCut, reconcileSame
<1>16. CASE StarvedWait
  <2>1. rjob \in Jobs
    BY <1>16, RunningJob DEF StarvedWait, RunPcs
  <2>2. stack' \in [Jobs -> Nat] /\ active' \in Jobs \cup {NoJob}
    BY <1>16, <2>1, PushEffect DEF IInv, TypeOK, SchedOK, StarvedWait
  <2> QED BY <1>16, <2>2 DEF IInv, TypeOK, SchedOK, StarvedWait, reconcileSame
<1>17. CASE Finish
  <2>1. active' \in Jobs \cup {NoJob} /\ owner' \in Jobs \cup {NoJob}
    BY <1>17 DEF IInv, TypeOK, SchedOK, Finish, OwnerAfter
  <2> QED BY <1>17, <2>1 DEF IInv, TypeOK, SchedOK, Finish
<1>18. ASSUME NEW t \in Submitters, PauseSpeech(t) \/ PauseCut(t) \/ AppendChunks(t) \/ Seal(t)
       PROVE SchedOK'
  BY <1>1, <1>18 DEF PauseSpeech, PauseCut, AppendChunks, Seal
<1>19. CASE HoldCut \/ CancelSpeech \/ EmergencyCut \/ ClearSpeechCancel
  BY <1>1, <1>19 DEF HoldCut, CancelSpeech, EmergencyCut, ClearSpeechCancel
<1>20. CASE FlushEnd \/ FlushIdle \/ FlushEmitIdle \/ PickNone
  BY <1>1, <1>20 DEF FlushEnd, FlushIdle, FlushEmitIdle, PickNone
<1>21. CASE CheckCancelled \/ CollectOwedEnd \/ BoundaryStart \/ BoundaryStartRaises
  BY <1>1, <1>21 DEF CheckCancelled, CollectOwedEnd, BoundaryStart, BoundaryStartRaises
<1>22. CASE Playback
  BY <1>1, <1>22 DEF Playback, Hablar, Arm, RecheckPause, PlayFragment, PlayCompletes, PlayIsCut,
                     PlayCutUnseen, PlayTimesOut, HablarRaises, Returns
<1>23. CASE ReadCancel \/ FinishEnd \/ IdleCheck \/ FinishIdle
  BY <1>1, <1>23 DEF ReadCancel, FinishEnd, IdleCheck, FinishIdle
<1> QED
  BY <1>2, <1>3, <1>4, <1>5, <1>6, <1>7, <1>8, <1>9, <1>10, <1>11, <1>12, <1>13, <1>14, <1>15,
     <1>16, <1>17, <1>18, <1>19, <1>20, <1>21, <1>22, <1>23
  DEF Next, Router, Loop, RunJob, Reconcile, FinishJob, Operator, Emergency, Submitting, Preempting

\* Only the router thread moves the router's locals.
LEMMA OthersLeaveRouter ==
  ASSUME \/ Operator \/ Emergency \/ DrainForNewTurn \/ \E t \in Submitters : Submitting(t)
  PROVE  UNCHANGED routerVars
<1>1. ASSUME NEW t \in Submitters, Submitting(t) PROVE UNCHANGED routerVars
  BY <1>1 DEF Submitting, Preempting, Submit, SubmitSweep, PauseSpeech, PauseCut, AppendChunks, Seal
<1>2. CASE Operator \/ Emergency \/ DrainForNewTurn
  BY <1>2 DEF Operator, HoldAndPause, HoldCut, ReleaseHold, Emergency, CancelSpeech, EmergencySweep,
              EmergencyCut, ClearSpeechCancel, DrainForNewTurn
<1> QED BY <1>1, <1>2

\* The router thread's locals; the slice length is where CursorsInRange is needed.
LEMMA RouterStep ==
  ASSUME IInv, Next
  PROVE  RouterOK'
<1> DEFINE Locals == rpc' \in RouterPcs /\ rjob' \in Jobs \cup {NoJob} /\ sawCancel' \in BOOLEAN
<1>1. CASE UNCHANGED routerVars
  BY <1>1 DEF IInv, TypeOK, RouterOK, routerVars
<1>2. CASE LoopTop \/ FlushEnd \/ FlushIdle \/ FlushEmitIdle \/ PickNone
  BY <1>2 DEF LoopTop, FlushEnd, FlushIdle, FlushEmitIdle, PickNone, IInv, TypeOK, RouterOK, RouterPcs
<1>3. CASE PickIncoming \/ PickStack
  <2>1. rjob' \in Jobs
    BY <1>3 DEF PickIncoming, PickStack, Activate, OnStack, IInv, TypeOK, SchedOK
  <2> QED
    BY <1>3, <2>1 DEF PickIncoming, PickStack, Activate, IInv, TypeOK, RouterOK, RouterPcs
<1>4. ASSUME NEW s \in Terminal, NEW why \in {"none", "cancelled", "interrupted", "error"},
             Verdict(s, why)
      PROVE  RouterOK'
  BY <1>4 DEF Verdict, IInv, TypeOK, RouterOK, RouterPcs, Verdicts
<1>5. CASE CheckCancelled
  <2>1. CASE SpeechCancelled(rjob)
    BY <1>4, <1>5, <2>1 DEF CheckCancelled, Terminal
  <2>2. CASE ~SpeechCancelled(rjob)
    BY <1>5, <2>2 DEF CheckCancelled, IInv, TypeOK, RouterOK, RouterPcs
  <2> QED BY <2>1, <2>2
<1>6. CASE ClaimBoundary \/ CollectOwedEnd \/ BoundaryStart
  BY <1>6 DEF ClaimBoundary, CollectOwedEnd, BoundaryStart, IInv, TypeOK, RouterOK, RouterPcs
<1>7. CASE BoundaryStartRaises
  BY <1>4, <1>7 DEF BoundaryStartRaises, Terminal
<1>8. NoOutcome \in Outcomes
  BY DEF NoOutcome, Outcomes
<1>9. ASSUME rjob \in Jobs, PushSuspended(rjob) PROVE RouterOK'
  BY <1>8, <1>9, PushEffect DEF IInv, TypeOK, RouterOK, RouterPcs
<1>10. CASE WindowCheck
  <2>1. CASE pttHeld \/ pauseReq[rjob]
    BY <1>9, <1>10, <2>1, RunningJob DEF WindowCheck, RunPcs
  <2>2. CASE ~(pttHeld \/ pauseReq[rjob])
    BY <1>10, <2>2 DEF WindowCheck, IInv, TypeOK, RouterOK, RouterPcs
  <2> QED BY <2>1, <2>2
<1>11. CASE Hablar
  <2>1. Slice(rjob) \in Nat
    BY <1>11, RunningJob DEF Slice, Hablar, RunPcs, IInv, TypeOK, JobsOK, CursorsInRange
  <2>2. [NoOutcome EXCEPT !.size = Slice(rjob)] \in Outcomes
    BY <2>1 DEF NoOutcome, Outcomes
  <2>3. out' \in Outcomes
    BY <1>8, <1>11, <2>2 DEF Hablar
  <2> QED BY <1>11, <2>3 DEF Hablar, IInv, TypeOK, RouterOK, RouterPcs
<1>12. CASE Arm \/ RecheckPause
  BY <1>12 DEF Arm, RecheckPause, IInv, TypeOK, RouterOK, RouterPcs
<1>13. ASSUME rpc = "play" PROVE out \in Outcomes
  BY <1>13 DEF IInv, TypeOK, RouterOK
<1>14. CASE PlayFragment
  <2>1. out' \in Outcomes
    BY <1>13, <1>14 DEF PlayFragment, Outcomes
  <2> QED BY <1>14, <2>1 DEF PlayFragment, IInv, TypeOK, RouterOK
<1>15. ASSUME rpc = "play", NEW o \in Outcomes, Returns(o) PROVE RouterOK'
  BY <1>15 DEF Returns, IInv, TypeOK, RouterOK, RouterPcs
<1>16. CASE PlayCompletes \/ PlayIsCut \/ PlayCutUnseen \/ PlayTimesOut \/ HablarRaises
  <2>1. rpc = "play" /\ out \in Outcomes
    BY <1>13, <1>16 DEF PlayCompletes, PlayIsCut, PlayCutUnseen, PlayTimesOut, HablarRaises
  <2>2. /\ [out EXCEPT !.interrupted = TRUE] \in Outcomes
        /\ [out EXCEPT !.cursor = out.size] \in Outcomes
        /\ [out EXCEPT !.error = TRUE] \in Outcomes
        /\ [out EXCEPT !.raised = TRUE] \in Outcomes
    BY <2>1 DEF Outcomes
  <2> QED BY <1>15, <1>16, <2>1, <2>2
          DEF PlayCompletes, PlayIsCut, PlayCutUnseen, PlayTimesOut, HablarRaises
<1>17. CASE ReadCancel
  <2>1. sawCancel' \in BOOLEAN
    BY <1>17 DEF ReadCancel, SpeechCancelled, IInv, TypeOK, EventsOK
  <2> QED BY <1>17, <2>1 DEF ReadCancel, IInv, TypeOK, RouterOK, RouterPcs
<1>18. CASE ReconcileRaised
  <2>1. CASE PushSuspended(rjob)
    BY <1>9, <1>18, <2>1, RunningJob DEF ReconcileRaised, RunPcs
  <2>2. CASE BackToLoop
    BY <1>8, <2>2 DEF BackToLoop, RouterOK, RouterPcs
  <2>3. CASE Verdict("DISCARDED", "error")
    BY <1>4, <2>3 DEF Terminal
  <2> QED BY <1>18, <2>1, <2>2, <2>3 DEF ReconcileRaised
<1>19. CASE ReconcileRefused
  BY <1>4, <1>19 DEF ReconcileRefused, Terminal
<1>20. CASE ReconcileDrained
  BY <1>4, <1>8, <1>20 DEF ReconcileDrained, Terminal, IInv, TypeOK, RouterOK, RouterPcs
<1>21. CASE ReconcileCut
  BY <1>4, <1>9, <1>21, RunningJob DEF ReconcileCut, RunPcs, Terminal
<1>22. CASE StarvedWait
  BY <1>4, <1>9, <1>22, RunningJob DEF StarvedWait, RunPcs, Terminal, IInv, TypeOK, RouterOK, RouterPcs
<1>23. CASE Finish
  BY <1>8, <1>23 DEF Finish, IInv, TypeOK, RouterOK, RouterPcs
<1>24. CASE FinishEnd \/ IdleCheck \/ FinishIdle
  BY <1>24 DEF FinishEnd, IdleCheck, FinishIdle, IInv, TypeOK, RouterOK, RouterPcs
<1>25. CASE \/ Operator \/ Emergency \/ DrainForNewTurn \/ \E t \in Submitters : Submitting(t)
  BY <1>1, <1>25, OthersLeaveRouter
<1> QED
  BY <1>2, <1>3, <1>5, <1>6, <1>7, <1>10, <1>11, <1>12, <1>14, <1>16, <1>17, <1>18, <1>19, <1>20,
     <1>21, <1>22, <1>23, <1>24, <1>25
  DEF Next, Router, Loop, RunJob, Playback, Reconcile, FinishJob

\* The submitting threads, the operator and the emergency handler.
LEMMA ThreadsStep ==
  ASSUME IInv, Next
  PROVE  ThreadsOK'
<1> USE DEF IInv, TypeOK, ThreadsOK
<1>1. CASE UNCHANGED <<submitVars, controlVars>>
  BY <1>1 DEF submitVars, controlVars
<1>2. ASSUME NEW t \in Submitters, NEW job \in Jobs \cup {NoJob}, NEW seen \in Jobs \cup {NoJob},
             NEW to \in {"idle", "sweep", "pause", "cut", "feed"}, Goes(t, to, job, seen)
      PROVE  /\ spc' \in [Submitters -> {"idle", "sweep", "pause", "cut", "feed"}]
             /\ sjob' \in [Submitters -> Jobs \cup {NoJob}]
             /\ victim' \in [Submitters -> Jobs \cup {NoJob}]
  BY <1>2 DEF Goes
<1>3. ASSUME NEW t \in Submitters, Submit(t) PROVE ThreadsOK'
  <2>1. /\ spc' \in [Submitters -> {"idle", "sweep", "pause", "cut", "feed"}]
        /\ sjob' \in [Submitters -> Jobs \cup {NoJob}]
        /\ victim' \in [Submitters -> Jobs \cup {NoJob}]
    BY <1>2, <1>3 DEF Submit, SchedOK
  <2> QED BY <1>3, <2>1 DEF Submit, controlVars
<1>4. ASSUME NEW t \in Submitters, SubmitReturns(t) \/ Goes(t, "pause", sjob[t], victim[t])
                                   \/ Goes(t, "cut", sjob[t], NoJob)
      PROVE  /\ spc' \in [Submitters -> {"idle", "sweep", "pause", "cut", "feed"}]
             /\ sjob' \in [Submitters -> Jobs \cup {NoJob}]
             /\ victim' \in [Submitters -> Jobs \cup {NoJob}]
  BY <1>2, <1>4 DEF SubmitReturns
<1>5. ASSUME NEW t \in Submitters, SubmitSweep(t) \/ PauseSpeech(t) \/ PauseCut(t)
      PROVE  ThreadsOK'
  <2>1. UNCHANGED controlVars
    BY <1>5 DEF SubmitSweep, PauseSpeech, PauseCut
  <2>2. SubmitReturns(t) \/ Goes(t, "pause", sjob[t], victim[t]) \/ Goes(t, "cut", sjob[t], NoJob)
    BY <1>5 DEF SubmitSweep, PauseSpeech, PauseCut
  <2> QED BY <1>4, <2>1, <2>2 DEF controlVars
<1>6. ASSUME NEW t \in Submitters, AppendChunks(t) \/ Seal(t) PROVE ThreadsOK'
  <2>1. CASE AppendChunks(t)
    BY <1>1, <2>1 DEF AppendChunks
  <2>2. CASE Seal(t)
    BY <1>2, <2>2 DEF Seal, controlVars
  <2> QED BY <1>6, <2>1, <2>2
<1>7. CASE HoldAndPause \/ HoldCut \/ ReleaseHold
  <2>1. UNCHANGED <<submitVars, epc, stops>> /\ opc' \in {"up", "cut", "held"}
    BY <1>7 DEF HoldAndPause, HoldCut, ReleaseHold
  <2>2. presses' \in 0..MaxPresses
    BY <1>7, RouterAssumption DEF HoldAndPause, HoldCut, ReleaseHold
  <2> QED BY <2>1, <2>2 DEF submitVars
<1>8. CASE Emergency
  <2>1. UNCHANGED <<submitVars, opc, presses>> /\ epc' \in {"idle", "sweep", "cut", "drop"}
    BY <1>8 DEF Emergency, CancelSpeech, EmergencySweep, EmergencyCut, ClearSpeechCancel, controlVars
  <2>2. stops' \in 0..MaxStops
    BY <1>8, RouterAssumption DEF Emergency, CancelSpeech, EmergencySweep, EmergencyCut, ClearSpeechCancel, controlVars
  <2> QED BY <2>1, <2>2 DEF submitVars
<1>9. CASE DrainForNewTurn
  BY <1>1, <1>9 DEF DrainForNewTurn
<1>10. CASE Loop \/ RunJob
  BY <1>1, <1>10
  DEF Loop, LoopTop, FlushEnd, FlushIdle, FlushEmitIdle, PickIncoming, PickStack, PickNone, Activate,
      RunJob, CheckCancelled, ClaimBoundary, CollectOwedEnd, BoundaryStart, BoundaryStartRaises,
      WindowCheck, outsideVars
<1>11. CASE Playback \/ Reconcile \/ FinishJob
  BY <1>1, <1>11
  DEF Playback, Hablar, Arm, RecheckPause, PlayFragment, PlayCompletes, PlayIsCut, PlayCutUnseen,
      PlayTimesOut, HablarRaises, Returns, Reconcile, ReadCancel, ReconcileRaised, ReconcileRefused,
      ReconcileDrained, ReconcileCut, StarvedWait, reconcileSame, FinishJob, Finish, FinishEnd,
      IdleCheck, FinishIdle, outsideVars
<1> QED
  BY <1>3, <1>5, <1>6, <1>7, <1>8, <1>9, <1>10, <1>11
  DEF Next, Router, Operator, Submitting, Preempting

\* The cut flag, the cancel token and what the consumers receive.
LEMMA EventsStep ==
  ASSUME IInv, Next
  PROVE  EventsOK'
<1> USE DEF IInv, TypeOK, EventsOK
<1>1. CASE UNCHANGED <<motorVars, eventVars, bareCut>>
  BY <1>1 DEF motorVars, eventVars
<1>2. ASSUME NEW who \in {"preempt", "press", "stop"}, Interrupt(who), UNCHANGED <<cancelled, eventVars>>
      PROVE  EventsOK'
  <2>1. speaking' \in BOOLEAN /\ bareCut' \in {"none", "preempt", "press", "stop"}
    BY <1>2 DEF Interrupt
  <2> QED BY <1>2, <2>1 DEF eventVars
<1>3. ASSUME NEW t \in Submitters, Submitting(t) PROVE EventsOK'
  <2>1. CASE PauseCut(t)
    BY <1>2, <2>1 DEF PauseCut
  <2>2. CASE Submit(t) \/ SubmitSweep(t) \/ PauseSpeech(t) \/ AppendChunks(t) \/ Seal(t)
    BY <1>1, <2>2 DEF Submit, SubmitSweep, PauseSpeech, AppendChunks, Seal
  <2> QED BY <1>3, <2>1, <2>2 DEF Submitting, Preempting
<1>4. CASE HoldCut \/ EmergencyCut
  BY <1>2, <1>4 DEF HoldCut, EmergencyCut
<1>5. CASE CancelSpeech \/ ClearSpeechCancel
  <2>1. cancelled' \in BOOLEAN
    BY <1>5 DEF CancelSpeech, ClearSpeechCancel
  <2> QED BY <1>5, <2>1 DEF CancelSpeech, ClearSpeechCancel, eventVars, motorVars
<1>6. CASE HoldAndPause \/ ReleaseHold \/ EmergencySweep \/ DrainForNewTurn
  BY <1>1, <1>6 DEF HoldAndPause, ReleaseHold, EmergencySweep, DrainForNewTurn
<1>7. CASE FlushEnd \/ CollectOwedEnd \/ FinishEnd \/ BoundaryStart
  <2>1. speaking' \in BOOLEAN /\ UNCHANGED <<cancelled, bareCut>>
    BY <1>7 DEF FlushEnd, CollectOwedEnd, FinishEnd, BoundaryStart, EmitEnd, EmitStart
  <2>2. open' \in Int /\ ui' \in {"speaking_start", "speaking_end"}
    BY <1>7 DEF FlushEnd, CollectOwedEnd, FinishEnd, BoundaryStart, EmitEnd, EmitStart
  <2> QED BY <2>1, <2>2
<1>8. CASE FlushEmitIdle \/ FinishIdle
  BY <1>8 DEF FlushEmitIdle, FinishIdle, EmitIdle, motorVars
<1>9. CASE BoundaryStartRaises
  BY <1>9 DEF BoundaryStartRaises, Verdict, eventVars
<1>10. CASE LoopTop \/ FlushIdle \/ PickIncoming \/ PickStack \/ PickNone \/ CheckCancelled \/ ClaimBoundary
  BY <1>1, <1>10 DEF LoopTop, FlushIdle, PickIncoming, PickStack, PickNone, Activate, CheckCancelled,
                     Verdict, ClaimBoundary
<1>11. ASSUME BackToLoop \/ bareCut' = "none" \/ UNCHANGED bareCut, UNCHANGED <<motorVars, eventVars>>
       PROVE  EventsOK'
  BY <1>11 DEF BackToLoop, motorVars, eventVars
<1>12. CASE WindowCheck
  BY <1>11, <1>12 DEF WindowCheck, PushSuspended
<1>13. CASE Playback
  <2>1. speaking' \in BOOLEAN
    BY <1>13 DEF Playback, Hablar, Arm, RecheckPause, PlayFragment, PlayCompletes, PlayIsCut,
                 PlayCutUnseen, PlayTimesOut, HablarRaises, Returns, motorVars
  <2>2. UNCHANGED <<cancelled, eventVars, bareCut>>
    BY <1>13 DEF Playback, Hablar, Arm, RecheckPause, PlayFragment, PlayCompletes, PlayIsCut,
                 PlayCutUnseen, PlayTimesOut, HablarRaises, Returns, motorVars
  <2> QED BY <2>1, <2>2 DEF eventVars
<1>14. CASE Reconcile
  BY <1>11, <1>14 DEF Reconcile, ReadCancel, ReconcileRaised, ReconcileRefused, ReconcileDrained,
                      ReconcileCut, StarvedWait, reconcileSame, PushSuspended, Verdict
<1>15. CASE Finish \/ IdleCheck
  BY <1>11, <1>15 DEF Finish, IdleCheck
<1> QED
  BY <1>3, <1>4, <1>5, <1>6, <1>7, <1>8, <1>9, <1>10, <1>12, <1>13, <1>14, <1>15
  DEF Next, Router, Loop, RunJob, FinishJob, Operator, Emergency

\* Every step keeps every variable well typed.
LEMMA TypeStep ==
  ASSUME IInv, [Next]_vars
  PROVE  TypeOK'
<1>1. CASE Next
  BY <1>1, JobsStep, SchedStep, RouterStep, ThreadsStep, EventsStep DEF TypeOK
<1>2. CASE UNCHANGED vars
  BY <1>2 DEF IInv, TypeOK, JobsOK, SchedOK, RouterOK, ThreadsOK, EventsOK, vars, jobVars, schedVars,
              motorVars, routerVars, submitVars, controlVars, eventVars
<1> QED BY <1>1, <1>2

-----------------------------------------------------------------------------
(* Cursors: no slice reaches past the chunk list. *)

\* Only submit, append_chunks and _reconcile move a chunk list or a cursor, and
\* _reconcile moves both to where the slice it handed out ended.
LEMMA CursorStep ==
  ASSUME IInv, [Next]_vars
  PROVE  CursorsInRange'
<1> DEFINE jobCursors == <<chunks, cursor, split>>
<1>1. ASSUME UNCHANGED <<jobCursors, rjob, out, rpc>>, nextId' = nextId
      PROVE  CursorsInRange'
  BY <1>1 DEF IInv, CursorsInRange, Slicing
<1>2. ASSUME UNCHANGED jobCursors, nextId' = nextId, rpc' = "finish" \/ out' = NoOutcome
      PROVE  CursorsInRange'
  BY <1>2 DEF IInv, CursorsInRange, Slicing, NoOutcome
<1>3. ASSUME UNCHANGED <<jobCursors, out>>, nextId' = nextId, rpc # "finish", rpc' = "finish" \/ ~Slicing'
      PROVE  CursorsInRange'
  BY <1>3 DEF IInv, CursorsInRange, Slicing
<1>4. ASSUME UNCHANGED <<jobCursors, rjob>>, nextId' = nextId, Slicing, rpc # "finish",
             out' \in Outcomes, out'.size = out.size, out'.cursor <= out.size
      PROVE  CursorsInRange'
  BY <1>4 DEF IInv, CursorsInRange, Slicing
<1>5. ASSUME NEW t \in Submitters, Submit(t) PROVE CursorsInRange'
  <2>1. \A j \in Jobs : /\ cursor'[j] <= chunks'[j]
                        /\ ~split'[j] \/ j >= nextId' => cursor'[j] = 0
    BY <1>5, RouterAssumption DEF Submit, IInv, CursorsInRange, TypeOK, JobsOK, SchedOK, Jobs
  <2>2. (rpc # "finish" => out.cursor <= out.size)'
    BY <1>5 DEF Submit, routerVars, IInv, CursorsInRange
  <2>3. ASSUME Slicing', out'.size > 0, split'[rjob']
        PROVE  cursor'[rjob'] + out'.size <= chunks'[rjob']
    <3>1. UNCHANGED <<rpc, rjob, out, cursor>> /\ Slicing
      BY <1>5, <2>3 DEF Submit, routerVars, Slicing
    <3>2. rjob \in Jobs /\ rjob # nextId
      BY <3>1, RunningJob DEF Slicing, RunPcs, IInv, TypeOK, SchedOK, Jobs
    <3>3. split'[rjob] = split[rjob] /\ chunks'[rjob] = chunks[rjob]
      BY <1>5, <3>2 DEF Submit, IInv, TypeOK, JobsOK
    <3> QED BY <2>3, <3>1, <3>3 DEF IInv, CursorsInRange
  <2> QED BY <2>1, <2>2, <2>3 DEF CursorsInRange
<1>6. ASSUME NEW t \in Submitters, AppendChunks(t) PROVE CursorsInRange'
  <2>1. \A j \in Jobs : chunks'[j] \in Nat /\ chunks[j] <= chunks'[j]
    BY <1>6 DEF AppendChunks, IInv, TypeOK, JobsOK
  <2>2. UNCHANGED <<cursor, split, rpc, rjob, out, nextId>>
    BY <1>6 DEF AppendChunks, schedVars, routerVars
  <2>3. Slicing => rjob \in Jobs /\ out.size \in Nat
    BY RunningJob DEF Slicing, RunPcs, IInv, TypeOK, RouterOK, Outcomes
  <2> QED BY <2>1, <2>2, <2>3 DEF IInv, CursorsInRange, Slicing, TypeOK, JobsOK
<1>7. ASSUME NEW t \in Submitters, SubmitSweep(t) \/ PauseSpeech(t) \/ PauseCut(t) \/ Seal(t)
      PROVE  CursorsInRange'
  BY <1>1, <1>7 DEF SubmitSweep, PauseSpeech, PauseCut, Seal, jobVars, schedVars, routerVars
<1>8. CASE Operator \/ Emergency \/ DrainForNewTurn
  BY <1>1, <1>8 DEF Operator, HoldAndPause, HoldCut, ReleaseHold, Emergency, CancelSpeech,
     EmergencySweep, EmergencyCut, ClearSpeechCancel, DrainForNewTurn, jobVars, schedVars, routerVars
<1>9. CASE Loop
  BY <1>3, <1>9 DEF Loop, LoopTop, FlushEnd, FlushIdle, FlushEmitIdle, PickIncoming, PickStack,
     PickNone, Activate, jobVars, schedVars, Slicing
<1>10. CASE CheckCancelled \/ BoundaryStartRaises
  BY <1>2, <1>3, <1>10 DEF CheckCancelled, BoundaryStartRaises, Verdict, jobVars, schedVars, Slicing
<1>11. CASE ClaimBoundary \/ CollectOwedEnd \/ BoundaryStart
  BY <1>3, <1>11 DEF ClaimBoundary, CollectOwedEnd, BoundaryStart, jobVars, schedVars, Slicing
<1>12. CASE WindowCheck
  BY <1>2, <1>3, <1>12 DEF WindowCheck, PushSuspended, BackToLoop, Slicing
<1>13. CASE Hablar
  <2>1. CASE SpeechCancelled(rjob)
    BY <1>2, <1>13, <2>1 DEF Hablar, jobVars, schedVars
  <2>2. CASE ~SpeechCancelled(rjob)
    <3>1. rjob \in Jobs
      BY <1>13, RunningJob DEF Hablar, RunPcs
    <3>2. out'.size = chunks[rjob] - cursor[rjob] /\ out'.cursor = 0 /\ UNCHANGED <<jobCursors, rjob, nextId>>
      BY <1>13, <2>2 DEF Hablar, Slice, NoOutcome, jobVars, schedVars
    <3> QED BY <3>1, <3>2 DEF IInv, CursorsInRange, TypeOK, JobsOK
  <2> QED BY <2>1, <2>2
<1>14. CASE Arm \/ RecheckPause
  <2>1. UNCHANGED <<jobCursors, rjob, out>> /\ nextId' = nextId /\ Slicing /\ rpc # "finish"
    BY <1>14 DEF Arm, RecheckPause, jobVars, schedVars, Slicing
  <2> QED BY <2>1 DEF IInv, CursorsInRange
<1>15. CASE PlayFragment
  <2>1. /\ Slicing /\ rpc # "finish" /\ UNCHANGED <<jobCursors, rjob>> /\ nextId' = nextId
        /\ out \in Outcomes
    BY <1>15 DEF PlayFragment, Slicing, jobVars, schedVars, IInv, TypeOK, RouterOK
  <2>2. PICK n \in (out.cursor + 1)..out.size : out' = [out EXCEPT !.cursor = n]
    BY <1>15 DEF PlayFragment
  <2>3. out' \in Outcomes /\ out'.size = out.size /\ out'.cursor <= out.size
    BY <2>1, <2>2 DEF Outcomes
  <2> QED BY <1>4, <2>1, <2>3
<1>16. CASE PlayCompletes \/ PlayIsCut \/ PlayCutUnseen \/ PlayTimesOut \/ HablarRaises
  <2>1. /\ Slicing /\ rpc # "finish" /\ UNCHANGED <<jobCursors, rjob>> /\ nextId' = nextId
        /\ out \in Outcomes /\ out.cursor <= out.size
    BY <1>16 DEF PlayCompletes, PlayIsCut, PlayCutUnseen, PlayTimesOut, HablarRaises, Returns, Slicing,
                 jobVars, schedVars, IInv, TypeOK, RouterOK, CursorsInRange
  <2>2. PICK o \in {out, [out EXCEPT !.interrupted = TRUE], [out EXCEPT !.cursor = out.size],
                    [out EXCEPT !.error = TRUE], [out EXCEPT !.raised = TRUE]} : out' = o
    BY <1>16 DEF PlayCompletes, PlayIsCut, PlayCutUnseen, PlayTimesOut, HablarRaises, Returns
  <2>3. o \in Outcomes /\ o.size = out.size /\ (o.cursor = out.cursor \/ o.cursor = out.size)
    BY <2>1 DEF Outcomes
  <2>4. out.size <= out.size
    BY <2>1 DEF Outcomes
  <2> QED BY <1>4, <2>1, <2>2, <2>3, <2>4
<1>17. CASE ReadCancel
  BY <1>17 DEF ReadCancel, IInv, CursorsInRange, Slicing, jobVars, schedVars
<1>18. CASE ReconcileRaised
  BY <1>2, <1>18 DEF ReconcileRaised, PushSuspended, BackToLoop, Verdict, reconcileSame
<1>19. CASE ReconcileRefused
  BY <1>2, <1>19 DEF ReconcileRefused, Verdict, reconcileSame
<1>20. CASE ReconcileDrained \/ ReconcileCut
  <2>1. rjob \in Jobs /\ rjob < nextId /\ Slicing /\ out \in Outcomes /\ out.cursor <= out.size
    BY <1>20, RunningJob DEF ReconcileDrained, ReconcileCut, RunPcs, Slicing, IInv, TypeOK, RouterOK,
                             CursorsInRange
  <2>2. Settle /\ nextId' = nextId /\ (rpc' = "finish" \/ out' = NoOutcome)
    BY <1>20 DEF ReconcileDrained, ReconcileCut, Verdict, PushSuspended, BackToLoop, reconcileSame
  <2>3. Reached <= Owed
    BY <2>1 DEF Reached, Owed, IInv, CursorsInRange, TypeOK, JobsOK, Outcomes
  <2>4. \A j \in Jobs : /\ cursor'[j] <= chunks'[j]
                        /\ ~split'[j] \/ j >= nextId' => cursor'[j] = 0
    BY <2>1, <2>2, <2>3 DEF Settle, IInv, CursorsInRange, TypeOK, JobsOK, SchedOK, Jobs
  <2> QED BY <2>2, <2>4 DEF CursorsInRange, Slicing, NoOutcome
<1>21. CASE StarvedWait
  BY <1>2, <1>3, <1>21 DEF StarvedWait, PushSuspended, BackToLoop, Verdict, reconcileSame, Slicing
<1>22. CASE FinishJob
  BY <1>2, <1>3, <1>22 DEF FinishJob, Finish, FinishEnd, IdleCheck, FinishIdle, jobVars, schedVars, Slicing
<1>23. CASE UNCHANGED vars
  BY <1>1, <1>23 DEF vars, jobVars, schedVars, routerVars
<1> QED
  BY <1>5, <1>6, <1>7, <1>8, <1>9, <1>10, <1>11, <1>12, <1>13, <1>14, <1>15, <1>16, <1>17, <1>18,
     <1>19, <1>20, <1>21, <1>22, <1>23
  DEF Next, Router, RunJob, Playback, Reconcile, Submitting, Preempting

-----------------------------------------------------------------------------
(* The boundary: who is alive, who owns the pair, what will close it. *)

\* What BoundaryInv reads of the scheduler and of the event stream.
boundarySched == <<state, started, nextId, incoming, active, stack, owner, owedEnd>>
boundaryVars == <<boundarySched, rpc, rjob, open, ui>>

\* Steps of _run_job that neither claim, open nor close a pair.
PlainPcs == {"check", "claim", "window", "call", "arm", "b1", "play", "settle", "reconcile",
             "starved", "starvedLock"}

\* A step that leaves the scheduler, the router and the events alone.
LEMMA BoundaryFrame ==
  ASSUME IInv, UNCHANGED boundaryVars
  PROVE  BoundaryInv'
BY DEF IInv, BoundaryInv, boundaryVars, boundarySched, OneHome, OnStack, RouterHoldsActive,
       NewJobsAreBlank, OwnerLive, Live, OutermostOnly, ClaimIsRunning, EndsExclude, OwnerOpen,
       EndPending, IdleIsQuiet, IdleOutsidePair

\* Moving on inside _run_job, to a verdict included, disturbs nothing.
LEMMA BoundaryRunOn ==
  ASSUME IInv, UNCHANGED <<boundarySched, rjob, open, ui>>,
         rpc \in PlainPcs, rpc' \in PlainPcs \cup {"finish"}
  PROVE  BoundaryInv'
<1>1. OneHome' /\ NewJobsAreBlank' /\ OwnerLive' /\ OutermostOnly' /\ IdleOutsidePair'
  BY DEF IInv, BoundaryInv, boundarySched, OneHome, OnStack, NewJobsAreBlank, OwnerLive, Live,
         OutermostOnly, IdleOutsidePair
<1>2. RouterHoldsActive'
  BY DEF IInv, BoundaryInv, boundarySched, RouterHoldsActive, PlainPcs, RunPcs
<1>3. ClaimIsRunning'
  BY DEF IInv, BoundaryInv, boundarySched, ClaimIsRunning, PlainPcs
<1>4. EndsExclude'
  BY DEF IInv, BoundaryInv, boundarySched, EndsExclude, OwnerOpen, EndPending, PlainPcs
<1>5. IdleIsQuiet'
  BY DEF IdleIsQuiet, PlainPcs
<1> QED BY <1>1, <1>2, <1>3, <1>4, <1>5 DEF BoundaryInv

\* A suspension moves rjob from the active slot to the stack.
LEMMA BoundaryPush ==
  ASSUME IInv, rpc \in PlainPcs, PushSuspended(rjob),
         UNCHANGED <<started, nextId, incoming, owner, owedEnd, open, ui>>
  PROVE  BoundaryInv'
<1>1. rjob \in Jobs /\ active = rjob /\ state[rjob] = "ACTIVE"
  BY RunningJob DEF PlainPcs, RunPcs
<1>2. PICK d \in Jobs : stack' = [stack EXCEPT ![rjob] = d]
  BY <1>1, PushEffect
<1>3. /\ state' = [state EXCEPT ![rjob] = "SUSPENDED"]
      /\ active' = NoJob /\ rpc' = "top" /\ rjob' = NoJob
  BY <1>1, PushEffect
<1>4. state'[rjob] = "SUSPENDED" /\ \A j \in Jobs \ {rjob} : state'[j] = state[j] /\ stack'[j] = stack[j]
  BY <1>1, <1>2, <1>3 DEF IInv, TypeOK, JobsOK, SchedOK
<1>5. OneHome'
  BY <1>1, <1>2, <1>3, <1>4 DEF IInv, TypeOK, SchedOK, BoundaryInv, OneHome, OnStack, Jobs, NoJob
<1>6. RouterHoldsActive'
  BY <1>3 DEF RouterHoldsActive, RunPcs
<1>7. NewJobsAreBlank' /\ OwnerLive' /\ OutermostOnly'
  BY <1>1, <1>4 DEF IInv, TypeOK, SchedOK, BoundaryInv, NewJobsAreBlank, OwnerLive, OutermostOnly, Live
<1>8. ClaimIsRunning'
  BY <1>3 DEF IInv, BoundaryInv, ClaimIsRunning, PlainPcs
<1>9. EndsExclude'
  BY <1>3 DEF IInv, BoundaryInv, EndsExclude, OwnerOpen, EndPending, PlainPcs
<1>10. IdleIsQuiet' /\ IdleOutsidePair'
  BY <1>3 DEF IInv, BoundaryInv, IdleIsQuiet, IdleOutsidePair
<1> QED BY <1>5, <1>6, <1>7, <1>8, <1>9, <1>10 DEF BoundaryInv

\* A sweep, whichever thread runs it and whatever the router is doing: a swept
\* owner was suspended, hence started, and its end becomes the owed one.
LEMMA BoundarySweep ==
  ASSUME IInv, NEW p, SweepSources(p),
         UNCHANGED <<started, nextId, incoming, active, rpc, rjob, open, ui>>
  PROVE  BoundaryInv'
<1> DEFINE swept == SweptBy(p)
<1>1. swept \subseteq OnStack /\ \A j \in swept : state[j] = "SUSPENDED"
  BY DEF SweptBy, OnStack, IInv, BoundaryInv, OneHome
<1>2. /\ \A j \in Jobs : state'[j] = IF j \in swept THEN "DISCARDED" ELSE state[j]
      /\ \A j \in Jobs : stack'[j] = IF j \in swept THEN 0 ELSE stack[j]
      /\ owner' = IF owner \in swept THEN NoJob ELSE owner
      /\ owedEnd' = (owedEnd \/ owner \in swept)
  BY DEF SweepSources
<1>3. OneHome'
  BY <1>1, <1>2 DEF IInv, BoundaryInv, OneHome, OnStack
<1>4. RouterHoldsActive'
  BY DEF IInv, BoundaryInv, RouterHoldsActive
<1>5. NewJobsAreBlank'
  BY <1>1, <1>2 DEF IInv, BoundaryInv, NewJobsAreBlank
<1>6. OwnerLive' /\ OutermostOnly'
  BY <1>1, <1>2 DEF IInv, TypeOK, SchedOK, BoundaryInv, OwnerLive, OutermostOnly, Live, Jobs, NoJob
<1>7. rpc \in RunPcs => rjob \notin swept
  BY <1>1, RunningJob
<1>8. owner \in swept => started[owner]
  BY <1>7 DEF IInv, BoundaryInv, ClaimIsRunning, RunPcs, SweptBy, OnStack, Jobs, NoJob
<1>9. ClaimIsRunning'
  BY <1>2, <1>7 DEF IInv, BoundaryInv, ClaimIsRunning, RunPcs
<1>10. EndsExclude'
  <2>1. CASE owner \in swept
    <3>1. OwnerOpen
      BY <1>8, <2>1 DEF OwnerOpen, SweptBy, OnStack, Jobs, NoJob
    <3>2. owner' = NoJob /\ owedEnd'
      BY <1>2, <2>1
    <3>3. open = 1 /\ ~EndPending
      BY <3>1 DEF IInv, BoundaryInv, EndsExclude
    <3> QED BY <3>2, <3>3 DEF EndsExclude, EndPending, OwnerOpen
  <2>2. CASE owner \notin swept
    <3>1. UNCHANGED <<owner, started, rpc, open>> /\ (owedEnd' <=> owedEnd)
      BY <1>2, <2>2
    <3> QED BY <3>1 DEF IInv, BoundaryInv, EndsExclude, EndPending, OwnerOpen
  <2> QED BY <2>1, <2>2
<1>11. IdleIsQuiet'
  <2>1. NoJob \notin swept
    BY DEF SweptBy, OnStack, Jobs, NoJob
  <2> QED BY <1>2, <2>1 DEF IInv, BoundaryInv, IdleIsQuiet
<1>12. IdleOutsidePair'
  BY DEF IInv, BoundaryInv, IdleOutsidePair
<1> QED BY <1>3, <1>4, <1>5, <1>6, <1>9, <1>10, <1>11, <1>12 DEF BoundaryInv

\* A submitted job is new: nothing has started or owned it.
LEMMA BoundarySubmit ==
  ASSUME IInv, NEW t \in Submitters, Submit(t)
  PROVE  BoundaryInv'
<1>1. /\ nextId \in Jobs /\ nextId' = nextId + 1 /\ incoming' = incoming \cup {nextId}
      /\ state' = [state EXCEPT ![nextId] = "QUEUED"]
      /\ UNCHANGED <<started, active, stack, owner, owedEnd, rpc, rjob, open, ui>>
  BY DEF Submit, routerVars, eventVars
<1>2. state[nextId] = "NONE" /\ ~started[nextId] /\ state'[nextId] = "QUEUED"
  BY <1>1 DEF IInv, TypeOK, JobsOK, SchedOK, BoundaryInv, NewJobsAreBlank, Jobs
<1>3. \A j \in Jobs \ {nextId} : state'[j] = state[j]
  BY <1>1 DEF IInv, TypeOK, JobsOK
<1>4. OneHome'
  BY <1>1, <1>2, <1>3 DEF IInv, BoundaryInv, OneHome, OnStack
<1>5. RouterHoldsActive' /\ IdleIsQuiet' /\ IdleOutsidePair'
  BY <1>1 DEF IInv, BoundaryInv, RouterHoldsActive, IdleIsQuiet, IdleOutsidePair
<1>6. NewJobsAreBlank'
  BY <1>1, <1>2, <1>3 DEF IInv, TypeOK, SchedOK, BoundaryInv, NewJobsAreBlank, Jobs
<1>7. OwnerLive' /\ OutermostOnly'
  BY <1>1, <1>2, <1>3 DEF IInv, TypeOK, SchedOK, BoundaryInv, OwnerLive, OutermostOnly, Live
<1>8. ClaimIsRunning' /\ EndsExclude'
  BY <1>1 DEF IInv, BoundaryInv, ClaimIsRunning, EndsExclude, OwnerOpen, EndPending
<1> QED BY <1>4, <1>5, <1>6, <1>7, <1>8 DEF BoundaryInv

\* Between jobs: an owed end is flushed, 'idle' is told only when nothing is
\* left to do, and a picked job changes homes.
LEMMA BoundaryLoop ==
  ASSUME IInv, Loop
  PROVE  BoundaryInv'
<1> USE DEF IInv, BoundaryInv, RunPcs
<1>1. ASSUME UNCHANGED <<boundarySched, rjob>>,
             rpc \notin RunPcs \cup {"finishEnd"}, rpc' \in {"flushIdle", "flushEmitIdle", "pick", "top"}
      PROVE  /\ OneHome' /\ RouterHoldsActive' /\ NewJobsAreBlank' /\ OwnerLive' /\ OutermostOnly'
             /\ ClaimIsRunning'
  BY <1>1 DEF boundarySched, OneHome, OnStack, RouterHoldsActive, NewJobsAreBlank, OwnerLive, Live,
              OutermostOnly, ClaimIsRunning
<1>2. CASE LoopTop
  <2>1. /\ UNCHANGED <<state, started, nextId, incoming, active, stack, owner, rjob, open, ui>>
        /\ rpc = "top" /\ ~owedEnd' /\ rpc' = IF owedEnd THEN "flushEnd" ELSE "pick"
    BY <1>2 DEF LoopTop, jobVars, eventVars
  <2>2. OneHome' /\ RouterHoldsActive' /\ NewJobsAreBlank' /\ OwnerLive' /\ OutermostOnly'
    BY <2>1 DEF OneHome, OnStack, RouterHoldsActive, NewJobsAreBlank, OwnerLive, Live, OutermostOnly
  <2>3. ClaimIsRunning' /\ IdleIsQuiet' /\ IdleOutsidePair'
    BY <2>1 DEF ClaimIsRunning, IdleIsQuiet, IdleOutsidePair
  <2>4. EndsExclude'
    BY <2>1 DEF EndsExclude, OwnerOpen, EndPending
  <2> QED BY <2>2, <2>3, <2>4
<1>3. CASE FlushEnd
  <2>1. /\ UNCHANGED <<boundarySched, rjob>> /\ rpc = "flushEnd" /\ rpc' = "flushIdle"
        /\ open' = open - 1 /\ ui' = "speaking_end"
    BY <1>3 DEF FlushEnd, EmitEnd, boundarySched, jobVars, schedVars
  <2>2. EndsExclude'
    BY <2>1 DEF boundarySched, EndsExclude, OwnerOpen, EndPending
  <2> QED BY <1>1, <2>1, <2>2 DEF IdleIsQuiet, IdleOutsidePair
<1>4. CASE FlushIdle
  <2>1. /\ UNCHANGED <<boundarySched, rjob, open, ui>> /\ rpc = "flushIdle"
        /\ rpc' = IF HasWork THEN "pick" ELSE "flushEmitIdle"
    BY <1>4 DEF FlushIdle, boundarySched, jobVars, schedVars, eventVars
  <2>2. EndsExclude' /\ IdleOutsidePair'
    BY <2>1 DEF boundarySched, EndsExclude, OwnerOpen, EndPending, IdleOutsidePair
  <2>3. ~HasWork => owner = NoJob /\ ~owedEnd
    BY DEF HasWork, OwnerLive, Live, OneHome, TypeOK, SchedOK
  <2>4. IdleIsQuiet'
    BY <2>1, <2>3 DEF boundarySched, IdleIsQuiet
  <2> QED BY <1>1, <2>1, <2>2, <2>4
<1>5. CASE FlushEmitIdle
  <2>1. UNCHANGED <<boundarySched, rjob, open>> /\ rpc = "flushEmitIdle" /\ rpc' = "pick"
    BY <1>5 DEF FlushEmitIdle, EmitIdle, boundarySched, jobVars, schedVars
  <2>2. EndsExclude' /\ IdleOutsidePair' /\ IdleIsQuiet'
    BY <2>1 DEF boundarySched, EndsExclude, OwnerOpen, EndPending, IdleOutsidePair, IdleIsQuiet
  <2> QED BY <1>1, <2>1, <2>2
<1>6. CASE PickNone
  <2>1. UNCHANGED <<boundarySched, rjob, open, ui>> /\ rpc = "pick" /\ rpc' = "top"
    BY <1>6 DEF PickNone, boundarySched, jobVars, schedVars, eventVars
  <2>2. EndsExclude' /\ IdleOutsidePair' /\ IdleIsQuiet'
    BY <2>1 DEF boundarySched, EndsExclude, OwnerOpen, EndPending, IdleOutsidePair, IdleIsQuiet
  <2> QED BY <1>1, <2>1, <2>2
<1>7. CASE PickIncoming \/ PickStack
  <2>1. PICK j \in Jobs :
          /\ rpc = "pick" /\ state[j] \in {"QUEUED", "SUSPENDED"} /\ Activate(j)
          /\ incoming' = incoming \ {j}
          /\ \A k \in Jobs : stack'[k] = IF k = j THEN 0 ELSE stack[k]
    BY <1>7 DEF PickIncoming, PickStack, Popped, OnStack, OneHome, TypeOK, SchedOK
  <2>2. /\ state' = [state EXCEPT ![j] = "ACTIVE"] /\ active' = j /\ rjob' = j /\ rpc' = "check"
        /\ UNCHANGED <<started, nextId, owner, owedEnd, open, ui>>
    BY <2>1 DEF Activate, eventVars
  <2>3. active = NoJob /\ j # NoJob /\ state'[j] = "ACTIVE" /\ \A k \in Jobs \ {j} : state'[k] = state[k]
    BY <2>1, <2>2 DEF RouterHoldsActive, TypeOK, JobsOK, Jobs, NoJob
  <2>4. OneHome'
    BY <2>1, <2>2, <2>3 DEF OneHome, OnStack, Jobs, NoJob
  <2>5. RouterHoldsActive' /\ NewJobsAreBlank' /\ OwnerLive' /\ OutermostOnly'
    BY <2>1, <2>2, <2>3 DEF RouterHoldsActive, NewJobsAreBlank, OwnerLive, OutermostOnly, Live,
                            TypeOK, SchedOK
  <2>6. ClaimIsRunning' /\ EndsExclude' /\ IdleIsQuiet' /\ IdleOutsidePair'
    BY <2>1, <2>2 DEF ClaimIsRunning, EndsExclude, OwnerOpen, EndPending, IdleIsQuiet, IdleOutsidePair
  <2> QED BY <2>4, <2>5, <2>6
<1> QED BY <1>2, <1>3, <1>4, <1>5, <1>6, <1>7 DEF Loop

\* From the pick to the playback: the claim, the collected end, the start.
LEMMA BoundaryRunJob ==
  ASSUME IInv, RunJob
  PROVE  BoundaryInv'
<1> USE DEF IInv, BoundaryInv, RunPcs
<1>1. CASE CheckCancelled
  BY <1>1, BoundaryRunOn DEF CheckCancelled, Verdict, PlainPcs, boundarySched, jobVars, schedVars, eventVars
<1>2. CASE ClaimBoundary
  <2>1. /\ UNCHANGED <<state, started, nextId, incoming, active, stack, rjob, open, ui>>
        /\ rpc = "claim" /\ ~owedEnd'
        /\ owner' = IF Claims THEN rjob ELSE owner
        /\ rpc' = IF owedEnd THEN "collectEnd" ELSE IF Claims THEN "emitStart" ELSE "window"
    BY <1>2 DEF ClaimBoundary, jobVars, eventVars
  <2>2. rjob \in Jobs /\ active = rjob /\ state[rjob] = "ACTIVE"
    BY <2>1, RunningJob
  <2>3. owedEnd => Claims
    <3>1. owedEnd => owner = NoJob
      BY <2>1 DEF EndsExclude, OwnerOpen, EndPending, ClaimIsRunning
    <3>2. owner = NoJob => ~started[rjob]
      BY <2>2 DEF OutermostOnly, Live, Jobs, NoJob
    <3> QED BY <3>1, <3>2 DEF Claims
  <2>4. OneHome' /\ RouterHoldsActive' /\ NewJobsAreBlank'
    BY <2>1 DEF OneHome, OnStack, RouterHoldsActive, NewJobsAreBlank
  <2>5. OwnerLive'
    BY <2>1, <2>2 DEF OwnerLive, Live
  <2>6. OutermostOnly'
    BY <2>1 DEF OutermostOnly, Live, Claims, TypeOK, SchedOK, Jobs, NoJob
  <2>7. ClaimIsRunning'
    BY <2>1, <2>2, <2>3 DEF ClaimIsRunning, Claims, Jobs, NoJob
  <2>8. EndsExclude'
    BY <2>1, <2>2, <2>3 DEF EndsExclude, OwnerOpen, EndPending, Claims, Jobs, NoJob
  <2>9. IdleIsQuiet' /\ IdleOutsidePair'
    BY <2>1 DEF IdleIsQuiet, IdleOutsidePair
  <2> QED BY <2>4, <2>5, <2>6, <2>7, <2>8, <2>9
<1>3. CASE CollectOwedEnd
  <2>1. /\ UNCHANGED <<boundarySched, rjob>> /\ rpc = "collectEnd" /\ rpc' = "emitStart"
        /\ open' = open - 1 /\ ui' = "speaking_end"
    BY <1>3 DEF CollectOwedEnd, EmitEnd, ClaimIsRunning, boundarySched, jobVars, schedVars
  <2>2. OneHome' /\ RouterHoldsActive' /\ NewJobsAreBlank' /\ OwnerLive' /\ OutermostOnly' /\ ClaimIsRunning'
    BY <2>1 DEF boundarySched, OneHome, OnStack, RouterHoldsActive, NewJobsAreBlank, OwnerLive, Live,
                OutermostOnly, ClaimIsRunning
  <2>3. EndsExclude'
    BY <2>1 DEF boundarySched, EndsExclude, OwnerOpen, EndPending, ClaimIsRunning
  <2> QED BY <2>1, <2>2, <2>3 DEF IdleIsQuiet, IdleOutsidePair
<1>4. CASE BoundaryStart
  <2>1. /\ UNCHANGED <<state, nextId, incoming, active, stack, owner, owedEnd, rjob>>
        /\ rpc = "emitStart" /\ rpc' = "window" /\ open' = open + 1 /\ ui' = "speaking_start"
        /\ started' = [started EXCEPT ![rjob] = TRUE]
    BY <1>4 DEF BoundaryStart, EmitStart, schedVars
  <2>2. rjob \in Jobs /\ active = rjob /\ state[rjob] = "ACTIVE" /\ owner = rjob /\ ~started[rjob] /\ ~owedEnd
    BY <2>1, RunningJob DEF ClaimIsRunning
  <2>3. started'[rjob] /\ \A j \in Jobs \ {rjob} : started'[j] = started[j]
    BY <2>1, <2>2 DEF TypeOK, JobsOK
  <2>4. OneHome' /\ RouterHoldsActive' /\ OwnerLive'
    BY <2>1 DEF OneHome, OnStack, RouterHoldsActive, OwnerLive, Live
  <2>5. NewJobsAreBlank' /\ OutermostOnly' /\ ClaimIsRunning'
    BY <2>1, <2>2, <2>3 DEF NewJobsAreBlank, OutermostOnly, Live, ClaimIsRunning
  <2>6. EndsExclude'
    BY <2>1, <2>2, <2>3 DEF EndsExclude, OwnerOpen, EndPending, Jobs, NoJob
  <2> QED BY <2>1, <2>4, <2>5, <2>6 DEF IdleIsQuiet, IdleOutsidePair
<1>5. CASE BoundaryStartRaises
  <2>1. UNCHANGED <<boundarySched, rjob, open, ui>> /\ rpc = "emitStart" /\ rpc' = "finish"
    BY <1>5 DEF BoundaryStartRaises, Verdict, boundarySched, jobVars, schedVars, eventVars
  <2>2. OneHome' /\ RouterHoldsActive' /\ NewJobsAreBlank' /\ OwnerLive' /\ OutermostOnly' /\ ClaimIsRunning'
    BY <2>1 DEF boundarySched, OneHome, OnStack, RouterHoldsActive, NewJobsAreBlank, OwnerLive, Live,
                OutermostOnly, ClaimIsRunning
  <2>3. EndsExclude' /\ IdleIsQuiet' /\ IdleOutsidePair'
    BY <2>1 DEF boundarySched, EndsExclude, OwnerOpen, EndPending, IdleIsQuiet, IdleOutsidePair
  <2> QED BY <2>2, <2>3
<1>6. CASE WindowCheck
  <2>1. CASE pttHeld \/ pauseReq[rjob]
    BY <1>6, <2>1, BoundaryPush DEF WindowCheck, PlainPcs, eventVars
  <2>2. CASE ~(pttHeld \/ pauseReq[rjob])
    BY <1>6, <2>2, BoundaryRunOn DEF WindowCheck, PlainPcs, boundarySched, eventVars
  <2> QED BY <2>1, <2>2
<1> QED BY <1>1, <1>2, <1>3, <1>4, <1>5, <1>6 DEF RunJob

\* _reconcile and _starved_wait: suspend, requeue for the retry, or settle a verdict.
LEMMA BoundaryReconcile ==
  ASSUME IInv, Reconcile
  PROVE  BoundaryInv'
<1>1. CASE ReadCancel
  BY <1>1, BoundaryRunOn DEF ReadCancel, PlainPcs, boundarySched, jobVars, schedVars, eventVars
<1>2. CASE ReconcileRefused \/ ReconcileDrained
  BY <1>2, BoundaryRunOn DEF ReconcileRefused, ReconcileDrained, Verdict, reconcileSame, PlainPcs,
                             boundarySched, eventVars
<1>3. CASE ReconcileCut
  <2>1. CASE pauseReq[rjob] /\ ~sawCancel
    BY <1>3, <2>1, BoundaryPush DEF ReconcileCut, reconcileSame, PlainPcs, eventVars
  <2>2. CASE ~(pauseReq[rjob] /\ ~sawCancel)
    BY <1>3, <2>2, BoundaryRunOn DEF ReconcileCut, Verdict, reconcileSame, PlainPcs, boundarySched, eventVars
  <2> QED BY <2>1, <2>2
<1>4. CASE StarvedWait
  <2>1. CASE PushSuspended(rjob)
    BY <1>4, <2>1, BoundaryPush DEF StarvedWait, reconcileSame, PlainPcs, eventVars
  <2>2. CASE UNCHANGED <<active, state, stack, rjob>> /\ rpc' \in {"call", "finish", "starved"}
    BY <1>4, <2>2, BoundaryRunOn DEF StarvedWait, reconcileSame, PlainPcs, boundarySched, eventVars
  <2> QED BY <1>4, <2>1, <2>2 DEF StarvedWait, Verdict
<1>5. CASE ReconcileRaised
  <2>1. CASE PushSuspended(rjob) /\ UNCHANGED incoming
    BY <1>5, <2>1, BoundaryPush DEF ReconcileRaised, reconcileSame, PlainPcs, eventVars
  <2>2. CASE UNCHANGED <<state, incoming, active, stack>> /\ Verdict("DISCARDED", "error")
    BY <1>5, <2>2, BoundaryRunOn DEF ReconcileRaised, Verdict, reconcileSame, PlainPcs, boundarySched, eventVars
  <2>3. CASE /\ state' = [state EXCEPT ![rjob] = "QUEUED"] /\ incoming' = incoming \cup {rjob}
             /\ active' = NoJob /\ BackToLoop /\ UNCHANGED stack
    <3> USE DEF IInv, BoundaryInv
    <3>1. /\ rpc = "reconcile" /\ rpc' = "top" /\ rjob' = NoJob
          /\ UNCHANGED <<started, nextId, owner, owedEnd, open, ui>>
      BY <1>5, <2>3 DEF ReconcileRaised, BackToLoop, reconcileSame, eventVars
    <3>2. rjob \in Jobs /\ active = rjob /\ state[rjob] = "ACTIVE"
      BY <3>1, RunningJob DEF RunPcs
    <3>3. state'[rjob] = "QUEUED" /\ \A j \in Jobs \ {rjob} : state'[j] = state[j]
      BY <2>3, <3>2 DEF TypeOK, JobsOK
    <3>4. OneHome'
      BY <2>3, <3>2, <3>3 DEF OneHome, OnStack, Jobs, NoJob
    <3>5. RouterHoldsActive' /\ NewJobsAreBlank' /\ OwnerLive' /\ OutermostOnly'
      BY <2>3, <3>1, <3>2, <3>3 DEF RouterHoldsActive, RunPcs, NewJobsAreBlank, OwnerLive, OutermostOnly,
                                    Live, TypeOK, SchedOK
    <3>6. ClaimIsRunning' /\ EndsExclude' /\ IdleIsQuiet' /\ IdleOutsidePair'
      BY <3>1 DEF ClaimIsRunning, EndsExclude, OwnerOpen, EndPending, IdleIsQuiet, IdleOutsidePair
    <3> QED BY <3>4, <3>5, <3>6
  <2> QED BY <1>5, <2>1, <2>2, <2>3 DEF ReconcileRaised
<1> QED BY <1>1, <1>2, <1>3, <1>4, <1>5 DEF Reconcile

\* A finished owner gives the pair up in the step that ends it; its end is then
\* emitted outside the lock, and 'idle' only when no work was seen after it.
LEMMA BoundaryFinish ==
  ASSUME IInv, FinishJob
  PROVE  BoundaryInv'
<1> USE DEF IInv, BoundaryInv, RunPcs
<1>1. CASE Finish
  <2>1. /\ UNCHANGED <<started, nextId, incoming, stack, owedEnd, rjob, open, ui>>
        /\ state' = [state EXCEPT ![rjob] = out.verdict] /\ out.verdict \in Terminal
        /\ active' = NoJob /\ owner' = IF owner = rjob THEN NoJob ELSE owner
        /\ rpc = "finish" /\ rpc' = IF started[rjob] THEN "finishEnd" ELSE "idleCheck"
    BY <1>1 DEF Finish, OwnerAfter, eventVars, TypeOK, RouterOK, Verdicts
  <2>2. rjob \in Jobs /\ active = rjob /\ state[rjob] = "ACTIVE"
    BY <2>1, RunningJob
  <2>3. state'[rjob] \in Terminal /\ \A j \in Jobs \ {rjob} : state'[j] = state[j]
    BY <2>1, <2>2 DEF TypeOK, JobsOK
  <2>4. OneHome'
    BY <2>1, <2>2, <2>3 DEF OneHome, OnStack, Jobs, NoJob, Terminal
  <2>5. RouterHoldsActive' /\ NewJobsAreBlank' /\ IdleIsQuiet' /\ IdleOutsidePair'
    BY <2>1, <2>2, <2>3 DEF RouterHoldsActive, NewJobsAreBlank, Terminal, IdleIsQuiet, IdleOutsidePair
  <2>6. OwnerLive' /\ OutermostOnly'
    BY <2>1, <2>2, <2>3 DEF OwnerLive, OutermostOnly, Live, Terminal, TypeOK, SchedOK
  <2>7. started[rjob] => owner = rjob
    BY <2>2 DEF OutermostOnly, Live
  <2>8. ClaimIsRunning'
    BY <2>1, <2>2 DEF ClaimIsRunning, Jobs, NoJob
  <2>9. EndsExclude'
    <3>1. CASE owner = rjob
      BY <2>1, <2>2, <3>1 DEF EndsExclude, OwnerOpen, EndPending, Jobs, NoJob
    <3>2. CASE owner # rjob
      BY <2>1, <2>7, <3>2 DEF EndsExclude, OwnerOpen, EndPending
    <3> QED BY <3>1, <3>2
  <2> QED BY <2>4, <2>5, <2>6, <2>8, <2>9
<1>2. CASE FinishEnd
  <2>1. /\ UNCHANGED <<boundarySched, rjob>> /\ rpc = "finishEnd" /\ rpc' = "idleCheck"
        /\ open' = open - 1 /\ ui' = "speaking_end"
    BY <1>2 DEF FinishEnd, EmitEnd, boundarySched, jobVars, schedVars
  <2>2. OneHome' /\ RouterHoldsActive' /\ NewJobsAreBlank' /\ OwnerLive' /\ OutermostOnly' /\ ClaimIsRunning'
    BY <2>1 DEF boundarySched, OneHome, OnStack, RouterHoldsActive, NewJobsAreBlank, OwnerLive, Live,
                OutermostOnly, ClaimIsRunning
  <2>3. EndsExclude' /\ IdleIsQuiet' /\ IdleOutsidePair'
    BY <2>1 DEF boundarySched, EndsExclude, OwnerOpen, EndPending, IdleIsQuiet, IdleOutsidePair
  <2> QED BY <2>2, <2>3
<1>3. CASE IdleCheck
  <2>1. /\ UNCHANGED <<boundarySched, open, ui>> /\ rpc = "idleCheck" /\ rjob' = NoJob
        /\ rpc' = IF HasWork THEN "top" ELSE "emitIdle"
    BY <1>3 DEF IdleCheck, boundarySched, jobVars, schedVars, eventVars
  <2>2. OneHome' /\ RouterHoldsActive' /\ NewJobsAreBlank' /\ OwnerLive' /\ OutermostOnly' /\ ClaimIsRunning'
    BY <2>1 DEF boundarySched, OneHome, OnStack, RouterHoldsActive, NewJobsAreBlank, OwnerLive, Live,
                OutermostOnly, ClaimIsRunning
  <2>3. EndsExclude' /\ IdleOutsidePair'
    BY <2>1 DEF boundarySched, EndsExclude, OwnerOpen, EndPending, IdleOutsidePair
  <2>4. ~HasWork => owner = NoJob /\ ~owedEnd
    BY DEF HasWork, OwnerLive, Live, OneHome, TypeOK, SchedOK
  <2>5. IdleIsQuiet'
    BY <2>1, <2>4 DEF boundarySched, IdleIsQuiet
  <2> QED BY <2>2, <2>3, <2>5
<1>4. CASE FinishIdle
  <2>1. UNCHANGED <<boundarySched, rjob, open>> /\ rpc = "emitIdle" /\ rpc' = "top"
    BY <1>4 DEF FinishIdle, EmitIdle, boundarySched, jobVars, schedVars
  <2>2. OneHome' /\ RouterHoldsActive' /\ NewJobsAreBlank' /\ OwnerLive' /\ OutermostOnly' /\ ClaimIsRunning'
    BY <2>1 DEF boundarySched, OneHome, OnStack, RouterHoldsActive, NewJobsAreBlank, OwnerLive, Live,
                OutermostOnly, ClaimIsRunning
  <2>3. EndsExclude' /\ IdleIsQuiet' /\ IdleOutsidePair'
    BY <2>1 DEF boundarySched, EndsExclude, OwnerOpen, EndPending, IdleIsQuiet, IdleOutsidePair
  <2> QED BY <2>2, <2>3
<1> QED BY <1>1, <1>2, <1>3, <1>4 DEF FinishJob

\* Every step keeps the boundary invariant.
LEMMA BoundaryStep ==
  ASSUME IInv, [Next]_vars
  PROVE  BoundaryInv'
<1>1. CASE Playback
  BY <1>1, BoundaryRunOn
  DEF Playback, Hablar, Arm, RecheckPause, PlayFragment, PlayCompletes, PlayIsCut, PlayCutUnseen,
      PlayTimesOut, HablarRaises, Returns, PlainPcs, boundarySched, jobVars, schedVars, eventVars
<1>2. ASSUME NEW t \in Submitters, SubmitSweep(t) PROVE BoundaryInv'
  BY <1>2, BoundarySweep DEF SubmitSweep, routerVars, eventVars
<1>3. ASSUME NEW t \in Submitters, PauseSpeech(t) \/ PauseCut(t) \/ AppendChunks(t) \/ Seal(t)
      PROVE  BoundaryInv'
  BY <1>3, BoundaryFrame DEF PauseSpeech, PauseCut, AppendChunks, Seal, boundaryVars, boundarySched,
                             jobVars, schedVars, routerVars, eventVars
<1>4. CASE EmergencySweep \/ DrainForNewTurn
  BY <1>4, BoundarySweep DEF EmergencySweep, DrainForNewTurn, routerVars, eventVars
<1>5. CASE Operator \/ CancelSpeech \/ EmergencyCut \/ ClearSpeechCancel
  BY <1>5, BoundaryFrame DEF Operator, HoldAndPause, HoldCut, ReleaseHold, CancelSpeech, EmergencyCut,
     ClearSpeechCancel, boundaryVars, boundarySched, jobVars, schedVars, routerVars, eventVars
<1>6. CASE UNCHANGED vars
  BY <1>6, BoundaryFrame DEF vars, boundaryVars, boundarySched, jobVars, schedVars, routerVars, eventVars
<1> QED
  BY <1>1, <1>2, <1>3, <1>4, <1>5, <1>6, BoundarySubmit, BoundaryLoop, BoundaryRunJob,
     BoundaryReconcile, BoundaryFinish
  DEF Next, Router, Emergency, Submitting, Preempting

-----------------------------------------------------------------------------
(* The theorems. *)

\* The router starts with nothing queued, nothing open and nothing owed.
LEMMA InitIInv == Init => IInv
<1> SUFFICES ASSUME Init PROVE IInv
  OBVIOUS
<1> USE DEF Init
<1>1. JobsOK
  BY DEF JobsOK, States
<1>2. SchedOK
  <2>1. pttHeld \in BOOLEAN /\ owedEnd \in BOOLEAN
    OBVIOUS
  <2>2. nextId \in 1..(MaxJobs + 1) /\ stack \in [Jobs -> Nat]
    BY RouterAssumption
  <2> QED BY <2>1, <2>2 DEF SchedOK
<1>3. RouterOK
  BY DEF RouterOK, RouterPcs, NoOutcome, Outcomes
<1>4. ThreadsOK
  BY RouterAssumption DEF ThreadsOK
<1>5. EventsOK
  <2>1. speaking \in BOOLEAN /\ cancelled \in BOOLEAN
    OBVIOUS
  <2> QED BY <2>1 DEF EventsOK
<1>6. CursorsInRange
  BY DEF CursorsInRange, Slicing, NoOutcome
<1>7. OneHome /\ RouterHoldsActive /\ NewJobsAreBlank /\ OwnerLive /\ OutermostOnly
  BY DEF OneHome, OnStack, RouterHoldsActive, RunPcs, NewJobsAreBlank, OwnerLive, OutermostOnly, Live,
         Jobs, NoJob
<1>8. ClaimIsRunning /\ EndsExclude /\ IdleIsQuiet /\ IdleOutsidePair
  BY DEF ClaimIsRunning, EndsExclude, OwnerOpen, EndPending, IdleIsQuiet, IdleOutsidePair, NoJob
<1> QED BY <1>1, <1>2, <1>3, <1>4, <1>5, <1>6, <1>7, <1>8 DEF IInv, TypeOK, BoundaryInv

\* IInv is an invariant of every execution, fair or not.
THEOREM Invariance == Spec => []IInv
<1>1. ASSUME IInv, [Next]_vars PROVE IInv'
  BY <1>1, TypeStep, CursorStep, BoundaryStep DEF IInv
<1> QED BY InitIInv, <1>1, PTL DEF Spec

\* Every variable of the scheduler, the router thread and the threads around it
\* keeps the values its code gives it.
THEOREM TypeCorrect == Spec => []TypeOK
BY Invariance, PTL DEF IInv

\* No slice the router takes from a job reaches past its chunk list, and the
\* cursor _reconcile moves never overtakes it.
THEOREM CursorsStayInRange == Spec => []CursorsInRange
BY Invariance, PTL DEF IInv

\* The inductive invariant of the boundary, as the runs check it.
THEOREM BoundaryIsInductive == Spec => []BoundaryInv
BY Invariance, PTL DEF IInv

\* speaking_start and speaking_end alternate: no preemption, sweep, retry or hold
\* opens a second pair or closes one twice.
THEOREM Balanced == Spec => []BoundaryBalanced
<1>1. IInv => BoundaryBalanced
  BY DEF IInv, BoundaryInv, EndsExclude, BoundaryBalanced
<1> QED BY Invariance, <1>1, PTL

\* 'idle' is told to nobody while a pair is open.
THEOREM IdleIsOutside == Spec => []IdleOutsidePair
<1>1. IInv => IdleOutsidePair
  BY DEF IInv, BoundaryInv
<1> QED BY Invariance, <1>1, PTL

\* A live job is in exactly the queue, slot or stack that its state names.
THEOREM EveryJobOneHome == Spec => []OneHome
<1>1. IInv => OneHome
  BY DEF IInv, BoundaryInv
<1> QED BY Invariance, <1>1, PTL

\* Of the live jobs only the boundary owner has emitted a start.
THEOREM OnlyOutermostSpeaks == Spec => []OutermostOnly
<1>1. IInv => OutermostOnly
  BY DEF IInv, BoundaryInv
<1> QED BY Invariance, <1>1, PTL

\* Whatever opened a pair, exactly one live owner or one pending end answers for it.
THEOREM EveryPairAccounted == Spec => []PairAccounted
<1>1. IInv => PairAccounted
  BY DEF IInv, BoundaryInv, PairAccounted, EndsExclude
<1> QED BY Invariance, <1>1, PTL

\* The scheduler implements the event protocol its consumers rely on.
THEOREM ImplementsEvents == Spec => EventsSpec
<1>1. Init => Events!Init
  BY DEF Init, Events!Init
<1>2. ASSUME IInv, IInv', [Next]_vars PROVE [Events!Next]_(Events!vars)
  <2>1. open \in {0, 1} /\ open' \in {0, 1}
    BY <1>2 DEF IInv, BoundaryInv, EndsExclude
  <2>2. CASE UNCHANGED eventVars
    BY <2>2 DEF eventVars, Events!vars
  <2>3. CASE open' = open + 1 /\ ui' = "speaking_start"
    BY <2>1, <2>3 DEF Events!Next, Events!Start
  <2>4. CASE open' = open - 1 /\ ui' = "speaking_end"
    BY <2>1, <2>4 DEF Events!Next, Events!End
  <2>5. CASE UNCHANGED open /\ ui' = "idle"
    <3>1. open = 0
      BY <1>2, <2>5 DEF IInv, BoundaryInv, IdleOutsidePair
    <3> QED BY <2>5, <3>1 DEF Events!Next, Events!Idle
  <2>6. ASSUME NEW t \in Submitters, Submitting(t) PROVE UNCHANGED eventVars
    BY <2>6 DEF Submitting, Preempting, Submit, SubmitSweep, PauseSpeech, PauseCut, AppendChunks, Seal
  <2>7. CASE Operator \/ Emergency \/ DrainForNewTurn \/ UNCHANGED vars
    BY <2>2, <2>7 DEF Operator, HoldAndPause, HoldCut, ReleaseHold, Emergency, CancelSpeech,
       EmergencySweep, EmergencyCut, ClearSpeechCancel, DrainForNewTurn, vars
  <2>8. CASE LoopTop \/ FlushIdle \/ PickIncoming \/ PickStack \/ PickNone
    BY <2>2, <2>8 DEF LoopTop, FlushIdle, PickIncoming, PickStack, PickNone, Activate
  <2>9. CASE FlushEnd \/ CollectOwedEnd \/ FinishEnd
    BY <2>4, <2>9 DEF FlushEnd, CollectOwedEnd, FinishEnd, EmitEnd
  <2>10. CASE FlushEmitIdle \/ FinishIdle
    BY <2>5, <2>10 DEF FlushEmitIdle, FinishIdle, EmitIdle
  <2>11. CASE BoundaryStart
    BY <2>3, <2>11 DEF BoundaryStart, EmitStart
  <2>12. CASE CheckCancelled \/ ClaimBoundary \/ BoundaryStartRaises \/ WindowCheck
    BY <2>2, <2>12 DEF CheckCancelled, ClaimBoundary, BoundaryStartRaises, WindowCheck
  <2>13. CASE Playback
    BY <2>2, <2>13 DEF Playback, Hablar, Arm, RecheckPause, PlayFragment, PlayCompletes, PlayIsCut,
       PlayCutUnseen, PlayTimesOut, HablarRaises, Returns
  <2>14. CASE Reconcile
    BY <2>2, <2>14 DEF Reconcile, ReadCancel, ReconcileRaised, ReconcileRefused, ReconcileDrained,
       ReconcileCut, StarvedWait, reconcileSame
  <2>15. CASE Finish \/ IdleCheck
    BY <2>2, <2>15 DEF Finish, IdleCheck
  <2> QED
    BY <1>2, <2>6, <2>2, <2>7, <2>8, <2>9, <2>10, <2>11, <2>12, <2>13, <2>14, <2>15
    DEF Next, Router, Loop, RunJob, FinishJob
<1> QED BY Invariance, <1>1, <1>2, PTL DEF Spec, EventsSpec, Events!Spec

-----------------------------------------------------------------------------
(* The hold, and what a terminal verdict means. *)

\* Once a press has returned nothing plays on into the live mic: past the hold
\* only a cleared cut flag is left, and nothing raises it while a slice plays.
THEOREM HoldIsSilent == Spec => []HoldSilences
<1>1. Init => HoldSilences
  BY DEF Init, HoldSilences
<1>2. ASSUME IInv, HoldSilences, [Next]_vars PROVE HoldSilences'
  <2> USE <1>2 DEF HoldSilences
  <2>1. ASSUME UNCHANGED <<speaking, rpc>>, UNCHANGED <<pttHeld, opc>> \/ opc' # "held" PROVE HoldSilences'
    BY <2>1
  <2>2. ASSUME rpc' # "play" PROVE HoldSilences'
    BY <2>2
  <2>3. ASSUME NEW t \in Submitters, Submitting(t) PROVE HoldSilences'
    BY <2>3 DEF Submitting, Preempting, Submit, SubmitSweep, PauseSpeech, PauseCut, AppendChunks, Seal,
                Interrupt, schedVars, motorVars, routerVars, controlVars
  <2>4. CASE HoldAndPause
    <3>1. rpc = "play" => active # NoJob
      BY RunningJob DEF RunPcs, Jobs, NoJob
    <3>2. active # NoJob => opc' = "cut"
      BY <2>4 DEF HoldAndPause
    <3> QED BY <2>4, <3>1, <3>2 DEF HoldAndPause, routerVars
  <2>5. CASE HoldCut \/ ReleaseHold
    BY <2>5 DEF HoldCut, ReleaseHold, Interrupt
  <2>6. CASE Emergency \/ DrainForNewTurn \/ UNCHANGED vars
    BY <2>6 DEF Emergency, CancelSpeech, EmergencySweep, EmergencyCut, ClearSpeechCancel, DrainForNewTurn,
                Interrupt, vars, schedVars, motorVars, routerVars, controlVars
  <2>7. CASE Loop
    BY <2>2, <2>7 DEF Loop, LoopTop, FlushEnd, FlushIdle, FlushEmitIdle, PickIncoming, PickStack, PickNone,
                      Activate
  <2>8. CASE RunJob
    BY <2>2, <2>8 DEF RunJob, CheckCancelled, Verdict, ClaimBoundary, CollectOwedEnd, BoundaryStart,
                      BoundaryStartRaises, WindowCheck, PushSuspended, BackToLoop
  <2>9. CASE RecheckPause
    BY <2>9 DEF RecheckPause, PlayAllowed, schedVars, outsideVars, controlVars
  <2>10. CASE PlayFragment
    BY <2>1, <2>10 DEF PlayFragment, schedVars, motorVars, outsideVars, controlVars
  <2>11. CASE Hablar \/ Arm \/ PlayCompletes \/ PlayIsCut \/ PlayCutUnseen \/ PlayTimesOut \/ HablarRaises
    BY <2>2, <2>11 DEF Hablar, Arm, PlayCompletes, PlayIsCut, PlayCutUnseen, PlayTimesOut, HablarRaises, Returns
  <2>12. CASE Reconcile \/ FinishJob
    BY <2>2, <2>12 DEF Reconcile, ReadCancel, ReconcileRaised, ReconcileRefused, ReconcileDrained,
       ReconcileCut, StarvedWait, PushSuspended, BackToLoop, Verdict, FinishJob, Finish, FinishEnd,
       IdleCheck, FinishIdle
  <2> QED
    BY <2>3, <2>4, <2>5, <2>6, <2>7, <2>8, <2>9, <2>10, <2>11, <2>12
    DEF Next, Router, Playback, Operator
<1> QED BY Invariance, <1>1, <1>2, PTL DEF Spec

\* A terminal job never leaves its state nor plays on, and no cursor moves back.
THEOREM TerminalStaysFinal == Spec => TerminalIsFinal
<1> DEFINE Final == \A j \in Jobs : /\ state[j] \in Terminal => state'[j] = state[j] /\ cursor'[j] = cursor[j]
                                    /\ cursor[j] <= cursor'[j]
<1>1. ASSUME IInv, [Next]_vars PROVE Final
  <2> USE <1>1
  <2>0. /\ state \in [Jobs -> States] /\ cursor \in [Jobs -> Nat]
        /\ \A j \in Jobs : state[j] \in Terminal => j \notin incoming /\ j # active /\ j \notin OnStack
    BY DEF IInv, TypeOK, JobsOK, BoundaryInv, OneHome, Terminal
  <2>1. ASSUME UNCHANGED <<state, cursor>> PROVE Final
    BY <2>0, <2>1
  <2>2. ASSUME NEW j \in Jobs, state[j] \notin Terminal, NEW s, state' = [state EXCEPT ![j] = s],
               UNCHANGED cursor
        PROVE  Final
    BY <2>0, <2>2
  <2>3. ASSUME NEW p, SweepSources(p), UNCHANGED cursor PROVE Final
    BY <2>0, <2>3 DEF SweepSources, SweptBy
  <2>4. ASSUME NEW t \in Submitters, Submit(t) PROVE Final
    <3>1. nextId \in Jobs /\ state[nextId] \notin Terminal
      BY <2>4 DEF Submit, IInv, BoundaryInv, NewJobsAreBlank, Terminal, TypeOK, SchedOK, Jobs
    <3> QED BY <2>2, <2>4, <3>1 DEF Submit
  <2>5. ASSUME NEW t \in Submitters, SubmitSweep(t) PROVE Final
    BY <2>3, <2>5 DEF SubmitSweep
  <2>6. CASE EmergencySweep \/ DrainForNewTurn
    BY <2>3, <2>6 DEF EmergencySweep, DrainForNewTurn
  <2>7. ASSUME NEW t \in Submitters, PauseSpeech(t) \/ PauseCut(t) \/ AppendChunks(t) \/ Seal(t) PROVE Final
    BY <2>1, <2>7 DEF PauseSpeech, PauseCut, AppendChunks, Seal, jobVars
  <2>8. CASE Operator \/ CancelSpeech \/ EmergencyCut \/ ClearSpeechCancel \/ UNCHANGED vars
    BY <2>1, <2>8 DEF Operator, HoldAndPause, HoldCut, ReleaseHold, CancelSpeech, EmergencyCut,
                      ClearSpeechCancel, vars, jobVars
  <2>9. CASE LoopTop \/ FlushEnd \/ FlushIdle \/ FlushEmitIdle \/ PickNone
    BY <2>1, <2>9 DEF LoopTop, FlushEnd, FlushIdle, FlushEmitIdle, PickNone, jobVars
  <2>10. CASE PickIncoming \/ PickStack
    <3>1. PICK j \in Jobs : (j \in incoming \/ j \in OnStack) /\ Activate(j)
      BY <2>10 DEF PickIncoming, PickStack, OnStack, IInv, TypeOK, SchedOK
    <3> QED BY <2>0, <2>2, <3>1 DEF Activate
  <2>11. ASSUME rpc \in RunPcs PROVE rjob \in Jobs /\ state[rjob] \notin Terminal
    BY <2>11, RunningJob DEF Terminal
  <2>12. CASE CheckCancelled \/ ClaimBoundary \/ CollectOwedEnd \/ BoundaryStart \/ BoundaryStartRaises
    BY <2>1, <2>12 DEF CheckCancelled, ClaimBoundary, CollectOwedEnd, BoundaryStart, BoundaryStartRaises, jobVars
  <2>13. CASE WindowCheck
    BY <2>1, <2>2, <2>11, <2>13 DEF WindowCheck, RunPcs, PushSuspended
  <2>14. CASE Playback
    BY <2>1, <2>14 DEF Playback, Hablar, Arm, RecheckPause, PlayFragment, PlayCompletes, PlayIsCut,
                       PlayCutUnseen, PlayTimesOut, HablarRaises, Returns, jobVars
  <2>15. CASE ReadCancel \/ ReconcileRefused
    BY <2>1, <2>15 DEF ReadCancel, ReconcileRefused, jobVars
  <2>16. CASE ReconcileRaised \/ StarvedWait
    BY <2>1, <2>2, <2>11, <2>16 DEF ReconcileRaised, StarvedWait, RunPcs, PushSuspended
  <2>17. CASE ReconcileDrained \/ ReconcileCut
    <3>1. rjob \in Jobs /\ state[rjob] \notin Terminal /\ out.cursor \in Nat
      BY <2>11, <2>17 DEF ReconcileDrained, ReconcileCut, RunPcs, IInv, TypeOK, RouterOK, Outcomes
    <3>2. \A j \in Jobs \ {rjob} : state'[j] = state[j]
      BY <2>0, <2>17 DEF ReconcileDrained, ReconcileCut, PushSuspended
    <3>3. cursor' = [cursor EXCEPT ![rjob] = cursor[rjob] + out.cursor]
      BY <2>17 DEF ReconcileDrained, ReconcileCut, Settle, Reached
    <3> QED BY <2>0, <3>1, <3>2, <3>3
  <2>18. CASE Finish
    BY <2>2, <2>11, <2>18 DEF Finish, RunPcs
  <2>19. CASE FinishEnd \/ IdleCheck \/ FinishIdle
    BY <2>1, <2>19 DEF FinishEnd, IdleCheck, FinishIdle, jobVars
  <2> QED
    BY <2>4, <2>5, <2>6, <2>7, <2>8, <2>9, <2>10, <2>12, <2>13, <2>14, <2>15, <2>16, <2>17, <2>18, <2>19
    DEF Next, Router, Loop, RunJob, Reconcile, FinishJob, Emergency, Submitting, Preempting
<1>2. ASSUME IInv, [Next]_vars PROVE [Final]_<<state, cursor>>
  BY <1>1, <1>2
<1> QED BY Invariance, <1>2, PTL DEF Spec, TerminalIsFinal

-----------------------------------------------------------------------------
(* Why a press never loses a job. *)

Bare == bareCut \in {"preempt", "stop"}
CutShort == ~out.raised /\ ~out.error /\ (out.interrupted \/ out.cursor < out.size)

\* The hold and the request of a press are one critical section, so that a cut
\* found without a request was made by somebody else.
HoldInv ==
  /\ opc \in {"cut", "held"} => pttHeld
  /\ pttHeld /\ active # NoJob /\ rpc # "finish" => pauseReq[active]
CutInv ==
  /\ bareCut # "press"
  /\ rpc \in {"arm", "b1", "play"} => ~out.interrupted
  /\ rpc \in {"b1", "play"} /\ ~speaking /\ ~pauseReq[rjob] => Bare
  /\ rpc \in {"settle", "reconcile"} /\ CutShort /\ ~pauseReq[rjob] => Bare
  /\ InterruptedOnlyByBareCut

\* No step leaves a held mic with an active job that carries no request.
LEMMA HoldStep ==
  ASSUME IInv, HoldInv, [Next]_vars
  PROVE  HoldInv'
<1> USE DEF HoldInv
<1>1. ASSUME UNCHANGED <<pttHeld, opc, active, pauseReq>>, rpc = "finish" => rpc' = "finish"
      PROVE  HoldInv'
  BY <1>1
<1>2. ASSUME active' = NoJob, UNCHANGED <<pttHeld, opc>> PROVE HoldInv'
  BY <1>2
<1>3. ASSUME UNCHANGED <<pttHeld, opc>>, rpc' = "finish" PROVE HoldInv'
  BY <1>3
<1>4. ASSUME NEW t \in Submitters, PauseSpeech(t) PROVE HoldInv'
  <2>1. /\ UNCHANGED <<pttHeld, opc, active, rpc>>
        /\ pauseReq' = [pauseReq EXCEPT ![active] = TRUE] \/ pauseReq' = pauseReq
    BY <1>4 DEF PauseSpeech, schedVars, routerVars, controlVars
  <2>2. active # NoJob /\ pauseReq[active] => pauseReq'[active]
    BY <2>1 DEF IInv, TypeOK, JobsOK, SchedOK
  <2> QED BY <2>1, <2>2
<1>5. ASSUME NEW t \in Submitters, Submit(t) \/ SubmitSweep(t) \/ PauseCut(t) \/ AppendChunks(t) \/ Seal(t)
      PROVE  HoldInv'
  BY <1>1, <1>5 DEF Submit, SubmitSweep, PauseCut, AppendChunks, Seal, jobVars, schedVars, routerVars, controlVars
<1>6. CASE HoldAndPause
  <2>1. active # NoJob => pauseReq'[active]
    BY <1>6 DEF HoldAndPause, IInv, TypeOK, JobsOK, SchedOK
  <2> QED BY <1>6, <2>1 DEF HoldAndPause
<1>7. CASE HoldCut \/ ReleaseHold
  BY <1>7 DEF HoldCut, ReleaseHold, jobVars, schedVars, routerVars
<1>8. CASE Emergency \/ DrainForNewTurn \/ UNCHANGED vars
  BY <1>1, <1>8 DEF Emergency, CancelSpeech, EmergencySweep, EmergencyCut, ClearSpeechCancel, DrainForNewTurn,
                    vars, jobVars, schedVars, routerVars, controlVars
<1>9. CASE LoopTop \/ FlushEnd \/ FlushIdle \/ FlushEmitIdle \/ PickNone
  BY <1>1, <1>9 DEF LoopTop, FlushEnd, FlushIdle, FlushEmitIdle, PickNone, jobVars, schedVars, outsideVars, controlVars
<1>10. CASE PickIncoming \/ PickStack
  BY <1>10 DEF PickIncoming, PickStack, Activate, outsideVars, controlVars
<1>11. CASE CheckCancelled \/ ClaimBoundary \/ CollectOwedEnd \/ BoundaryStart \/ BoundaryStartRaises
  BY <1>1, <1>3, <1>11 DEF CheckCancelled, ClaimBoundary, CollectOwedEnd, BoundaryStart, BoundaryStartRaises,
                           Verdict, jobVars, schedVars, outsideVars, controlVars
<1>12. CASE WindowCheck
  BY <1>1, <1>2, <1>12 DEF WindowCheck, PushSuspended, outsideVars, controlVars
<1>13. CASE Playback
  BY <1>1, <1>13 DEF Playback, Hablar, Arm, RecheckPause, PlayFragment, PlayCompletes, PlayIsCut, PlayCutUnseen,
                     PlayTimesOut, HablarRaises, Returns, jobVars, schedVars, outsideVars, controlVars
<1>14. CASE ReadCancel
  BY <1>1, <1>14 DEF ReadCancel, jobVars, schedVars, outsideVars, controlVars
<1>15. CASE ReconcileRaised \/ ReconcileRefused \/ ReconcileCut
  BY <1>2, <1>3, <1>15 DEF ReconcileRaised, ReconcileRefused, ReconcileCut, PushSuspended, Verdict,
                           reconcileSame, outsideVars, controlVars
<1>16. CASE ReconcileDrained \/ StarvedWait
  BY <1>1, <1>2, <1>3, <1>16 DEF ReconcileDrained, StarvedWait, PushSuspended, Verdict, reconcileSame,
                                 outsideVars, controlVars
<1>17. CASE FinishJob
  <2>1. rpc \in {"finishEnd", "idleCheck", "emitIdle"} => active = NoJob
    BY DEF IInv, BoundaryInv, RouterHoldsActive, RunPcs
  <2> QED BY <1>2, <1>17, <2>1 DEF FinishJob, Finish, FinishEnd, IdleCheck, FinishIdle, schedVars, outsideVars, controlVars
<1> QED
  BY <1>4, <1>5, <1>6, <1>7, <1>8, <1>9, <1>10, <1>11, <1>12, <1>13, <1>14, <1>15, <1>16, <1>17
  DEF Next, Router, Loop, RunJob, Reconcile, Operator, Submitting, Preempting

\* Every step keeps track of who cut the running slice.
LEMMA CutStep ==
  ASSUME IInv, HoldInv, CutInv, [Next]_vars
  PROVE  CutInv'
<1> DEFINE slice == <<rpc, rjob, out, speaking, bareCut>>
<1>1. ASSUME UNCHANGED <<slice, pauseReq>> PROVE CutInv'
  BY <1>1 DEF CutInv, Bare, CutShort, InterruptedOnlyByBareCut
<1>2. ASSUME rpc' \notin {"arm", "b1", "play", "settle", "reconcile", "finish"}, bareCut' \in {"none", bareCut}
      PROVE  CutInv'
  BY <1>2 DEF CutInv, Bare, InterruptedOnlyByBareCut
<1>3. ASSUME NEW s, NEW why \in {"none", "cancelled", "error"}, Verdict(s, why) PROVE CutInv'
  BY <1>3 DEF CutInv, Bare, InterruptedOnlyByBareCut, Verdict
<1>4. rpc \in {"b1", "play", "settle", "reconcile"} => rjob \in Jobs /\ active = rjob /\ active # NoJob
  BY RunningJob DEF RunPcs, Jobs, NoJob
<1>5. ASSUME NEW j, pauseReq' = [pauseReq EXCEPT ![j] = TRUE] \/ pauseReq' = pauseReq, UNCHANGED slice
      PROVE  CutInv'
  <2>1. rpc \in {"b1", "play", "settle", "reconcile"} /\ pauseReq[rjob] => pauseReq'[rjob]
    BY <1>4, <1>5 DEF IInv, TypeOK, JobsOK
  <2> QED BY <1>5, <2>1 DEF CutInv, Bare, CutShort, InterruptedOnlyByBareCut
<1>6. ASSUME NEW who, Interrupt(who), UNCHANGED <<rpc, rjob, out, active, pauseReq>>,
             \/ who \in {"preempt", "stop"}
             \/ rpc \in {"b1", "play"} => pauseReq[rjob]
      PROVE  CutInv'
  BY <1>4, <1>6 DEF Interrupt, CutInv, Bare, CutShort, InterruptedOnlyByBareCut
<1>7. ASSUME NEW t \in Submitters, Submitting(t) PROVE CutInv'
  <2>1. CASE PauseCut(t)
    BY <1>6, <2>1 DEF PauseCut, jobVars, schedVars, routerVars
  <2>2. CASE PauseSpeech(t)
    BY <1>5, <2>2 DEF PauseSpeech, motorVars, routerVars
  <2>3. CASE Submit(t) \/ SubmitSweep(t) \/ AppendChunks(t) \/ Seal(t)
    BY <1>1, <2>3 DEF Submit, SubmitSweep, AppendChunks, Seal, motorVars, routerVars
  <2> QED BY <1>7, <2>1, <2>2, <2>3 DEF Submitting, Preempting
<1>8. CASE HoldAndPause
  BY <1>5, <1>8 DEF HoldAndPause, motorVars, routerVars
<1>9. CASE HoldCut
  BY <1>4, <1>6, <1>9 DEF HoldCut, HoldInv, jobVars, schedVars, routerVars
<1>10. CASE EmergencyCut
  BY <1>6, <1>10 DEF EmergencyCut, jobVars, schedVars, routerVars
<1>11. CASE \/ ReleaseHold \/ CancelSpeech \/ EmergencySweep \/ ClearSpeechCancel \/ DrainForNewTurn
            \/ UNCHANGED vars
  BY <1>1, <1>11 DEF ReleaseHold, CancelSpeech, EmergencySweep, ClearSpeechCancel, DrainForNewTurn,
                     vars, jobVars, motorVars, routerVars
<1>12. CASE Loop
  BY <1>2, <1>12 DEF Loop, LoopTop, FlushEnd, FlushIdle, FlushEmitIdle, PickIncoming, PickStack, PickNone, Activate
<1>13. CASE RunJob
  BY <1>2, <1>3, <1>13 DEF RunJob, CheckCancelled, ClaimBoundary, CollectOwedEnd, BoundaryStart,
     BoundaryStartRaises, WindowCheck, PushSuspended, BackToLoop
<1>14. CASE Hablar
  <2>1. CASE SpeechCancelled(rjob)
    BY <1>14, <2>1 DEF Hablar, NoOutcome, CutInv, Bare, CutShort, InterruptedOnlyByBareCut
  <2>2. CASE ~SpeechCancelled(rjob)
    BY <1>14, <2>2 DEF Hablar, NoOutcome, CutInv, InterruptedOnlyByBareCut
  <2> QED BY <2>1, <2>2
<1>15. CASE Arm
  BY <1>15 DEF Arm, CutInv, Bare, InterruptedOnlyByBareCut
<1>16. CASE RecheckPause
  <2>1. /\ rpc = "b1" /\ UNCHANGED <<rjob, out, bareCut, pauseReq>>
        /\ rpc' = IF out.size = 0 THEN "settle" ELSE "play"
        /\ speaking' = (PlayAllowed /\ out.size > 0) /\ out \in Outcomes /\ out.cursor <= out.size
    BY <1>16 DEF RecheckPause, jobVars, IInv, TypeOK, RouterOK, CursorsInRange
  <2>2. ~pauseReq[rjob] => ~pttHeld
    BY <1>4, <2>1 DEF HoldInv
  <2>3. ~out.interrupted /\ bareCut # "press"
    BY <2>1 DEF CutInv
  <2>4. CASE out.size = 0
    BY <2>1, <2>3, <2>4 DEF CutInv, CutShort, InterruptedOnlyByBareCut, Outcomes
  <2>5. CASE out.size # 0
    <3>0. (out.size > 0) = TRUE
      BY <2>1, <2>5 DEF Outcomes
    <3>1. ~speaking' /\ ~pauseReq[rjob] => ~speaking
      <4>1. speaking' = (PlayAllowed /\ out.size > 0)
        BY <2>1
      <4>2. ~speaking' => ~PlayAllowed
        BY <3>0, <4>1
      <4> QED BY <2>2, <4>2 DEF PlayAllowed
    <3>2. ~speaking /\ ~pauseReq[rjob] => Bare
      BY <2>1 DEF CutInv
    <3> QED BY <2>1, <2>3, <2>5, <3>1, <3>2 DEF CutInv, Bare, InterruptedOnlyByBareCut
  <2> QED BY <2>4, <2>5
<1>17. CASE PlayFragment
  BY <1>17 DEF PlayFragment, motorVars, jobVars, CutInv, Bare, InterruptedOnlyByBareCut
<1>18. CASE PlayCompletes \/ PlayIsCut \/ PlayCutUnseen \/ PlayTimesOut \/ HablarRaises
  <2>1. rpc = "play" /\ rpc' = "settle" /\ UNCHANGED <<rjob, bareCut, pauseReq>>
    BY <1>18 DEF PlayCompletes, PlayIsCut, PlayCutUnseen, PlayTimesOut, HablarRaises, Returns, jobVars
  <2>2. CutShort' => ~speaking
    <3>1. out \in Outcomes /\ out.cursor <= out.size
      BY <2>1 DEF IInv, TypeOK, RouterOK, CursorsInRange
    <3>2. ~out.interrupted
      BY <2>1 DEF CutInv
    <3>3. CASE PlayCompletes
      BY <3>1, <3>2, <3>3 DEF PlayCompletes, Returns, CutShort, Outcomes
    <3>4. CASE PlayIsCut \/ PlayCutUnseen
      BY <3>4 DEF PlayIsCut, PlayCutUnseen
    <3>5. CASE PlayTimesOut \/ HablarRaises
      BY <3>1, <3>5 DEF PlayTimesOut, HablarRaises, Returns, CutShort, Outcomes
    <3> QED BY <1>18, <3>3, <3>4, <3>5
  <2> QED BY <2>1, <2>2 DEF CutInv, Bare, InterruptedOnlyByBareCut
<1>19. CASE ReadCancel
  BY <1>19 DEF ReadCancel, jobVars, motorVars, CutInv, Bare, CutShort, InterruptedOnlyByBareCut
<1>20. CASE ReconcileRaised
  BY <1>2, <1>3, <1>20 DEF ReconcileRaised, PushSuspended, BackToLoop
<1>21. CASE ReconcileRefused \/ ReconcileDrained \/ StarvedWait
  BY <1>2, <1>3, <1>21 DEF ReconcileRefused, ReconcileDrained, StarvedWait, PushSuspended, BackToLoop
<1>22. CASE ReconcileCut
  <2>1. CASE pauseReq[rjob] /\ ~sawCancel
    BY <1>2, <1>22, <2>1 DEF ReconcileCut, PushSuspended, BackToLoop
  <2>2. CASE ~(pauseReq[rjob] /\ ~sawCancel)
    <3>1. /\ rpc = "reconcile" /\ ~out.raised /\ ~Drained /\ ~Grew /\ out \in Outcomes
          /\ Verdict("DISCARDED", IF sawCancel THEN "cancelled" ELSE IF out.error THEN "error" ELSE "interrupted")
      BY <1>22, <2>2 DEF ReconcileCut, IInv, TypeOK, RouterOK
    <3>2. out.interrupted \/ out.cursor < out.size
      BY <3>1 DEF Grew, Outcomes
    <3>3. rpc' = "finish" /\ bareCut' = bareCut /\ (out'.reason = "interrupted" => ~sawCancel /\ ~out.error)
      BY <3>1 DEF Verdict
    <3>4. ~sawCancel /\ ~out.error => Bare
      BY <2>2, <3>1, <3>2 DEF CutInv, CutShort
    <3> QED BY <3>3, <3>4 DEF CutInv, Bare, InterruptedOnlyByBareCut
  <2> QED BY <2>1, <2>2
<1>23. CASE FinishJob
  BY <1>2, <1>23 DEF FinishJob, Finish, FinishEnd, IdleCheck, FinishIdle
<1> QED
  BY <1>7, <1>8, <1>9, <1>10, <1>11, <1>12, <1>13, <1>14, <1>15, <1>16, <1>17, <1>18, <1>19, <1>20,
     <1>21, <1>22, <1>23
  DEF Next, Router, Playback, Reconcile, Operator, Emergency

\* A job is dropped as interrupted only after the cut of a preemption or of the
\* emergency stop; a press always leaves it a request, and so a resume.
THEOREM PressLosesNoJob == Spec => []InterruptedOnlyByBareCut
<1>1. Init => HoldInv /\ CutInv
  BY DEF Init, HoldInv, CutInv, InterruptedOnlyByBareCut, NoJob
<1>2. IInv /\ HoldInv /\ CutInv /\ [Next]_vars => HoldInv' /\ CutInv'
  BY HoldStep, CutStep
<1>3. CutInv => InterruptedOnlyByBareCut
  BY DEF CutInv
<1> QED BY Invariance, <1>1, <1>2, <1>3, PTL DEF Spec

-----------------------------------------------------------------------------
(* The playback call.  SpeechPipeline implements SpeechSlice; here the     *)
(* router plays by SpeechSlice, and by all of it.                          *)

CallVerdict == IF rpc = "play" THEN "playing"
               ELSE IF out.interrupted THEN "interrupted"
               ELSE IF out.error THEN "error" ELSE "complete"

\* What the router knows of the call: it is not told which fragments were heard.
Call == INSTANCE SpeechSlice WITH size <- out.size, at <- out.cursor, heard <- {},
                                  verdict <- CallVerdict

\* From _hablar's entry to its return the outcome reports nothing but progress.
Unreported == ~out.interrupted /\ ~out.error /\ ~out.raised
CallInv == /\ rpc \in {"arm", "b1"} => out.cursor = 0
           /\ rpc \in {"arm", "b1", "play"} => Unreported

LEMMA CallStep ==
  ASSUME IInv, CallInv, [Next]_vars
  PROVE  CallInv'
<1>1. CASE UNCHANGED <<rpc, out>>
  BY <1>1 DEF CallInv, Unreported
<1>2. CASE rpc' \notin {"arm", "b1", "play"}
  BY <1>2 DEF CallInv
<1>3. CASE Hablar
  BY <1>3 DEF Hablar, NoOutcome, CallInv, Unreported
<1>4. CASE Arm \/ RecheckPause
  BY <1>4 DEF Arm, RecheckPause, CallInv, Unreported
<1>5. CASE PlayFragment
  <2>1. rpc = "play" /\ rpc' = "play" /\ out \in Outcomes
    BY <1>5 DEF PlayFragment, IInv, TypeOK, RouterOK
  <2>2. PICK n \in (out.cursor + 1)..out.size : out' = [out EXCEPT !.cursor = n]
    BY <1>5 DEF PlayFragment
  <2> QED BY <2>1, <2>2 DEF CallInv, Unreported, Outcomes
<1>6. UNCHANGED <<rpc, out>> \/ rpc' \notin {"arm", "b1", "play"} \/ Hablar \/ Arm \/ RecheckPause \/ PlayFragment
  <2>1. ASSUME Loop PROVE rpc' \notin {"arm", "b1", "play"}
    BY <2>1 DEF Loop, LoopTop, FlushEnd, FlushIdle, FlushEmitIdle, PickIncoming, PickStack, PickNone, Activate
  <2>2. ASSUME RunJob PROVE rpc' \notin {"arm", "b1", "play"}
    BY <2>2 DEF RunJob, CheckCancelled, ClaimBoundary, CollectOwedEnd, BoundaryStart, BoundaryStartRaises,
                WindowCheck, Verdict, PushSuspended, BackToLoop
  <2>3. ASSUME PlayCompletes \/ PlayIsCut \/ PlayCutUnseen \/ PlayTimesOut \/ HablarRaises
        PROVE  rpc' \notin {"arm", "b1", "play"}
    BY <2>3 DEF PlayCompletes, PlayIsCut, PlayCutUnseen, PlayTimesOut, HablarRaises, Returns
  <2>4. ASSUME Reconcile PROVE rpc' \notin {"arm", "b1", "play"}
    BY <2>4 DEF Reconcile, ReadCancel, ReconcileRaised, ReconcileRefused, ReconcileDrained, ReconcileCut,
                StarvedWait, Verdict, PushSuspended, BackToLoop
  <2>5. ASSUME FinishJob PROVE rpc' \notin {"arm", "b1", "play"}
    BY <2>5 DEF FinishJob, Finish, FinishEnd, IdleCheck, FinishIdle
  <2>6. ASSUME UNCHANGED vars PROVE UNCHANGED <<rpc, out>>
    BY <2>6 DEF vars, routerVars
  <2> QED BY <2>1, <2>2, <2>3, <2>4, <2>5, <2>6, OthersLeaveRouter
          DEF Next, Router, Playback, routerVars
<1> QED BY <1>1, <1>2, <1>3, <1>4, <1>5, <1>6

\* A step of another thread while the call runs can only put its flag down.
LEMMA OthersOnlyCut ==
  ASSUME \/ Operator \/ Emergency \/ DrainForNewTurn \/ \E t \in Submitters : Submitting(t)
  PROVE  UNCHANGED speaking \/ speaking' = FALSE
<1>1. ASSUME NEW t \in Submitters, Submitting(t) PROVE UNCHANGED speaking \/ speaking' = FALSE
  BY <1>1 DEF Submitting, Preempting, Submit, SubmitSweep, PauseSpeech, PauseCut, Interrupt, AppendChunks,
              Seal, motorVars
<1>2. CASE Operator \/ Emergency \/ DrainForNewTurn
  BY <1>2 DEF Operator, HoldAndPause, HoldCut, ReleaseHold, Interrupt, Emergency, CancelSpeech,
              EmergencySweep, EmergencyCut, ClearSpeechCancel, DrainForNewTurn, motorVars
<1> QED BY <1>1, <1>2

\* Playback begins where a call begins, and what happens until it returns is what
\* a call may do; only a raise before the first fragment is not the pipeline's.
PlaysByTheCall ==
  [][/\ rpc # "play" /\ rpc' = "play" => Call!Init'
     /\ rpc = "play" => HablarRaises \/ Call!Next \/ UNCHANGED Call!vars]_vars

\* The invariant of the call and of the router together, one step.
LEMMA CallIsPlayed ==
  ASSUME IInv, CallInv, Next
  PROVE  /\ rpc # "play" /\ rpc' = "play" => Call!Init'
         /\ rpc = "play" => HablarRaises \/ Call!Next \/ UNCHANGED Call!vars
<1>1. /\ speaking \in BOOLEAN /\ speaking' \in BOOLEAN
      /\ rpc # "finish" => out \in Outcomes
  BY TypeStep DEF IInv, TypeOK, EventsOK, RouterOK
<1>2. ASSUME rpc # "play", rpc' = "play" PROVE Call!Init'
  <2>1. RecheckPause
    <3>1. ~Loop
      BY <1>2 DEF Loop, LoopTop, FlushEnd, FlushIdle, FlushEmitIdle, PickIncoming, PickStack, PickNone, Activate
    <3>2. ~RunJob
      BY <1>2 DEF RunJob, CheckCancelled, ClaimBoundary, CollectOwedEnd, BoundaryStart, BoundaryStartRaises,
                  WindowCheck, Verdict, PushSuspended, BackToLoop
    <3>3. ~Reconcile
      BY <1>2 DEF Reconcile, ReadCancel, ReconcileRaised, ReconcileRefused, ReconcileDrained, ReconcileCut,
                  StarvedWait, Verdict, PushSuspended, BackToLoop
    <3>4. ~FinishJob
      BY <1>2 DEF FinishJob, Finish, FinishEnd, IdleCheck, FinishIdle
    <3>5. Playback => RecheckPause
      BY <1>2 DEF Playback, Hablar, Arm, PlayFragment, PlayCompletes, PlayIsCut, PlayCutUnseen,
                  PlayTimesOut, HablarRaises, Returns
    <3>6. ~UNCHANGED routerVars
      BY <1>2 DEF routerVars
    <3> QED BY <3>1, <3>2, <3>3, <3>4, <3>5, <3>6, OthersLeaveRouter DEF Next, Router
  <2>2. rpc = "b1" /\ UNCHANGED out /\ out \in Outcomes /\ out.cursor = 0
    BY <1>1, <2>1 DEF RecheckPause, CallInv
  <2> QED BY <1>1, <1>2, <2>2 DEF Call!Init, CallVerdict, Outcomes
<1>3. ASSUME rpc = "play" PROVE HablarRaises \/ Call!Next \/ UNCHANGED Call!vars
  <2>1. out \in Outcomes /\ Unreported /\ Call!Playing /\ CallVerdict = "playing"
    BY <1>1, <1>3 DEF CallInv, Call!Playing, CallVerdict
  <2>2. CASE UNCHANGED routerVars /\ (UNCHANGED speaking \/ speaking' = FALSE)
    <3>1. UNCHANGED <<out, CallVerdict>>
      BY <2>2 DEF routerVars, CallVerdict
    <3>2. CASE UNCHANGED speaking
      BY <3>1, <3>2 DEF Call!vars
    <3>3. CASE speaking' = FALSE
      BY <3>1, <3>3 DEF Call!Next, Call!Flag
    <3> QED BY <2>2, <3>2, <3>3
  <2>3. CASE PlayFragment
    <3>1. PICK n \in (out.cursor + 1)..out.size : out' = [out EXCEPT !.cursor = n]
      BY <2>3 DEF PlayFragment
    <3>2. out'.cursor = n /\ out'.size = out.size /\ UNCHANGED <<speaking, rpc>>
      BY <2>1, <2>3, <3>1 DEF PlayFragment, Outcomes, motorVars
    <3>3. Call!Moves(n)
      BY <1>3, <2>1, <3>1, <3>2 DEF Call!Moves, CallVerdict
    <3> QED BY <3>1, <3>3 DEF Call!Next, Call!Lose
  <2>4. ASSUME NEW o \in Outcomes, Returns(o), ~o.raised PROVE speaking' = FALSE /\ rpc' = "settle" /\ out' = o
    BY <1>1, <2>4 DEF Returns
  <2>5. CASE PlayCompletes
    <3>1. speaking' = FALSE /\ rpc' = "settle" /\ out' = out /\ out.cursor = out.size
      BY <2>1, <2>4, <2>5 DEF PlayCompletes, Unreported
    <3>2. Call!Completes
      BY <2>1, <3>1 DEF Call!Completes, Call!Returns, CallVerdict, Unreported
    <3> QED BY <3>2 DEF Call!Next, Call!Return
  <2>6. CASE PlayCutUnseen
    <3> DEFINE o == [out EXCEPT !.cursor = out.size]
    <3>1. o \in Outcomes /\ ~o.raised /\ ~o.error /\ ~o.interrupted /\ o.size = out.size /\ o.cursor = out.size
      BY <2>1 DEF Outcomes, Unreported
    <3>2. speaking' = FALSE /\ rpc' = "settle" /\ out' = o /\ ~speaking
      BY <2>4, <2>6, <3>1 DEF PlayCutUnseen
    <3>3. Call!Completes
      BY <2>1, <3>1, <3>2 DEF Call!Completes, Call!Returns, CallVerdict
    <3> QED BY <3>3 DEF Call!Next, Call!Return
  <2>7. CASE PlayIsCut
    <3> DEFINE o == [out EXCEPT !.interrupted = TRUE]
    <3>1. o \in Outcomes /\ ~o.raised /\ o.interrupted /\ o.size = out.size /\ o.cursor = out.cursor
      BY <2>1 DEF Outcomes, Unreported
    <3>2. speaking' = FALSE /\ rpc' = "settle" /\ out' = o /\ ~speaking
      BY <2>4, <2>7, <3>1 DEF PlayIsCut
    <3>3. Call!IsCut
      BY <2>1, <3>1, <3>2 DEF Call!IsCut, Call!Returns, CallVerdict
    <3> QED BY <3>3 DEF Call!Next, Call!Return
  <2>8. CASE PlayTimesOut
    <3> DEFINE o == [out EXCEPT !.error = TRUE]
    <3>1. o \in Outcomes /\ ~o.raised /\ ~o.interrupted /\ o.error /\ o.size = out.size /\ o.cursor = out.cursor
      BY <2>1 DEF Outcomes, Unreported
    <3>2. speaking' = FALSE /\ rpc' = "settle" /\ out' = o
      BY <2>4, <2>8, <3>1 DEF PlayTimesOut
    <3>3. Call!TimesOut
      BY <2>1, <3>1, <3>2 DEF Call!TimesOut, Call!Returns, CallVerdict
    <3> QED BY <3>3 DEF Call!Next, Call!Return
  <2>9. Router => PlayFragment \/ PlayCompletes \/ PlayIsCut \/ PlayCutUnseen \/ PlayTimesOut \/ HablarRaises
    BY <1>3 DEF Router, Loop, LoopTop, FlushEnd, FlushIdle, FlushEmitIdle, PickIncoming, PickStack, PickNone,
                RunJob, CheckCancelled, ClaimBoundary, CollectOwedEnd, BoundaryStart, BoundaryStartRaises,
                WindowCheck, Playback, Hablar, Arm, RecheckPause, Reconcile, ReadCancel, ReconcileRaised,
                ReconcileRefused, ReconcileDrained, ReconcileCut, StarvedWait, FinishJob, Finish, FinishEnd,
                IdleCheck, FinishIdle
  <2> QED BY <2>2, <2>3, <2>5, <2>6, <2>7, <2>8, <2>9, OthersLeaveRouter, OthersOnlyCut DEF Next
<1> QED BY <1>2, <1>3

\* Every playback of the router is a call as SpeechSlice describes it, which is
\* what SpeechPipeline implements.
THEOREM RouterPlaysByTheCall == Spec => PlaysByTheCall
<1> DEFINE Plays == /\ rpc # "play" /\ rpc' = "play" => Call!Init'
                    /\ rpc = "play" => HablarRaises \/ Call!Next \/ UNCHANGED Call!vars
<1>1. Init => CallInv
  BY DEF Init, CallInv
<1>2. IInv /\ CallInv /\ [Next]_vars => CallInv'
  BY CallStep
<1>3. IInv /\ CallInv /\ [Next]_vars => [Plays]_vars
  BY CallIsPlayed
<1> QED BY Invariance, <1>1, <1>2, <1>3, PTL DEF Spec, PlaysByTheCall

\* The call reports cursor n and verdict v; nothing else of the router changes.
CallReports(n, v) ==
  /\ out' = [size |-> out.size, cursor |-> n, interrupted |-> v = "interrupted",
             error |-> v = "error", raised |-> FALSE]
  /\ rpc' = IF v = "playing" THEN "play" ELSE "settle"
  /\ speaking' \in BOOLEAN
  /\ UNCHANGED <<jobVars, schedVars, cancelled, rjob, sawCancel, outsideVars, eventVars, bareCut>>

\* What the ways to change an outcome give.
LEMMA OutcomeUpdates ==
  ASSUME NEW o \in Outcomes, NEW n \in Nat, NEW b \in BOOLEAN
  PROVE  /\ [o EXCEPT !.cursor = n] =
              [size |-> o.size, cursor |-> n, interrupted |-> o.interrupted, error |-> o.error, raised |-> o.raised]
         /\ [o EXCEPT !.interrupted = b] =
              [size |-> o.size, cursor |-> o.cursor, interrupted |-> b, error |-> o.error, raised |-> o.raised]
         /\ [o EXCEPT !.error = b] =
              [size |-> o.size, cursor |-> o.cursor, interrupted |-> o.interrupted, error |-> b, raised |-> o.raised]
<1>1. [o EXCEPT !.cursor = n] =
        [size |-> o.size, cursor |-> n, interrupted |-> o.interrupted, error |-> o.error, raised |-> o.raised]
  <2>1. [o EXCEPT !.cursor = n] \in Outcomes
    BY DEF Outcomes
  <2> QED BY <2>1 DEF Outcomes
<1>2. [o EXCEPT !.interrupted = b] =
        [size |-> o.size, cursor |-> o.cursor, interrupted |-> b, error |-> o.error, raised |-> o.raised]
  <2>1. [o EXCEPT !.interrupted = b] \in Outcomes
    BY DEF Outcomes
  <2> QED BY <2>1 DEF Outcomes
<1>3. [o EXCEPT !.error = b] =
        [size |-> o.size, cursor |-> o.cursor, interrupted |-> o.interrupted, error |-> b, raised |-> o.raised]
  <2>1. [o EXCEPT !.error = b] \in Outcomes
    BY DEF Outcomes
  <2> QED BY <2>1 DEF Outcomes
<1> QED BY <1>1, <1>2, <1>3

\* Conversely the router is ready for whatever a call may do next: each fragment
\* heard or lost and each way to return is one of its Playback steps.
THEOREM RouterMissesNoCall ==
  ASSUME IInv, CallInv, rpc = "play",
         NEW n \in Nat, NEW v \in {"playing", "complete", "interrupted", "error"}, CallReports(n, v),
         Call!Moves(n) \/ Call!Completes \/ Call!IsCut \/ Call!TimesOut
  PROVE  Playback
<1>1. out \in Outcomes /\ Unreported /\ CallVerdict = "playing" /\ speaking \in BOOLEAN
  BY DEF IInv, TypeOK, RouterOK, EventsOK, CallInv, CallVerdict
<1>2. /\ out'.size = out.size /\ out'.cursor = n /\ out'.interrupted = (v = "interrupted")
      /\ out'.error = (v = "error") /\ CallVerdict' = v
  BY DEF CallReports, CallVerdict
<1>3. out \in Outcomes /\ out.interrupted = FALSE /\ out.error = FALSE /\ out.raised = FALSE
  BY <1>1 DEF Unreported, Outcomes
<1>4. out' = [size |-> out.size, cursor |-> n, interrupted |-> v = "interrupted", error |-> v = "error",
              raised |-> FALSE]
  BY DEF CallReports
<1>5. CASE Call!Moves(n)
  <2>1. n \in (out.cursor + 1)..out.size /\ v = "playing" /\ UNCHANGED speaking
    BY <1>1, <1>2, <1>5 DEF Call!Moves
  <2>2. out' = [out EXCEPT !.cursor = n] /\ ~out'.raised
    <3>1. (v = "interrupted") = FALSE /\ (v = "error") = FALSE
      BY <2>1
    <3>2. out' = [size |-> out.size, cursor |-> n, interrupted |-> FALSE, error |-> FALSE, raised |-> FALSE]
      BY <1>4, <3>1
    <3> QED BY <1>3, <2>1, <3>2, OutcomeUpdates
  <2>3. PlayFragment
    BY <2>1, <2>2 DEF PlayFragment, CallReports, motorVars
  <2> QED BY <2>3 DEF Playback
<1>6. ASSUME NEW o, Call!Returns(v, n), v # "playing", out' = o, ~out'.raised PROVE Returns(o)
  <2>1. speaking' = FALSE /\ rpc' = "settle"
    BY <1>6 DEF Call!Returns, CallReports
  <2> QED BY <1>6, <2>1 DEF Returns, CallReports
<1>7. CASE Call!Completes
  <2>1. v = "complete" /\ n = out.size /\ Call!Returns(v, n) /\ (out.cursor = out.size \/ ~speaking)
    BY <1>2, <1>7 DEF Call!Completes, Call!Returns
  <2>2. out' = [out EXCEPT !.cursor = out.size] /\ ~out'.raised
    <3>1. (v = "interrupted") = FALSE /\ (v = "error") = FALSE
      BY <2>1
    <3>2. out' = [size |-> out.size, cursor |-> n, interrupted |-> FALSE, error |-> FALSE, raised |-> FALSE]
      BY <1>4, <3>1
    <3> QED BY <1>3, <2>1, <3>2, OutcomeUpdates
  <2>3. Returns([out EXCEPT !.cursor = out.size])
    BY <1>6, <2>1, <2>2
  <2>4. CASE out.cursor = out.size
    <3>1. [out EXCEPT !.cursor = out.size] = out
      BY <1>1, <2>4 DEF Outcomes
    <3> QED BY <2>3, <2>4, <3>1 DEF PlayCompletes, Playback
  <2>5. CASE ~speaking
    BY <2>3, <2>5 DEF PlayCutUnseen, Playback
  <2> QED BY <2>1, <2>4, <2>5
<1>8. CASE Call!IsCut
  <2>1. v = "interrupted" /\ n = out.cursor /\ Call!Returns(v, n) /\ ~speaking
    BY <1>2, <1>8 DEF Call!IsCut, Call!Returns
  <2>2. out' = [out EXCEPT !.interrupted = TRUE] /\ ~out'.raised
    <3>1. (v = "interrupted") = TRUE /\ (v = "error") = FALSE
      BY <2>1
    <3>2. out' = [size |-> out.size, cursor |-> n, interrupted |-> TRUE, error |-> FALSE, raised |-> FALSE]
      BY <1>4, <3>1
    <3> QED BY <1>3, <2>1, <3>2, OutcomeUpdates
  <2> QED BY <1>6, <2>1, <2>2 DEF PlayIsCut, Playback
<1>9. CASE Call!TimesOut
  <2>1. v = "error" /\ n = out.cursor /\ Call!Returns(v, n)
    BY <1>2, <1>9 DEF Call!TimesOut, Call!Returns
  <2>2. out' = [out EXCEPT !.error = TRUE] /\ ~out'.raised
    <3>1. (v = "interrupted") = FALSE /\ (v = "error") = TRUE
      BY <2>1
    <3>2. out' = [size |-> out.size, cursor |-> n, interrupted |-> FALSE, error |-> TRUE, raised |-> FALSE]
      BY <1>4, <3>1
    <3> QED BY <1>3, <2>1, <3>2, OutcomeUpdates
  <2> QED BY <1>6, <2>1, <2>2 DEF PlayTimesOut, Playback
<1> QED BY <1>5, <1>7, <1>8, <1>9
=============================================================================
