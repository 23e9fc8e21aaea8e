----------------------- MODULE AgendaControllerProofs -----------------------
(***************************************************************************)
(* What the controller's methods return, for every number of topics and    *)
(* turns: each takes a controller to a controller, and a decision to at    *)
(* most one text to enqueue.                                               *)
(***************************************************************************)
EXTENDS AgendaController, TLAPS

AtMostOne(S) == \A x, y \in S : x = y

\* What a decision may be.
IsDecision(d) ==
  d.agenda \in AgendaRecord /\ d.text \subseteq AgendaTexts /\ AtMostOne(d.text)

USE ControllerAssumption

\* One field at a time.
LEMMA WithField ==
  ASSUME NEW a \in AgendaRecord
  PROVE  /\ \A s \in States : [a EXCEPT !.st = s] \in AgendaRecord
         /\ \A n \in 0..Topics : [a EXCEPT !.topic = n] \in AgendaRecord
         /\ \A b \in BOOLEAN : [a EXCEPT !.ending = b] \in AgendaRecord
         /\ \A n \in 0..TurnMax : [a EXCEPT !.turns = n] \in AgendaRecord
         /\ \A b \in BOOLEAN : [a EXCEPT !.stop = b] \in AgendaRecord
         /\ \A n \in Nat : [a EXCEPT !.fails = n] \in AgendaRecord
         /\ \A n \in Nat : [a EXCEPT !.sick = n] \in AgendaRecord
         /\ \A n \in 0..RetryMax : [a EXCEPT !.retries = n] \in AgendaRecord
         /\ \A n \in 0..Topics : [a EXCEPT !.opened = n] \in AgendaRecord
<1> USE DEF AgendaRecord
<1>1. \A s \in States : [a EXCEPT !.st = s] \in AgendaRecord
  OBVIOUS
<1>2. \A n \in 0..Topics : [a EXCEPT !.topic = n] \in AgendaRecord
  OBVIOUS
<1>3. \A b \in BOOLEAN : [a EXCEPT !.ending = b] \in AgendaRecord
  OBVIOUS
<1>4. \A n \in 0..TurnMax : [a EXCEPT !.turns = n] \in AgendaRecord
  OBVIOUS
<1>5. \A b \in BOOLEAN : [a EXCEPT !.stop = b] \in AgendaRecord
  OBVIOUS
<1>6. \A n \in Nat : [a EXCEPT !.fails = n] \in AgendaRecord
  OBVIOUS
<1>7. \A n \in Nat : [a EXCEPT !.sick = n] \in AgendaRecord
  OBVIOUS
<1>8. \A n \in 0..RetryMax : [a EXCEPT !.retries = n] \in AgendaRecord
  OBVIOUS
<1>9. \A n \in 0..Topics : [a EXCEPT !.opened = n] \in AgendaRecord
  OBVIOUS
<1> QED BY <1>1, <1>2, <1>3, <1>4, <1>5, <1>6, <1>7, <1>8, <1>9

LEMMA NewAgendaType == \A n \in 0..Topics : [NewAgenda EXCEPT !.opened = n] \in AgendaRecord
<1>1. "off" \in States /\ RetryMax \in Nat
  BY DEF States
<1>2. NewAgenda \in AgendaRecord
  BY <1>1 DEF NewAgenda, AgendaRecord
<1> QED BY <1>2, WithField

LEMMA SettledType ==
  ASSUME NEW a \in AgendaRecord
  PROVE  Succeeded(a) \in AgendaRecord /\ Settled(a) \in AgendaRecord /\ TopicDone(a) \in AgendaRecord
<1>1. Succeeded(a) \in AgendaRecord
  <2>1. [a EXCEPT !.fails = 0] \in AgendaRecord /\ 0 \in 0..RetryMax
    BY WithField
  <2>2. [[a EXCEPT !.fails = 0] EXCEPT !.sick = 0] \in AgendaRecord
    BY <2>1, WithField
  <2>3. [[[a EXCEPT !.fails = 0] EXCEPT !.sick = 0] EXCEPT !.retries = 0] \in AgendaRecord
    BY <2>1, <2>2, WithField
  <2> QED BY <2>3 DEF Succeeded, AgendaRecord
<1>2. Settled(a) \in AgendaRecord
  BY DEF Settled, AgendaRecord, States
<1>3. TopicDone(a) \in AgendaRecord
  <2> DEFINE b == Settled(a)
  <2>1. b \in AgendaRecord
    BY <1>2
  <2> HIDE DEF b
  <2>2. [[[b EXCEPT !.topic = 0] EXCEPT !.ending = FALSE] EXCEPT !.turns = 0] \in AgendaRecord
    <3>1. [b EXCEPT !.topic = 0] \in AgendaRecord /\ 0 \in 0..TurnMax
      BY <2>1, WithField
    <3>2. [[b EXCEPT !.topic = 0] EXCEPT !.ending = FALSE] \in AgendaRecord
      BY <3>1, WithField
    <3> QED BY <3>1, <3>2, WithField
  <2>3. [b EXCEPT !.topic = 0, !.ending = FALSE, !.turns = 0] \in AgendaRecord
    BY <2>1, <2>2 DEF AgendaRecord
  <2> QED BY <2>3 DEF TopicDone, b
<1> QED BY <1>1, <1>2, <1>3

LEMMA DebitType ==
  ASSUME NEW a \in AgendaRecord
  PROVE  Debit(a) \in AgendaRecord
BY DEF Debit, AgendaRecord

LEMMA ControlsType ==
  ASSUME NEW a \in AgendaRecord
  PROVE  Enabled(a) \in AgendaRecord /\ EmergencyStopped(a) \in AgendaRecord
<1>1. Enabled(a) \in AgendaRecord
  BY DEF Enabled, AgendaRecord, States
<1>2. Succeeded(a) \in AgendaRecord
  BY SettledType
<1>3. EmergencyStopped(a) \in AgendaRecord
  <2> DEFINE b == Succeeded(a)
  <2>1. b \in AgendaRecord /\ "off" \in States
    BY <1>2 DEF States
  <2> HIDE DEF b
  <2>2. [[[[[b EXCEPT !.st = "off"] EXCEPT !.stop = FALSE] EXCEPT !.topic = 0] EXCEPT !.ending = FALSE]
         EXCEPT !.turns = 0] \in AgendaRecord
    <3>1. [b EXCEPT !.st = "off"] \in AgendaRecord /\ 0 \in 0..TurnMax /\ 0 \in 0..Topics
      BY <2>1, WithField
    <3>2. [[b EXCEPT !.st = "off"] EXCEPT !.stop = FALSE] \in AgendaRecord
      BY <3>1, WithField
    <3>3. [[[b EXCEPT !.st = "off"] EXCEPT !.stop = FALSE] EXCEPT !.topic = 0] \in AgendaRecord
      BY <3>1, <3>2, WithField
    <3>4. [[[[b EXCEPT !.st = "off"] EXCEPT !.stop = FALSE] EXCEPT !.topic = 0] EXCEPT !.ending = FALSE]
            \in AgendaRecord
      BY <3>3, WithField
    <3> QED BY <3>1, <3>4, WithField
  <2>3. [b EXCEPT !.st = "off", !.stop = FALSE, !.topic = 0, !.ending = FALSE, !.turns = 0] \in AgendaRecord
    BY <2>1, <2>2 DEF AgendaRecord
  <2> QED BY <2>3 DEF EmergencyStopped, b
<1> QED BY <1>1, <1>3

LEMMA ClosingType ==
  ASSUME NEW a \in AgendaRecord
  PROVE  IsDecision(Closing(a))
<1>1. [a EXCEPT !.st = "generating", !.ending = (a.topic # 0)] \in AgendaRecord
  BY DEF AgendaRecord, States
<1>2. <<"closing", a.topic>> \in AgendaTexts
  BY DEF AgendaTexts, AgendaRecord
<1> QED BY <1>1, <1>2 DEF Closing, Deciding, IsDecision, AtMostOne

LEMMA SoftStopType ==
  ASSUME NEW a \in AgendaRecord
  PROVE  IsDecision(SoftStop(a))
<1> DEFINE b == [a EXCEPT !.stop = TRUE]
<1>1. b \in AgendaRecord /\ [b EXCEPT !.st = "off"] \in AgendaRecord
  BY DEF AgendaRecord, States
<1>2. IsDecision(Deciding([b EXCEPT !.st = "off"], {})) /\ IsDecision(Deciding(b, {}))
  BY <1>1 DEF Deciding, IsDecision, AtMostOne
<1>3. IsDecision(Closing(b))
  BY <1>1, ClosingType
<1>4. SoftStop(a) \in {Deciding([b EXCEPT !.st = "off"], {}), Deciding(b, {}), Closing(b)}
  BY DEF SoftStop
<1> QED BY <1>2, <1>3, <1>4

LEMMA AutoResumeType ==
  ASSUME NEW a \in AgendaRecord, NEW due \in BOOLEAN
  PROVE  AutoResume(a, due) \in AgendaRecord
<1>1. /\ [a EXCEPT !.st = "hard"] \in AgendaRecord /\ [a EXCEPT !.st = "idle"] \in AgendaRecord
  BY WithField DEF States
<1>2. a.retries < RetryMax => a.retries + 1 \in 0..RetryMax
  BY DEF AgendaRecord
<1> DEFINE b == [a EXCEPT !.st = "idle"]
<1>3. b.retries = a.retries /\ b \in AgendaRecord
  BY <1>1 DEF AgendaRecord
<1>4. a.retries < RetryMax => [a EXCEPT !.st = "idle", !.retries = @ + 1] \in AgendaRecord
  <2>1. a.retries < RetryMax => [b EXCEPT !.retries = a.retries + 1] \in AgendaRecord
    BY <1>2, <1>3, WithField
  <2>2. [a EXCEPT !.st = "idle", !.retries = @ + 1] = [b EXCEPT !.retries = a.retries + 1]
    BY DEF AgendaRecord
  <2> QED BY <2>1, <2>2
<1> QED BY <1>1, <1>4 DEF AutoResume

LEMMA OpenType ==
  ASSUME NEW a \in AgendaRecord, Queued(a)
  PROVE  IsDecision(Open(a))
<1>1. [a EXCEPT !.st = "generating", !.opened = @ + 1, !.topic = a.opened + 1,
                !.ending = FALSE, !.turns = 0] \in AgendaRecord
  <2>1. a.opened + 1 \in 0..Topics /\ "generating" \in States /\ 0 \in 0..TurnMax
    BY DEF AgendaRecord, Queued, States
  <2>2. [[[[[a EXCEPT !.st = "generating"] EXCEPT !.opened = a.opened + 1] EXCEPT !.topic = a.opened + 1]
          EXCEPT !.ending = FALSE] EXCEPT !.turns = 0] \in AgendaRecord
    BY <2>1, WithField
  <2> QED BY <2>2 DEF AgendaRecord
<1>2. <<"open", a.opened + 1>> \in AgendaTexts
  BY DEF AgendaTexts, AgendaRecord, Queued
<1> QED BY <1>1, <1>2 DEF Open, Deciding, IsDecision, AtMostOne

LEMMA ContinueType ==
  ASSUME NEW a \in AgendaRecord
  PROVE  IsDecision(ContinueOrClose(a))
<1>1. [a EXCEPT !.st = "generating"] \in AgendaRecord
  BY DEF AgendaRecord, States
<1>2. <<"continue", a.topic>> \in AgendaTexts
  BY DEF AgendaTexts, AgendaRecord
<1>3. IsDecision(Deciding([a EXCEPT !.st = "generating"], {<<"continue", a.topic>>}))
  BY <1>1, <1>2 DEF Deciding, IsDecision, AtMostOne
<1> QED BY <1>3, ClosingType DEF ContinueOrClose

\* The next action, whatever the controller has been through, is at most one text.
LEMMA NextActionType ==
  ASSUME NEW a \in AgendaRecord, NEW busy \in BOOLEAN
  PROVE  IsDecision(NextAction(a, busy))
<1> DEFINE b == [a EXCEPT !.st = IF @ = "regen" THEN "waiting" ELSE @]
<1>1. b \in AgendaRecord
  BY DEF AgendaRecord, States
<1>2. IsDecision(Deciding(a, {})) /\ IsDecision(Deciding(b, {}))
  BY <1>1 DEF Deciding, IsDecision, AtMostOne
<1> HIDE DEF b
<1>3. IsDecision(Closing(b)) /\ IsDecision(ContinueOrClose(b)) /\ (Queued(b) => IsDecision(Open(b)))
  BY <1>1, ClosingType, ContinueType, OpenType
<1>4. \/ NextAction(a, busy) \in {Deciding(a, {}), Deciding(b, {}), Closing(b), ContinueOrClose(b)}
      \/ Queued(b) /\ NextAction(a, busy) = Open(b)
  BY DEF NextAction, b
<1> QED BY <1>2, <1>3, <1>4

LEMMA PreviewType ==
  ASSUME NEW a \in AgendaRecord
  PROVE  Preview(a) \subseteq AgendaTexts /\ AtMostOne(Preview(a))
<1>1. <<"closing", a.topic>> \in AgendaTexts /\ <<"preview", a.topic>> \in AgendaTexts
  BY DEF AgendaTexts, AgendaRecord
<1> QED BY <1>1 DEF Preview, AtMostOne

LEMMA OutcomeTypes ==
  ASSUME NEW a \in AgendaRecord
  PROVE  /\ \A x : Adopted(a, x) \in AgendaRecord
         /\ Accepted(a) \in AgendaRecord /\ SpeechComplete(a) \in AgendaRecord
<1>1. ASSUME NEW x PROVE Adopted(a, x) \in AgendaRecord
  BY DEF Adopted, AgendaRecord, States
<1>2. Accepted(a) \in AgendaRecord
  BY DEF Accepted, AgendaRecord, States
<1>3. Debit(a) \in AgendaRecord
  BY DebitType
<1>4. [Debit(a) EXCEPT !.st = "waiting"] \in AgendaRecord
  BY <1>3 DEF AgendaRecord, States
<1>5. SpeechComplete(a) \in AgendaRecord
  BY <1>4, SettledType DEF SpeechComplete
<1> QED BY <1>1, <1>2, <1>5

LEMMA FailedType ==
  ASSUME NEW a \in AgendaRecord, NEW health \in BOOLEAN
  PROVE  Failed(a, health) \in AgendaRecord
<1> DEFINE c == [a EXCEPT !.fails = @ + 1, !.sick = IF health THEN @ + 1 ELSE 0]
           b == Debit(c)
<1>1. c \in AgendaRecord
  <2>1. a.fails + 1 \in Nat /\ (IF health THEN a.sick + 1 ELSE 0) \in Nat
    BY DEF AgendaRecord
  <2>2. [[a EXCEPT !.fails = a.fails + 1] EXCEPT !.sick = IF health THEN a.sick + 1 ELSE 0] \in AgendaRecord
    BY <2>1, WithField
  <2> QED BY <2>2 DEF AgendaRecord
<1> HIDE DEF c
<1>2. b \in AgendaRecord
  BY <1>1, DebitType
<1> HIDE DEF b
<1>3. /\ Succeeded(TopicDone(b)) \in AgendaRecord /\ Succeeded(Settled(b)) \in AgendaRecord
  BY <1>2, SettledType
<1>4. /\ [b EXCEPT !.turns = TurnMax, !.st = "waiting"] \in AgendaRecord
      /\ [b EXCEPT !.st = "paused"] \in AgendaRecord /\ [b EXCEPT !.st = "regen"] \in AgendaRecord
  <2>1. TurnMax \in 0..TurnMax /\ {"waiting", "paused", "regen"} \subseteq States
    BY DEF States
  <2>2. [[b EXCEPT !.turns = TurnMax] EXCEPT !.st = "waiting"] \in AgendaRecord
    BY <1>2, <2>1, WithField
  <2>3. [b EXCEPT !.turns = TurnMax, !.st = "waiting"] \in AgendaRecord
    BY <1>2, <2>2 DEF AgendaRecord
  <2>4. [b EXCEPT !.st = "paused"] \in AgendaRecord /\ [b EXCEPT !.st = "regen"] \in AgendaRecord
    BY <1>2, <2>1, WithField
  <2> QED BY <2>3, <2>4
<1>5. Failed(a, health) \in
        {Succeeded(TopicDone(b)), Succeeded(Settled(b)), [b EXCEPT !.turns = TurnMax, !.st = "waiting"],
         [b EXCEPT !.st = "paused"], [b EXCEPT !.st = "regen"]}
  BY DEF Failed, b, c
<1> QED BY <1>3, <1>4, <1>5

LEMMA RejectionTypes ==
  ASSUME NEW a \in AgendaRecord
  PROVE  AcceptEmpty(a) \in AgendaRecord /\ AcceptRejected(a) \in AgendaRecord
<1>1. \A c \in AgendaRecord : AcceptEmpty(c) \in AgendaRecord
  BY SettledType, FailedType DEF AcceptEmpty
<1> QED BY <1>1, FailedType DEF AcceptRejected
=============================================================================
