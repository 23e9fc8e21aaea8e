---------------------------- MODULE SpeechEvents ----------------------------
(***************************************************************************)
(* What the consumers of ui_callback (the avatar, the agenda, the API's    *)
(* event stream) may rely on, whatever the speech scheduler does inside:   *)
(* speaking_start and speaking_end strictly alternate, 'idle' comes only   *)
(* between pairs, and every pair is closed.                                *)
(***************************************************************************)
VARIABLES speaking,     \* a pair is open
          last          \* the last event received

vars == <<speaking, last>>

Init == ~speaking /\ last = "none"

Start == ~speaking /\ speaking' /\ last' = "speaking_start"
End == speaking /\ ~speaking' /\ last' = "speaking_end"
Idle == ~speaking /\ last' = "idle" /\ UNCHANGED speaking

Next == Start \/ End \/ Idle

Spec == Init /\ [][Next]_vars

\* Every pair that is opened is closed: the mouth never stays open for good.
PairsClose == speaking ~> ~speaking
=============================================================================
