----------------------------- MODULE SpeechSlice -----------------------------
(***************************************************************************)
(* One call of _hablar as its caller may think of it, whatever the threads *)
(* inside do: it goes through a slice of fragments, each of which is heard *)
(* to its end or lost, and returns a SpeechOutcome whose cursor is where   *)
(* a resume begins.  SpeechPipeline implements it (the producer, the queue *)
(* and the consumer); SpeechRouter is the caller that plays by it.         *)
(***************************************************************************)
EXTENDS Naturals

VARIABLES speaking,     \* the cut flag, which any other thread may clear
          size,         \* how many fragments the slice has
          at,           \* fragments heard or lost so far: the cursor
          heard,        \* those heard to their end
          verdict       \* playing, then complete, interrupted or error

vars == <<speaking, size, at, heard, verdict>>
Playing == verdict = "playing"

Init ==
  /\ speaking \in BOOLEAN /\ size \in Nat
  /\ at = 0 /\ heard = {} /\ verdict = "playing"

Moves(n) ==
  /\ Playing /\ n \in (at + 1)..size
  /\ at' = n
  /\ UNCHANGED <<speaking, size, verdict>>

\* Only the next fragment is heard, and only while nothing has cut the speech.
Hear == speaking /\ Moves(at + 1) /\ heard' = heard \cup {at}

\* Any number of fragments is lost, before a cut or in it.
Lose == (\E n \in (at + 1)..size : Moves(n)) /\ UNCHANGED heard

\* The call returns with the flag down.
Returns(v, cursor) ==
  /\ Playing /\ verdict' = v /\ at' = cursor
  /\ ~speaking'
  /\ UNCHANGED size

\* A complete slice is one that was gone through or, when the flag is down, one
\* whose cut the consumer has not seen.
Completes == (at = size \/ ~speaking) /\ Returns("complete", size)
IsCut == ~speaking /\ Returns("interrupted", at)
TimesOut == Returns("error", at)
Return == (Completes \/ IsCut \/ TimesOut) /\ UNCHANGED heard

\* The flag goes down at any time, and up again once the call has returned.
Flag ==
  /\ ~Playing \/ ~speaking'
  /\ UNCHANGED <<size, at, heard, verdict>>

Next == Hear \/ Lose \/ Return \/ Flag

Spec == Init /\ [][Next]_vars
=============================================================================
