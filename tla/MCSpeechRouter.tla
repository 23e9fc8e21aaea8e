--------------------------- MODULE MCSpeechRouter ---------------------------
(* Small instances of SpeechRouter for TLC.                                *)
EXTENDS SpeechRouter

\* Three scenes in one run: a job under a press and a stop; two jobs under one of
\* them; and three that nest, without either: the agenda's, an owner's that preempts
\* it, and another owner's that preempts and sweeps what is suspended.
OneJob == nextId <= 2
TwoJobs == nextId <= 3 /\ (presses = 0 \/ stops = 0)
ThreeNested ==
  /\ presses = 0 /\ stops = 0
  /\ \A j \in Jobs : j < nextId => kind[j] = IF j = 1 THEN "agenda" ELSE "owner"
Scene == OneJob \/ TwoJobs \/ ThreeNested
=============================================================================
