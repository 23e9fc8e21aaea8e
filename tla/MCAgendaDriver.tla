--------------------------- MODULE MCAgendaDriver ---------------------------
(* Small instances of AgendaDriver for TLC.                                *)
EXTENDS AgendaDriver

MCTexts == AgendaTexts \cup {<<"ask", q>> : q \in 1..3}

Scene(t, q, e, s, x, p, f) ==
  [topics |-> t, asks |-> q, enables |-> e, stops |-> s, emergencies |-> x,
   profiles |-> p, faults |-> f]

\* Two questions interrupt; a failure, a soft stop, a new profile under a question;
\* questions are bundled, and the bundle fails; a soft stop and a failure; an
\* emergency stop with them, and with a second session; a model that keeps failing.
MCScenes ==
  {Scene(1, 2, 1, 0, 0, 0, 0), Scene(1, 1, 1, 0, 0, 0, 1),
   Scene(1, 1, 1, 1, 0, 0, 0), Scene(1, 1, 1, 0, 0, 1, 0),
   Scene(0, 3, 0, 0, 0, 0, 1), Scene(1, 0, 1, 1, 0, 0, 1),
   Scene(2, 0, 1, 1, 1, 0, 1), Scene(2, 0, 2, 0, 1, 0, 1),
   Scene(1, 0, 1, 0, 0, 0, 4)}
=============================================================================
