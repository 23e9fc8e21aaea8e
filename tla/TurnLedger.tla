----------------------------- MODULE TurnLedger -----------------------------
(***************************************************************************)
(* What those who ask may rely on, whatever queues, buffers, drains and    *)
(* hands their turns go through: a turn that was accepted ends once, and   *)
(* how it may end depends on who asked it.  EngineLoop implements it.      *)
(***************************************************************************)
CONSTANT Turns

VARIABLES source,     \* who asked each turn
          fate        \* new, live, or how it ended

vars == <<source, fate>>

\* Served is: its go at the model came, also if the generation then failed or the
\* model was away.  The operator's spoken questions end in no other way, typed ones may
\* also outlive their TTL; only what viewers and the agenda asked makes room for others.
MayEnd(t) ==
  CASE source[t] = "ptt" -> {"served"}
    [] source[t] = "direct" -> {"served", "expired"}
    [] OTHER -> {"served", "expired", "discarded"}

Fates == {"new", "live", "served", "expired", "discarded"}

Init == fate = [t \in Turns |-> "new"]

\* A turn that finds everything full may be dropped as it arrives.
Arrives(t) == fate[t] = "new" /\ fate'[t] \in {"live"} \cup (MayEnd(t) \cap {"discarded"})
Ends(t) == fate[t] = "live" /\ fate'[t] \in MayEnd(t)
Stays(t) == fate'[t] = fate[t]

Next ==
  /\ fate' \in [Turns -> Fates]
  /\ UNCHANGED source
  /\ \A t \in Turns : Stays(t) \/ Arrives(t) \/ Ends(t)

Spec == Init /\ [][Next]_vars
=============================================================================
