--------------------------- MODULE Pregeneration ---------------------------
(***************************************************************************)
(* The engine's speculative drafts (PregenCacheMixin and AgendaStashMixin, *)
(* core/engine/llm_engine_pregen.py and llm_engine_agenda.py): one slot    *)
(* for a draft, one marker of the worker in flight, an epoch that lets a   *)
(* late draft be refused, and the frozen stash, where an agenda draft      *)
(* waits while the owner's question takes the slot.  Everything is under   *)
(* _prefetch_lock, so each method is an operator from the cache's record   *)
(* to the next one.                                                        *)
(*                                                                         *)
(* The epoch only serves to compare: a worker is "valid" as long as its    *)
(* epoch is still the current one.  A slot, the stash and the connector    *)
(* hold at most one thing: a set of at most one draft.                     *)
(***************************************************************************)
EXTENDS Integers, FiniteSets

CONSTANTS Texts,      \* what may be generated ahead: a kind and a number
          DetourMax   \* RETURN_MAX_DETOUR_TURNS

ASSUME PregenerationAssumption == Texts # {} /\ DetourMax \in Nat

\* It answers an owner question; the other kinds are the agenda's.
Asked(text) == text[1] = "ask"

Workers == {1, 2}
Nobody == 0

\* conn: the connector of a resumed draft, "own" generated for this very stash,
\* "alien" for another; stale, dead (history): generated before a later turn was
\* committed, before the persona changed or the session was stopped.
Draft == [text : Texts, resumed : BOOLEAN, conn : {"none", "own", "alien"},
          stale : BOOLEAN, dead : BOOLEAN]
Worker == [st : {"off", "gen", "landed"}, text : Texts, valid : BOOLEAN,
           stale : BOOLEAN, dead : BOOLEAN]

Idle == [st |-> "off", text |-> CHOOSE x \in Texts : TRUE, valid |-> FALSE,
         stale |-> FALSE, dead |-> FALSE]

\* slot: _prefetched_agenda; marker: whose _pregen_inflight; work: the threads;
\* frozen: _frozen_stash; detour: _detour_turns; upgrade: the connector worker and
\* whether the stash it was spawned for is still there; llm: _llm_generating.
CacheRecord ==
  [slot : SUBSET Draft, marker : Workers \cup {Nobody}, work : [Workers -> Worker],
   frozen : SUBSET Draft, detour : 0..(DetourMax + 1),
   upgrade : {"off", "own", "alien"}, llm : BOOLEAN]

NewCache ==
  [slot |-> {}, marker |-> Nobody, work |-> [w \in Workers |-> Idle],
   frozen |-> {}, detour |-> 0, upgrade |-> "off", llm |-> FALSE]

-----------------------------------------------------------------------------
(* The epoch and the slot. *)

Bumped(work) == [w \in Workers |-> [work[w] EXCEPT !.valid = FALSE]]

\* clear_prefetched_agenda, and _invalidate_pregen_epoch.
Cleared(p) == [p EXCEPT !.slot = {}, !.work = Bumped(@)]

\* Mutant: the history changes without a new epoch.
CommittedQuietly(p) ==
  [p EXCEPT !.slot = {}, !.work = [w \in Workers |-> [@[w] EXCEPT !.stale = TRUE]],
            !.frozen = {[d EXCEPT !.stale = TRUE] : d \in @}]

\* _commit_history: whatever was generated before this turn is out of date.
Committed(p) ==
  LET c == Cleared(p)
  IN  [c EXCEPT !.work = [w \in Workers |-> [@[w] EXCEPT !.stale = TRUE]],
                !.frozen = {[d EXCEPT !.stale = TRUE] : d \in @}]

Holds(p, text) == \E d \in p.slot : d.text = text
HoldsAgenda(p) == \E d \in p.slot : ~Asked(d.text)

\* _clear_prefetch_unless_matches.
ClearedUnless(p, text) == IF Holds(p, text) THEN p ELSE Cleared(p)

\* _clear_prefetch_if_matches, for each of these texts.
ClearedFor(p, texts) ==
  IF \E x \in texts : Holds(p, x) /\ ~(p.marker # Nobody /\ p.work[p.marker].text = x)
  THEN Cleared(p) ELSE p

\* _take_pregen_if_match, of a draft that matches.
Taken(p) == [p EXCEPT !.slot = {}]

\* clear_prefetched_agenda_only: an agenda draft, or one that is still coming.
ClearedAgenda(p) ==
  IF HoldsAgenda(p) THEN Cleared(p)
  ELSE IF /\ p.slot = {} /\ p.marker # Nobody
          /\ ~Asked(p.work[p.marker].text)
       THEN [p EXCEPT !.work = Bumped(@)]
  ELSE p

\* A worker is generating this text, and nothing is stored.
InFlightFor(p, text) ==
  p.slot = {} /\ p.marker # Nobody /\ p.work[p.marker].text = text

\* prefetch_pending.
Pending(p) == p.slot = {} /\ p.marker # Nobody

-----------------------------------------------------------------------------
(* The frozen stash. *)

\* What becomes of a connector in flight when its stash is taken away.
Unowned(up) == IF up = "own" THEN "alien" ELSE up

\* _freeze_agenda_stash_locked.
Frozen(p) ==
  [p EXCEPT !.frozen = {[d EXCEPT !.conn = "none"] : d \in p.slot},
            !.slot = {}, !.detour = 0]

\* discard_frozen_stash, and _invalidate_frozen_stash.
Discarded(p) ==
  [p EXCEPT !.frozen = {}, !.detour = 0, !.upgrade = Unowned(@)]

\* restore_frozen_stash, when there is one.
Restored(p) ==
  [p EXCEPT !.slot = {[d EXCEPT !.resumed = TRUE] : d \in p.frozen},
            !.frozen = {}, !.detour = 0, !.upgrade = Unowned(@),
            !.work = Bumped(@)]

\* _note_detour_turn.
Noted(p, text) ==
  IF p.frozen # {} /\ Asked(text) /\ p.detour <= DetourMax
  THEN [p EXCEPT !.detour = @ + 1] ELSE p

\* The connector may only be spawned when nothing else could want the model.
UpgradeFree(p) ==
  /\ p.upgrade = "off" /\ p.slot = {} /\ p.marker = Nobody /\ ~p.llm
  /\ \E d \in p.frozen : d.conn = "none"

\* Mutant: whatever is frozen by now gets the line.
UpgradeStamps(p, line) ==
  [p EXCEPT !.upgrade = "off", !.llm = FALSE,
            !.frozen = {IF line /\ d.conn = "none" THEN [d EXCEPT !.conn = p.upgrade]
                        ELSE d : d \in @}]

\* The connector worker ends with a line or without one.
UpgradeLanded(p, line) ==
  [p EXCEPT !.upgrade = "off", !.llm = FALSE,
            !.frozen = {IF line /\ p.upgrade = "own" /\ d.conn = "none"
                        THEN [d EXCEPT !.conn = "own"] ELSE d : d \in @}]

-----------------------------------------------------------------------------
(* The workers. *)

\* An owner question is worth more than an agenda text (a lower priority number).
Above(x, y) == Asked(x) /\ ~Asked(y)

\* pregenerate takes the slot if it is free and nobody is in flight, or from a
\* draft that is worth less.
MaySpawn(p, text) ==
  \/ p.slot = {} /\ p.marker = Nobody
  \/ \E d \in p.slot : Above(text, d.text)

\* The draft it displaces is frozen, or (a stash is frozen already) evicted.
Displaced(p) ==
  IF p.slot = {} THEN p ELSE IF p.frozen = {} THEN Frozen(p) ELSE Cleared(p)

FreeWorker(p) == CHOOSE w \in Workers : p.work[w].st = "off"

Spawned(p, text) ==
  LET w == FreeWorker(p)
  IN  [Displaced(p) EXCEPT
         !.marker = w, !.llm = TRUE,
         !.work[w] = [st |-> "gen", text |-> text, valid |-> TRUE,
                      stale |-> FALSE, dead |-> FALSE]]

\* Mutant: the marker is not rolled back.
SpawnForgotten(p) == [Displaced(p) EXCEPT !.marker = FreeWorker(p)]

\* The thread does not start: the displaced draft is gone, the marker is free.
SpawnFailed(p) == [Displaced(p) EXCEPT !.marker = Nobody]

Made(job) == [text |-> job.text, resumed |-> FALSE, conn |-> "none",
              stale |-> job.stale, dead |-> job.dead]

\* The generation of worker w ends; what it made, if anything (and if the preview
\* validator likes it), is stored unless the epoch has moved.
Landed(p, w, made) ==
  [p EXCEPT !.llm = FALSE, !.work[w].st = "landed",
            !.slot = IF made /\ p.work[w].valid THEN {Made(p.work[w])} ELSE @]

\* Mutant: whoever ends frees the slot.
ReleasedAny(p, w) == [p EXCEPT !.work[w] = Idle, !.marker = Nobody]

\* The worker's finally: the slot is released only by the spawn that owns it.
Released(p, w) ==
  [p EXCEPT !.work[w] = Idle, !.marker = IF @ = w THEN Nobody ELSE @]

-----------------------------------------------------------------------------
(* The persona changes or the session is stopped (history): whatever exists   *)
(* now must not be spoken.                                                    *)
Outdated(p) ==
  [p EXCEPT !.work = [w \in Workers |-> [@[w] EXCEPT !.dead = TRUE]],
            !.slot = {[d EXCEPT !.dead = TRUE] : d \in @},
            !.frozen = {[d EXCEPT !.dead = TRUE] : d \in @}]
=============================================================================
