--------------------------- MODULE TurnScheduler ---------------------------
(***************************************************************************)
(* The dispatch queue (core/turn_scheduler.py, core/turn_priority.py) and  *)
(* the accumulation buffer that takes what it trims (core/llm_engine.py).  *)
(* A turn is a number; the queue, kept sorted by (priority, timestamp) in  *)
(* the code, is a set and that order.  The operations here are the pieces  *)
(* EngineLoop composes into the steps of its threads.                      *)
(***************************************************************************)
EXTENDS Integers, FiniteSets

CONSTANTS MaxTurns,          \* how many turns arrive
          MaxItems,          \* TurnScheduler._max_items (5)
          AccumMax,          \* cap of the accumulation buffer (50 items, 2000 chars)
          BundleMax,         \* OWNER_BUNDLE_MAX_ITEMS (6)
          StreamOverAgenda   \* the streamer's setting

Turns == 1..MaxTurns
OwnerSources == {"direct", "ptt"}
Sources == OwnerSources \cup {"chat", "agenda"}

ASSUME SchedulerAssumption ==
  /\ MaxTurns \in Nat /\ MaxItems \in Nat /\ AccumMax \in Nat
  /\ BundleMax \in Nat \ {0} /\ StreamOverAgenda \in BOOLEAN

\* A turn ends served (answered, or spent by a generation that failed or a model
\* that was away), expired, or discarded.
Ends == {"served", "expired", "discarded"}

VARIABLES
  source,    \* the source of each turn; "none" never arrives
  ts,        \* its insertion timestamp, 0 until it is enqueued
  pq,        \* TurnScheduler._items
  acc,       \* _accumulation_buffer
  accAt,     \* when a turn was put there
  fate       \* "new", "live", or how the turn ended

sched == <<source, ts, pq, acc, accAt, fate>>

\* The sources are given by the specification that uses the queue.
InitSched ==
  /\ ts = [t \in Turns |-> 0]
  /\ pq = {} /\ acc = {} /\ accAt = [t \in Turns |-> 0]
  /\ fate = [t \in Turns |-> "new"]

\* Turns arrive in the order of their numbers.
Arrives(t) == fate[t] = "new" /\ \A u \in 1..(t - 1) : fate[u] # "new"

Live == {t \in Turns : fate[t] = "live"}
Owners(S) == {t \in S : source[t] \in OwnerSources}
Ended(f, S, how) == [t \in Turns |-> IF t \in S THEN how ELSE f[t]]

\* dispatch_priority_for_source: the tier of a source.
Priority(src) ==
  CASE src = "ptt" -> 0
    [] src = "direct" -> 1
    [] src = "chat" -> IF StreamOverAgenda THEN 2 ELSE 3
    [] OTHER -> IF StreamOverAgenda THEN 3 ELSE 2

\* The queue's sort key, with timestamps st.
Before(st, t, u) ==
  \/ Priority(source[t]) < Priority(source[u])
  \/ Priority(source[t]) = Priority(source[u]) /\ st[t] < st[u]

IsHead(t) == t \in pq /\ \A u \in pq \ {t} : Before(ts, t, u)

\* The next reading of the clock: later than every reading before it.
Now == 1 + Cardinality({t \in Turns : ts[t] # 0})

-----------------------------------------------------------------------------
(* Operations under the scheduler's lock or the buffer's. *)

\* Mutant: owner questions are trimmed like the rest.
TrimmedAll(S, st) ==
  {t \in S : Cardinality({u \in S : Before(st, u, t)}) >= MaxItems}

\* What a full queue S drops: from its tail, until it fits or only owner
\* questions are left.
Trimmed(S, st) ==
  LET viewers == S \ Owners(S) IN
  {t \in viewers : Cardinality({u \in viewers : Before(st, u, t)})
                     >= MaxItems - Cardinality(Owners(S))}

\* enqueue_accumulation of the turns D trimmed from the queue, its tail first:
\* the newest AccumMax stay.
Accumulate(D, buffer, f, st) ==
  LET at == [t \in Turns |-> IF t \in D THEN Now ELSE accAt[t]]
      all == buffer \cup D
      IsNewer(t, u) == \/ at[t] < at[u]
                       \/ at[t] = at[u] /\ Before(st, u, t)
      lost == {t \in all : Cardinality({u \in all : IsNewer(t, u)}) >= AccumMax}
  IN /\ accAt' = at
     /\ acc' = all \ lost
     /\ fate' = Ended(f, lost, "discarded")

\* MotorVocalIA.enqueue: turn t joins queue q; the fates before are f.
Enqueue(t, q, f) ==
  /\ ts' = [ts EXCEPT ![t] = Now]
  /\ LET all == q \cup {t}
         trimmed == Trimmed(all, ts')
     IN /\ pq' = all \ trimmed
        /\ Accumulate(trimmed, acc, f, ts')

\* What a TTL sweep may discard: never PTT, never the agenda.
Expirable == {t \in pq : Priority(source[t]) > 0 /\ source[t] # "agenda"}

\* take_owner_prefix behind head t: the front of the queue while it is owner
\* questions, up to the cap; the character cap may end it sooner.
OwnerPrefixes ==
  {S \in SUBSET Owners(pq) : /\ Cardinality(S) + 1 <= BundleMax
                             /\ \A t \in S, u \in pq \ S : Before(ts, t, u)}

\* drop_pending_sources: pending turns of one source, queued or accumulated.
DropPending(src) ==
  LET gone == {t \in pq \cup acc : source[t] = src} IN
  /\ gone # {}
  /\ pq' = pq \ gone /\ acc' = acc \ gone
  /\ fate' = Ended(fate, gone, "discarded")
  /\ UNCHANGED <<source, ts, accAt>>

\* A viewer reaction: motor.enqueue on the aggregator's thread.
EnqueueChat(t) ==
  /\ Arrives(t) /\ source[t] = "chat"
  /\ Enqueue(t, pq, [fate EXCEPT ![t] = "live"])
  /\ UNCHANGED source

\* replace_pending, as the agenda driver calls it: the pending agenda turn is
\* superseded by the new one.
ReplacePending(t) ==
  /\ Arrives(t) /\ source[t] = "agenda"
  /\ LET old == {u \in pq : source[u] = "agenda"} IN
     Enqueue(t, pq \ old, [Ended(fate, old, "discarded") EXCEPT ![t] = "live"])
  /\ UNCHANGED source
=============================================================================
