----------------------------- MODULE Dispatcher -----------------------------
(***************************************************************************)
(* The API dispatcher (api/dispatch.py): a bounded gate in front of the    *)
(* engine's command queue and an idempotency cache for clients that retry. *)
(* A cache entry is named by the turn it acknowledged, so the order of the *)
(* entries is the order of their turns.                                    *)
(***************************************************************************)
EXTENDS TurnScheduler, Sequences

CONSTANTS QueueMax,      \* _QUEUE_FULL_THRESHOLD (16)
          CacheCap       \* _CACHE_CAP (1024)

ASSUME DispatcherAssumption ==
  QueueMax \in Nat /\ CacheCap \in Nat \ {0}

NoKey == 0           \* a dispatch without an idempotency key
Verb == 0            \* a control command in the queue
Boundary == -1       \* SPEECH_BOUNDARY_COMMAND

VARIABLES
  cq,        \* command_queue: turns, verbs, sentinels
  key,       \* the key each turn came with, until its entry expires
  cache      \* _cache: the acknowledged turns whose keys it holds

dispatcher == <<cq, key, cache>>

InitDispatcher ==
  /\ cq = <<>> /\ key = [t \in Turns |-> NoKey]
  /\ cache = {}

\* _prune_expired may find any number of the oldest entries expired; what was
\* acknowledged before them has outlived its TTL too.
Expiries == {S \in SUBSET cache : \A t \in S, u \in cache \ S : t < u}
Forgotten(old) ==
  [t \in Turns |-> IF \E u \in old : t <= u THEN NoKey ELSE key[t]]

\* FIFO eviction at the cap.
Room(held) ==
  IF Cardinality(held) < CacheCap THEN held
  ELSE {t \in held : \E u \in held : u < t}

\* Mutant: only an entry that is no longer the newest is found.
HoldsOlder(k, old) == \E u, v \in cache \ old : u < v /\ key[u] = k

\* The cache, once its expired entries are gone, knows key k.
Holds(k, old) == \E u \in cache \ old : key[u] = k

\* dispatch(): key k is not in what the cache holds and the gate is open; the
\* next turn is put on the queue and its key remembered.  PTT comes without one.
Accept(t, k, old) ==
  /\ Arrives(t) /\ source[t] \in OwnerSources
  /\ (source[t] = "ptt") = (k = NoKey)
  /\ k = NoKey \/ ~Holds(k, old)
  /\ Len(cq) < QueueMax
  /\ cq' = Append(cq, t)
  /\ key' = [Forgotten(old) EXCEPT ![t] = k]
  /\ cache' = IF k = NoKey THEN cache \ old ELSE Room(cache \ old) \cup {t}
  /\ fate' = [fate EXCEPT ![t] = "live"]
  /\ UNCHANGED <<source, ts, pq, acc, accAt>>

\* The key is known: the command is acknowledged again, nothing is queued.  A
\* conflict and a full queue change nothing but the expired entries either.
Replay(k, old) ==
  /\ Holds(k, old)
  /\ cache' = cache \ old /\ key' = Forgotten(old)
  /\ UNCHANGED <<cq, sched>>

\* POST /api/commands with a control verb.
AcceptVerb ==
  /\ Len(cq) < QueueMax
  /\ cq' = Append(cq, Verb)
  /\ UNCHANGED <<key, cache, sched>>

-----------------------------------------------------------------------------

\* A retry is dispatched a second time only if the first acknowledgement has
\* expired or CacheCap newer keys have pushed it out.  (dispatch.py:18 and :63:
\* a legitimate retry must replay, not fire Kira twice.)
NoDoubleFire ==
  \A t, u \in Turns :
    t < u /\ key[t] = key[u] /\ key[t] # NoKey
      => Cardinality({v \in (t + 1)..(u - 1) : key[v] # NoKey}) >= CacheCap
=============================================================================
