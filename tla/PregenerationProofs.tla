------------------------ MODULE PregenerationProofs ------------------------
(***************************************************************************)
(* What the cache's methods preserve, for any texts and any cap on detours.*)
(* A draft in the slot is fresh because a worker whose epoch is current is *)
(* (every commit that outdates it moves the epoch in the same step), and   *)
(* the marker names a worker that has yet to release it.                   *)
(***************************************************************************)
EXTENDS Pregeneration, TLAPS

OneDraft(S) == \A x, y \in S : x = y

\* The cache p and its parts.
HasParts(p, s, m, w, f, d, u, l) ==
  /\ p \in CacheRecord
  /\ p.slot = s /\ p.marker = m /\ p.work = w /\ p.frozen = f
  /\ p.detour = d /\ p.upgrade = u /\ p.llm = l

\* A worker that generates what may still be stored.
Live(job) == job.st = "gen" /\ job.valid

PartsOK(s, m, w, f) ==
  /\ OneDraft(s) /\ OneDraft(f)
  /\ \A i \in Workers : w[i].valid => ~w[i].stale /\ ~w[i].dead
  /\ \A x \in s : x.resumed \/ ~(x.stale \/ x.dead)
  /\ \A x \in s \cup f : x.conn # "alien"
  /\ m # Nobody => w[m].st # "off"
  /\ \A i \in Workers : Live(w[i]) => m = i /\ s = {}

CacheOK(p) == p \in CacheRecord /\ PartsOK(p.slot, p.marker, p.work, p.frozen)

USE PregenerationAssumption

LEMMA PartsTypes ==
  ASSUME NEW p \in CacheRecord
  PROVE  /\ p.slot \in SUBSET Draft /\ p.frozen \in SUBSET Draft
         /\ p.marker \in Workers \cup {Nobody} /\ p.work \in [Workers -> Worker]
         /\ p.detour \in 0..(DetourMax + 1) /\ p.upgrade \in {"off", "own", "alien"}
         /\ p.llm \in BOOLEAN
BY DEF CacheRecord

LEMMA OKParts ==
  ASSUME NEW p, NEW s, NEW m, NEW w, NEW f, NEW d, NEW u, NEW l,
         HasParts(p, s, m, w, f, d, u, l), PartsOK(s, m, w, f)
  PROVE  CacheOK(p)
BY DEF HasParts, CacheOK

-----------------------------------------------------------------------------
(* What is made of drafts and workers. *)

LEMMA DraftWith ==
  ASSUME NEW x \in Draft
  PROVE  /\ \A c \in {"none", "own", "alien"} : [x EXCEPT !.conn = c] \in Draft
         /\ \A b \in BOOLEAN : /\ [x EXCEPT !.resumed = b] \in Draft /\ [x EXCEPT !.stale = b] \in Draft
                               /\ [x EXCEPT !.dead = b] \in Draft
<1>1. \A c \in {"none", "own", "alien"} : [x EXCEPT !.conn = c] \in Draft
  BY DEF Draft
<1>2. \A b \in BOOLEAN : [x EXCEPT !.resumed = b] \in Draft
  BY DEF Draft
<1>3. \A b \in BOOLEAN : [x EXCEPT !.stale = b] \in Draft
  BY DEF Draft
<1>4. \A b \in BOOLEAN : [x EXCEPT !.dead = b] \in Draft
  BY DEF Draft
<1> QED BY <1>1, <1>2, <1>3, <1>4

\* Marks made on the drafts of a set.
Stale(S) == {[x EXCEPT !.stale = TRUE] : x \in S}
Dead(S) == {[x EXCEPT !.dead = TRUE] : x \in S}
Resumed(S) == {[x EXCEPT !.resumed = TRUE] : x \in S}
With(S, c) == {[x EXCEPT !.conn = c] : x \in S}
StaleWork(w) == [i \in Workers |-> [w[i] EXCEPT !.stale = TRUE]]
DeadWork(w) == [i \in Workers |-> [w[i] EXCEPT !.dead = TRUE]]

LEMMA MarkedDrafts ==
  ASSUME NEW S \in SUBSET Draft
  PROVE  /\ Stale(S) \in SUBSET Draft /\ Dead(S) \in SUBSET Draft /\ Resumed(S) \in SUBSET Draft
         /\ With(S, "none") \in SUBSET Draft /\ With(S, "own") \in SUBSET Draft
         /\ OneDraft(S) => /\ OneDraft(Stale(S)) /\ OneDraft(Dead(S)) /\ OneDraft(Resumed(S))
                           /\ OneDraft(With(S, "none")) /\ OneDraft(With(S, "own"))
         /\ \A x \in Resumed(S) : x.resumed
         /\ \A x \in With(S, "none") \cup With(S, "own") : x.conn # "alien"
<1>1. Stale(S) \in SUBSET Draft /\ Dead(S) \in SUBSET Draft /\ Resumed(S) \in SUBSET Draft
  BY DraftWith DEF Stale, Dead, Resumed
<1>2. With(S, "none") \in SUBSET Draft /\ With(S, "own") \in SUBSET Draft
  BY DraftWith DEF With
<1>3. OneDraft(S) => OneDraft(Stale(S)) /\ OneDraft(Dead(S)) /\ OneDraft(Resumed(S))
  BY DEF OneDraft, Stale, Dead, Resumed
<1>4. OneDraft(S) => OneDraft(With(S, "none")) /\ OneDraft(With(S, "own"))
  BY DEF OneDraft, With
<1>5. \A x \in Resumed(S) : x.resumed
  BY DEF Resumed, Draft
<1>6. \A x \in With(S, "none") \cup With(S, "own") : x.conn # "alien"
  BY DEF With, Draft
<1> QED BY <1>1, <1>2, <1>3, <1>4, <1>5, <1>6

LEMMA MarkedKeepConn ==
  ASSUME NEW S \in SUBSET Draft, \A x \in S : x.conn # "alien"
  PROVE  \A x \in Stale(S) \cup Dead(S) \cup Resumed(S) : x.conn # "alien"
BY DEF Stale, Dead, Resumed, Draft

LEMMA MarkedWork ==
  ASSUME NEW w \in [Workers -> Worker]
  PROVE  /\ Bumped(w) \in [Workers -> Worker] /\ StaleWork(w) \in [Workers -> Worker]
         /\ DeadWork(w) \in [Workers -> Worker]
         /\ \A i \in Workers : /\ ~Bumped(w)[i].valid /\ Bumped(w)[i].st = w[i].st
                               /\ Bumped(w)[i].text = w[i].text
                               /\ StaleWork(w)[i].st = w[i].st /\ StaleWork(w)[i].valid = w[i].valid
                               /\ DeadWork(w)[i].st = w[i].st /\ DeadWork(w)[i].valid = w[i].valid
<1>1. Bumped(w) \in [Workers -> Worker]
  BY DEF Bumped, Worker
<1>2. StaleWork(w) \in [Workers -> Worker]
  BY DEF StaleWork, Worker
<1>3. DeadWork(w) \in [Workers -> Worker]
  BY DEF DeadWork, Worker
<1>4. \A i \in Workers : ~Bumped(w)[i].valid /\ Bumped(w)[i].st = w[i].st /\ Bumped(w)[i].text = w[i].text
  BY DEF Bumped, Worker
<1>5. \A i \in Workers : StaleWork(w)[i].st = w[i].st /\ StaleWork(w)[i].valid = w[i].valid
  BY DEF StaleWork, Worker
<1>6. \A i \in Workers : DeadWork(w)[i].st = w[i].st /\ DeadWork(w)[i].valid = w[i].valid
  BY DEF DeadWork, Worker
<1> QED BY <1>1, <1>2, <1>3, <1>4, <1>5, <1>6

-----------------------------------------------------------------------------
(* The epoch and the slot. *)

LEMMA ClearedParts ==
  ASSUME NEW p \in CacheRecord
  PROVE  HasParts(Cleared(p), {}, p.marker, Bumped(p.work), p.frozen, p.detour, p.upgrade, p.llm)
BY MarkedWork, PartsTypes DEF Cleared, HasParts, CacheRecord

LEMMA ClearedOK ==
  ASSUME NEW p, CacheOK(p)
  PROVE  CacheOK(Cleared(p))
<1>1. PartsOK({}, p.marker, Bumped(p.work), p.frozen)
  BY MarkedWork, PartsTypes DEF CacheOK, PartsOK, OneDraft, Live
<1> QED BY <1>1, ClearedParts, OKParts DEF CacheOK

LEMMA CommittedParts ==
  ASSUME NEW p \in CacheRecord
  PROVE  HasParts(Committed(p), {}, p.marker, StaleWork(Bumped(p.work)), Stale(p.frozen), p.detour,
                  p.upgrade, p.llm)
<1> DEFINE c == Cleared(p)
<1>1. HasParts(c, {}, p.marker, Bumped(p.work), p.frozen, p.detour, p.upgrade, p.llm)
  BY ClearedParts
<1>2. Committed(p) = [c EXCEPT !.work = StaleWork(@), !.frozen = Stale(@)]
  BY DEF Committed, StaleWork, Stale
<1> HIDE DEF c
<1>3. c.work \in [Workers -> Worker] /\ c.frozen \in SUBSET Draft
  BY <1>1, PartsTypes DEF HasParts
<1>4. StaleWork(c.work) \in [Workers -> Worker] /\ Stale(c.frozen) \in SUBSET Draft
  BY <1>3, MarkedWork, MarkedDrafts
<1> QED BY <1>1, <1>2, <1>4 DEF HasParts, CacheRecord

LEMMA CommittedOK ==
  ASSUME NEW p, CacheOK(p)
  PROVE  CacheOK(Committed(p))
<1>1. PartsOK({}, p.marker, StaleWork(Bumped(p.work)), Stale(p.frozen))
  <2>1. /\ p.work \in [Workers -> Worker] /\ p.frozen \in SUBSET Draft
        /\ p.marker \in Workers \cup {Nobody}
    BY PartsTypes DEF CacheOK
  <2>2. \A i \in Workers : /\ ~StaleWork(Bumped(p.work))[i].valid
                           /\ StaleWork(Bumped(p.work))[i].st = p.work[i].st
    BY <2>1, MarkedWork
  <2>3. OneDraft(Stale(p.frozen)) /\ \A x \in Stale(p.frozen) : x.conn # "alien"
    BY <2>1, MarkedDrafts, MarkedKeepConn DEF CacheOK, PartsOK, Live
  <2> QED BY <2>1, <2>2, <2>3 DEF CacheOK, PartsOK, OneDraft, Live
<1> QED BY <1>1, CommittedParts, OKParts DEF CacheOK

LEMMA TakenParts ==
  ASSUME NEW p \in CacheRecord
  PROVE  HasParts(Taken(p), {}, p.marker, p.work, p.frozen, p.detour, p.upgrade, p.llm)
BY DEF Taken, HasParts, CacheRecord

LEMMA TakenOK ==
  ASSUME NEW p, CacheOK(p)
  PROVE  CacheOK(Taken(p))
<1>1. PartsOK({}, p.marker, p.work, p.frozen)
  BY DEF CacheOK, PartsOK, OneDraft, Live
<1> QED BY <1>1, TakenParts, OKParts DEF CacheOK

\* Clearing on a condition is clearing, moving the epoch on, or nothing.
EpochMoved(p) == [p EXCEPT !.work = Bumped(@)]

LEMMA EpochMovedOK ==
  ASSUME NEW p, CacheOK(p)
  PROVE  /\ CacheOK(EpochMoved(p))
         /\ HasParts(EpochMoved(p), p.slot, p.marker, Bumped(p.work), p.frozen, p.detour, p.upgrade, p.llm)
<1>1. p.work \in [Workers -> Worker] /\ p.marker \in Workers \cup {Nobody}
  BY PartsTypes DEF CacheOK
<1>2. HasParts(EpochMoved(p), p.slot, p.marker, Bumped(p.work), p.frozen, p.detour, p.upgrade, p.llm)
  BY <1>1, MarkedWork DEF EpochMoved, HasParts, CacheRecord, CacheOK
<1>3. PartsOK(p.slot, p.marker, Bumped(p.work), p.frozen)
  BY <1>1, MarkedWork DEF CacheOK, PartsOK, Live
<1> QED BY <1>2, <1>3, OKParts

LEMMA ClearingCases ==
  ASSUME NEW p
  PROVE  /\ \A x : ClearedUnless(p, x) \in {p, Cleared(p)}
         /\ \A xs : ClearedFor(p, xs) \in {p, Cleared(p)}
         /\ ClearedAgenda(p) \in {p, Cleared(p), EpochMoved(p)}
BY DEF ClearedUnless, ClearedFor, ClearedAgenda, EpochMoved

-----------------------------------------------------------------------------
(* The frozen stash. *)

LEMMA FrozenParts ==
  ASSUME NEW p \in CacheRecord
  PROVE  HasParts(Frozen(p), {}, p.marker, p.work, With(p.slot, "none"), 0, p.upgrade, p.llm)
<1>1. With(p.slot, "none") \in SUBSET Draft /\ 0 \in 0..(DetourMax + 1)
  BY PartsTypes, MarkedDrafts
<1>2. Frozen(p) = [p EXCEPT !.frozen = With(p.slot, "none"), !.slot = {}, !.detour = 0]
  BY DEF Frozen, With
<1> QED BY <1>1, <1>2 DEF HasParts, CacheRecord

LEMMA FrozenOK ==
  ASSUME NEW p, CacheOK(p)
  PROVE  CacheOK(Frozen(p))
<1>1. PartsOK({}, p.marker, p.work, With(p.slot, "none"))
  BY PartsTypes, MarkedDrafts DEF CacheOK, PartsOK, OneDraft, Live
<1> QED BY <1>1, FrozenParts, OKParts DEF CacheOK

LEMMA DiscardedParts ==
  ASSUME NEW p \in CacheRecord
  PROVE  HasParts(Discarded(p), p.slot, p.marker, p.work, {}, 0, Unowned(p.upgrade), p.llm)
<1>1. Unowned(p.upgrade) \in {"off", "own", "alien"} /\ 0 \in 0..(DetourMax + 1)
  BY PartsTypes DEF Unowned
<1> QED BY <1>1 DEF Discarded, HasParts, CacheRecord

LEMMA DiscardedOK ==
  ASSUME NEW p, CacheOK(p)
  PROVE  CacheOK(Discarded(p))
<1>1. PartsOK(p.slot, p.marker, p.work, {})
  BY DEF CacheOK, PartsOK, OneDraft, Live
<1> QED BY <1>1, DiscardedParts, OKParts DEF CacheOK

LEMMA RestoredParts ==
  ASSUME NEW p \in CacheRecord
  PROVE  HasParts(Restored(p), Resumed(p.frozen), p.marker, Bumped(p.work), {}, 0,
                  Unowned(p.upgrade), p.llm)
<1>1. /\ Unowned(p.upgrade) \in {"off", "own", "alien"} /\ 0 \in 0..(DetourMax + 1)
      /\ Resumed(p.frozen) \in SUBSET Draft /\ Bumped(p.work) \in [Workers -> Worker]
  BY PartsTypes, MarkedDrafts, MarkedWork DEF Unowned
<1>2. Restored(p) = [p EXCEPT !.slot = Resumed(p.frozen), !.frozen = {}, !.detour = 0,
                              !.upgrade = Unowned(@), !.work = Bumped(@)]
  BY DEF Restored, Resumed
<1> QED BY <1>1, <1>2 DEF HasParts, CacheRecord

LEMMA RestoredOK ==
  ASSUME NEW p, CacheOK(p)
  PROVE  CacheOK(Restored(p))
<1>1. PartsOK(Resumed(p.frozen), p.marker, Bumped(p.work), {})
  <2>1. /\ p.work \in [Workers -> Worker] /\ p.frozen \in SUBSET Draft
        /\ p.marker \in Workers \cup {Nobody}
    BY PartsTypes DEF CacheOK
  <2>2. /\ OneDraft(Resumed(p.frozen)) /\ \A x \in Resumed(p.frozen) : x.conn # "alien" /\ x.resumed
    BY <2>1, MarkedDrafts, MarkedKeepConn DEF CacheOK, PartsOK, Live
  <2> QED BY <2>1, <2>2, MarkedWork DEF CacheOK, PartsOK, OneDraft, Live
<1> QED BY <1>1, RestoredParts, OKParts DEF CacheOK

LEMMA NotedOK ==
  ASSUME NEW p, CacheOK(p), NEW x
  PROVE  /\ CacheOK(Noted(p, x))
         /\ Noted(p, x).slot = p.slot /\ Noted(p, x).frozen = p.frozen /\ Noted(p, x).work = p.work
         /\ Noted(p, x).marker = p.marker
<1>1. CASE p.frozen # {} /\ Asked(x) /\ p.detour <= DetourMax
  <2>1. p.detour + 1 \in 0..(DetourMax + 1)
    BY <1>1, PartsTypes DEF CacheOK
  <2>2. HasParts(Noted(p, x), p.slot, p.marker, p.work, p.frozen, p.detour + 1, p.upgrade, p.llm)
    BY <1>1, <2>1 DEF Noted, HasParts, CacheRecord, CacheOK
  <2> QED BY <2>2, OKParts DEF CacheOK, HasParts
<1>2. CASE ~(p.frozen # {} /\ Asked(x) /\ p.detour <= DetourMax)
  BY <1>2 DEF Noted
<1> QED BY <1>1, <1>2

LEMMA ModelOK ==
  ASSUME NEW p, CacheOK(p), NEW b \in BOOLEAN
  PROVE  /\ CacheOK([p EXCEPT !.llm = b])
         /\ HasParts([p EXCEPT !.llm = b], p.slot, p.marker, p.work, p.frozen, p.detour, p.upgrade, b)
<1>1. HasParts([p EXCEPT !.llm = b], p.slot, p.marker, p.work, p.frozen, p.detour, p.upgrade, b)
  BY DEF HasParts, CacheRecord, CacheOK
<1> QED BY <1>1, OKParts DEF CacheOK

LEMMA UpgradeOK ==
  ASSUME NEW p, CacheOK(p)
  PROVE  /\ CacheOK([p EXCEPT !.upgrade = "own", !.llm = TRUE])
         /\ HasParts([p EXCEPT !.upgrade = "own", !.llm = TRUE],
                     p.slot, p.marker, p.work, p.frozen, p.detour, "own", TRUE)
<1>1. HasParts([p EXCEPT !.upgrade = "own", !.llm = TRUE],
               p.slot, p.marker, p.work, p.frozen, p.detour, "own", TRUE)
  BY DEF HasParts, CacheRecord, CacheOK
<1> QED BY <1>1, OKParts DEF CacheOK

\* Some draft of the set was made before the persona changed or the session stopped.
SomeDead(S) == \E x \in S : x.dead

LEMMA MarkedDead ==
  ASSUME NEW S \in SUBSET Draft
  PROVE  \A T \in {Stale(S), Resumed(S), With(S, "none")} : SomeDead(T) => SomeDead(S)
<1>1. SomeDead(Stale(S)) => SomeDead(S)
  BY DEF Stale, SomeDead, Draft
<1>2. SomeDead(Resumed(S)) => SomeDead(S)
  BY DEF Resumed, SomeDead, Draft
<1>3. SomeDead(With(S, "none")) => SomeDead(S)
  BY DEF With, SomeDead, Draft
<1> QED BY <1>1, <1>2, <1>3

\* A connector is stamped on the stash it was made for, or on none.
Stamped(p, line) ==
  {IF line /\ p.upgrade = "own" /\ d.conn = "none" THEN [d EXCEPT !.conn = "own"] ELSE d : d \in p.frozen}

LEMMA UpgradeLandedOK ==
  ASSUME NEW p, CacheOK(p), NEW line \in BOOLEAN
  PROVE  /\ CacheOK(UpgradeLanded(p, line))
         /\ UpgradeLanded(p, line).slot = p.slot
         /\ SomeDead(UpgradeLanded(p, line).frozen) => SomeDead(p.frozen)
<1> DEFINE F == Stamped(p, line)
<1>1. p.frozen \in SUBSET Draft
  BY PartsTypes DEF CacheOK
<1>2. F \in SUBSET Draft
  BY <1>1, DraftWith DEF Stamped
<1>3. OneDraft(F)
  BY DEF Stamped, CacheOK, PartsOK, OneDraft
<1>4. \A x \in F : x.conn # "alien"
  BY <1>1 DEF Stamped, CacheOK, PartsOK, Draft
<1>5. SomeDead(F) => SomeDead(p.frozen)
  BY <1>1 DEF Stamped, SomeDead, Draft
<1>6. UpgradeLanded(p, line) = [p EXCEPT !.upgrade = "off", !.llm = FALSE, !.frozen = F]
  BY DEF UpgradeLanded, Stamped
<1> HIDE DEF F
<1>7. HasParts(UpgradeLanded(p, line), p.slot, p.marker, p.work, F, p.detour, "off", FALSE)
  BY <1>2, <1>6 DEF HasParts, CacheRecord, CacheOK
<1>8. PartsOK(p.slot, p.marker, p.work, F)
  BY <1>3, <1>4 DEF CacheOK, PartsOK, Live
<1> QED BY <1>5, <1>7, <1>8, OKParts DEF HasParts

-----------------------------------------------------------------------------
(* The workers. *)

LEMMA DisplacedOK ==
  ASSUME NEW p, CacheOK(p)
  PROVE  /\ CacheOK(Displaced(p))
         /\ Displaced(p).slot = {} /\ Displaced(p).marker = p.marker
         /\ \A i \in Workers : Displaced(p).work[i].st = p.work[i].st
         /\ SomeDead(Displaced(p).frozen) => SomeDead(p.slot) \/ SomeDead(p.frozen)
         /\ \A i \in Workers : Live(Displaced(p).work[i]) => Live(p.work[i])
<1>0. p \in CacheRecord /\ p.slot \in SUBSET Draft /\ p.work \in [Workers -> Worker]
  BY PartsTypes DEF CacheOK
<1>1. CASE p.slot = {}
  BY <1>1 DEF Displaced
<1>2. CASE p.slot # {} /\ p.frozen = {}
  <2>1. Displaced(p) = Frozen(p)
    BY <1>2 DEF Displaced
  <2>2. /\ Frozen(p).slot = {} /\ Frozen(p).marker = p.marker /\ Frozen(p).work = p.work
        /\ Frozen(p).frozen = With(p.slot, "none")
    BY <1>0, FrozenParts DEF HasParts
  <2>3. SomeDead(With(p.slot, "none")) => SomeDead(p.slot)
    BY <1>0, MarkedDead
  <2> QED BY <2>1, <2>2, <2>3, FrozenOK
<1>3. CASE p.slot # {} /\ p.frozen # {}
  <2>1. Displaced(p) = Cleared(p)
    BY <1>3 DEF Displaced
  <2>2. /\ Cleared(p).slot = {} /\ Cleared(p).marker = p.marker /\ Cleared(p).work = Bumped(p.work)
        /\ Cleared(p).frozen = p.frozen
    BY <1>0, ClearedParts DEF HasParts
  <2>3. \A i \in Workers : Bumped(p.work)[i].st = p.work[i].st /\ ~Live(Bumped(p.work)[i])
    BY <1>0, MarkedWork DEF Live
  <2> QED BY <2>1, <2>2, <2>3, ClearedOK
<1> QED BY <1>1, <1>2, <1>3

Job(text) == [st |-> "gen", text |-> text, valid |-> TRUE, stale |-> FALSE, dead |-> FALSE]

\* A draft is only displaced, and the slot only found free, when no live worker is left.
LEMMA NoneLiveAtSpawn ==
  ASSUME NEW p, CacheOK(p), NEW text, MaySpawn(p, text)
  PROVE  \A i \in Workers : ~Live(Displaced(p).work[i])
<1>1. \A i \in Workers : Live(p.work[i]) => p.marker = i /\ p.slot = {}
  BY DEF CacheOK, PartsOK
<1>2. \A i \in Workers : ~Live(p.work[i])
  BY <1>1 DEF MaySpawn, Workers, Nobody
<1> QED BY <1>2, DisplacedOK

LEMMA SpawnedOK ==
  ASSUME NEW p, CacheOK(p), NEW text \in Texts, \E w \in Workers : p.work[w].st = "off",
         MaySpawn(p, text)
  PROVE  /\ CacheOK(Spawned(p, text))
         /\ Spawned(p, text).slot = {}
         /\ SomeDead(Spawned(p, text).frozen) => SomeDead(p.slot) \/ SomeDead(p.frozen)
<1> DEFINE w == FreeWorker(p)
           q == Displaced(p)
           W == [q.work EXCEPT ![w] = Job(text)]
<1>1. w \in Workers
  BY DEF FreeWorker
<1>2. Spawned(p, text) = [q EXCEPT !.marker = w, !.llm = TRUE, !.work[w] = Job(text)]
  BY DEF Spawned, Job
<1>3. /\ CacheOK(q) /\ q.slot = {}
      /\ SomeDead(q.frozen) => SomeDead(p.slot) \/ SomeDead(p.frozen)
  BY DisplacedOK
<1> HIDE DEF w, q
<1>4. Job(text) \in Worker
  BY DEF Job, Worker
<1>5. q \in CacheRecord /\ q.work \in [Workers -> Worker]
  BY <1>3, PartsTypes DEF CacheOK
<1>6. W \in [Workers -> Worker]
  BY <1>1, <1>4, <1>5
<1>7. Spawned(p, text) = [q EXCEPT !.marker = w, !.llm = TRUE, !.work = W]
  BY <1>2, <1>5 DEF CacheRecord
<1>8. PartsOK({}, w, W, q.frozen)
  <2>1. \A i \in Workers : W[i].valid => ~W[i].stale /\ ~W[i].dead
    BY <1>1, <1>3, <1>5 DEF CacheOK, PartsOK, Job
  <2>2. W[w].st # "off"
    BY <1>1, <1>5 DEF Job
  <2>3. \A i \in Workers : Live(W[i]) => i = w
    BY <1>1, <1>5, NoneLiveAtSpawn DEF q
  <2> QED BY <1>3, <2>1, <2>2, <2>3 DEF CacheOK, PartsOK, OneDraft, Live
<1> HIDE DEF W
<1>9. HasParts(Spawned(p, text), {}, w, W, q.frozen, q.detour, q.upgrade, TRUE)
  BY <1>1, <1>3, <1>5, <1>6, <1>7 DEF HasParts, CacheRecord
<1> QED BY <1>3, <1>8, <1>9, OKParts DEF HasParts

LEMMA SpawnFailedOK ==
  ASSUME NEW p, CacheOK(p), NEW text, MaySpawn(p, text)
  PROVE  /\ CacheOK(SpawnFailed(p))
         /\ SpawnFailed(p).slot = {}
         /\ SomeDead(SpawnFailed(p).frozen) => SomeDead(p.slot) \/ SomeDead(p.frozen)
<1> DEFINE q == Displaced(p)
<1>1. SpawnFailed(p) = [q EXCEPT !.marker = Nobody]
  BY DEF SpawnFailed
<1>2. /\ CacheOK(q) /\ q.slot = {}
      /\ SomeDead(q.frozen) => SomeDead(p.slot) \/ SomeDead(p.frozen)
  BY DisplacedOK
<1>0. \A i \in Workers : ~Live(q.work[i])
  BY NoneLiveAtSpawn
<1> HIDE DEF q
<1>3. HasParts(SpawnFailed(p), {}, Nobody, q.work, q.frozen, q.detour, q.upgrade, q.llm)
  BY <1>1, <1>2 DEF HasParts, CacheRecord, CacheOK
<1>4. PartsOK({}, Nobody, q.work, q.frozen)
  BY <1>0, <1>2 DEF CacheOK, PartsOK, OneDraft, Live
<1> QED BY <1>2, <1>3, <1>4, OKParts DEF HasParts

\* What a worker stores is fresh, however late it ends.
LEMMA LandedOK ==
  ASSUME NEW p, CacheOK(p), NEW w \in Workers, p.work[w].st = "gen", NEW made \in BOOLEAN
  PROVE  /\ CacheOK(Landed(p, w, made))
         /\ Landed(p, w, made).frozen = p.frozen
         /\ SomeDead(Landed(p, w, made).slot) => SomeDead(p.slot)
<1> DEFINE j == p.work[w]
           S == IF made /\ j.valid THEN {Made(j)} ELSE p.slot
           k == [j EXCEPT !.st = "landed"]
           W == [p.work EXCEPT ![w] = k]
<1>1. p \in CacheRecord /\ p.work \in [Workers -> Worker] /\ p.slot \in SUBSET Draft
  BY PartsTypes DEF CacheOK
<1>2. j \in Worker /\ (j.valid => ~j.stale /\ ~j.dead)
  BY <1>1 DEF CacheOK, PartsOK, Live
<1>3. k \in Worker /\ k.st = "landed" /\ k.valid = j.valid /\ k.stale = j.stale /\ k.dead = j.dead
  BY <1>2 DEF Worker
<1>4. Made(j) \in Draft /\ ~Made(j).resumed /\ Made(j).conn = "none"
      /\ Made(j).stale = j.stale /\ Made(j).dead = j.dead
  BY <1>2 DEF Made, Draft, Worker
<1>5. Landed(p, w, made) = [p EXCEPT !.llm = FALSE, !.work = W, !.slot = S]
  BY <1>1 DEF Landed, CacheRecord
<1> HIDE DEF k, j
<1>6. W \in [Workers -> Worker] /\ S \in SUBSET Draft
  BY <1>1, <1>3, <1>4
<1>7. PartsOK(S, p.marker, W, p.frozen)
  <2>1. \A i \in Workers : W[i].valid => ~W[i].stale /\ ~W[i].dead
    BY <1>1, <1>2, <1>3 DEF CacheOK, PartsOK, Live
  <2>2. p.marker # Nobody => W[p.marker].st # "off"
    BY <1>1, <1>3 DEF CacheOK, PartsOK, Live
  <2>3. OneDraft(S) /\ \A x \in S : x.resumed \/ ~(x.stale \/ x.dead)
    BY <1>2, <1>4 DEF CacheOK, PartsOK, OneDraft, Live
  <2>4. \A x \in S \cup p.frozen : x.conn # "alien"
    BY <1>4 DEF CacheOK, PartsOK, Live
  <2>5. \A i \in Workers : Live(W[i]) => i # w /\ Live(p.work[i])
    BY <1>1, <1>3 DEF Live
  <2>6. \A i \in Workers : Live(W[i]) => p.marker = i /\ S = {}
    BY <1>2, <2>5 DEF CacheOK, PartsOK, Live, j
  <2> QED BY <2>1, <2>2, <2>3, <2>4, <2>6 DEF CacheOK, PartsOK
<1>8. SomeDead(S) => SomeDead(p.slot)
  BY <1>2, <1>4 DEF SomeDead
<1> HIDE DEF S, W
<1>9. HasParts(Landed(p, w, made), S, p.marker, W, p.frozen, p.detour, p.upgrade, FALSE)
  BY <1>1, <1>5, <1>6 DEF HasParts, CacheRecord
<1> QED BY <1>7, <1>8, <1>9, OKParts DEF HasParts

LEMMA ReleasedOK ==
  ASSUME NEW p, CacheOK(p), NEW w \in Workers
  PROVE  /\ CacheOK(Released(p, w))
         /\ Released(p, w).slot = p.slot /\ Released(p, w).frozen = p.frozen
<1> DEFINE m == IF p.marker = w THEN Nobody ELSE p.marker
           W == [p.work EXCEPT ![w] = Idle]
<1>1. p \in CacheRecord /\ p.work \in [Workers -> Worker] /\ p.marker \in Workers \cup {Nobody}
  BY PartsTypes DEF CacheOK
<1>2. Idle \in Worker
  BY DEF Idle, Worker
<1>3. Released(p, w) = [p EXCEPT !.work = W, !.marker = m]
  BY <1>1 DEF Released, CacheRecord
<1>4. W \in [Workers -> Worker] /\ m \in Workers \cup {Nobody}
  BY <1>1, <1>2
<1>5. PartsOK(p.slot, m, W, p.frozen)
  <2>1. \A i \in Workers : W[i].valid => ~W[i].stale /\ ~W[i].dead
    BY <1>1 DEF CacheOK, PartsOK, Idle
  <2>2. m # Nobody => W[m].st # "off"
    BY <1>1 DEF CacheOK, PartsOK
  <2>3. \A i \in Workers : Live(W[i]) => m = i /\ p.slot = {}
    <3>1. \A i \in Workers : Live(W[i]) => i # w /\ Live(p.work[i])
      BY <1>1 DEF Live, Idle
    <3> QED BY <3>1 DEF CacheOK, PartsOK
  <2> QED BY <2>1, <2>2, <2>3 DEF CacheOK, PartsOK
<1> HIDE DEF W, m
<1>6. HasParts(Released(p, w), p.slot, m, W, p.frozen, p.detour, p.upgrade, p.llm)
  BY <1>1, <1>3, <1>4 DEF HasParts, CacheRecord
<1> QED BY <1>5, <1>6, OKParts DEF HasParts

\* A change of persona or a stop clears what it outdates, but for the stash.
LEMMA OutdatedOK ==
  ASSUME NEW p, CacheOK(p)
  PROVE  CacheOK(Cleared(Outdated(p))) /\ Cleared(Outdated(p)).slot = {}
<1> DEFINE q == Outdated(p)
<1>0. /\ p \in CacheRecord /\ p.work \in [Workers -> Worker] /\ p.marker \in Workers \cup {Nobody}
      /\ p.slot \in SUBSET Draft /\ p.frozen \in SUBSET Draft
  BY PartsTypes DEF CacheOK
<1>1. q = [p EXCEPT !.work = DeadWork(@), !.slot = Dead(@), !.frozen = Dead(@)]
  BY DEF Outdated, DeadWork, Dead
<1>2. /\ DeadWork(p.work) \in [Workers -> Worker] /\ Dead(p.slot) \in SUBSET Draft
      /\ Dead(p.frozen) \in SUBSET Draft
  BY <1>0, MarkedDrafts, MarkedWork
<1> HIDE DEF q
<1>3. HasParts(q, Dead(p.slot), p.marker, DeadWork(p.work), Dead(p.frozen), p.detour, p.upgrade, p.llm)
  BY <1>0, <1>1, <1>2 DEF HasParts, CacheRecord
<1>4. HasParts(Cleared(q), {}, p.marker, Bumped(DeadWork(p.work)), Dead(p.frozen), p.detour, p.upgrade, p.llm)
  BY <1>3, ClearedParts DEF HasParts
<1>5. PartsOK({}, p.marker, Bumped(DeadWork(p.work)), Dead(p.frozen))
  <2>1. \A i \in Workers : /\ ~Bumped(DeadWork(p.work))[i].valid
                           /\ Bumped(DeadWork(p.work))[i].st = p.work[i].st
    BY <1>0, <1>2, MarkedWork
  <2>2. OneDraft(Dead(p.frozen)) /\ \A x \in Dead(p.frozen) : x.conn # "alien"
    BY <1>0, MarkedDrafts, MarkedKeepConn DEF CacheOK, PartsOK, Live
  <2> QED BY <1>0, <2>1, <2>2 DEF CacheOK, PartsOK, OneDraft, Live
<1> QED BY <1>4, <1>5, OKParts DEF HasParts, q
=============================================================================
