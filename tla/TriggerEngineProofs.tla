------------------------- MODULE TriggerEngineProofs -------------------------
(***************************************************************************)
(* Proofs about TriggerEngine, for every set of keys and severities, every *)
(* timing and every bound.                                                 *)
(***************************************************************************)
EXTENDS TriggerEngine, TLAPS

-----------------------------------------------------------------------------
(* Type correctness.                                                       *)

\* A fresh alert is well formed.
LEMMA NewAlertType ==
  ASSUME TypeOK, NEW k \in Keys, NEW s \in Severities, nextId <= MaxAlerts
  PROVE  NewAlert(k, s) \in Alert
BY BoundsAssumption, DataAssumption
   DEF TypeOK, NewAlert, Alert, AlertIds, States, Times, Never

\* Folding an occurrence in keeps an alert well formed below the hit bound.
LEMMA MergeType ==
  ASSUME TypeOK, NEW a \in Alert, NEW s \in Severities, a.hits < MaxHits
  PROVE  Merge(a, s) \in Alert
<1>1. /\ a.hits + 1 \in 1..MaxHits
      /\ now \in Times
      /\ (IF s > a.sev THEN s ELSE a.sev) \in Severities
  BY BoundsAssumption, DataAssumption DEF TypeOK, Alert
<1>2. Merge(a, s) = [a EXCEPT !.hits = a.hits + 1, !.last = now,
                              !.sev = IF s > a.sev THEN s ELSE a.sev]
  BY DEF Merge
<1>. QED  BY <1>1, <1>2 DEF Alert

\* The other edits of an alert keep it well formed and keep its hits.
LEMMA EditType ==
  ASSUME TypeOK, NEW a \in Alert, NEW v \in Verdicts
  PROVE  /\ Reactivated(a) \in Alert /\ Reactivated(a).hits = a.hits
         /\ Confirmed(a) \in Alert
         /\ Resolved(a) \in Alert
         /\ Suppressed(a) \in Alert
         /\ Unsuppressed(a) \in Alert
         /\ Judged(a, v) \in Alert
BY DEF TypeOK, Reactivated, Confirmed, Resolved, Suppressed, Unsuppressed, Judged,
       Alert, AlertIds, States, Times, Never

\* What the cache serves is an alert or nothing.
LEMMA CachedType ==
  ASSUME TypeOK, NEW k \in Keys
  PROVE  /\ Cached(k) \in Alert \cup {NoAlert}
         /\ Cached(k) # NoAlert => Cached(k) = cache[k] /\ Cached(k) \in Alert
BY DEF TypeOK, Cached

\* Saving a well-formed alert keeps the four saved variables well formed.
LEMMA SaveType ==
  ASSUME TypeOK, NEW k \in Keys, NEW a \in Alert, NEW tell \in BOOLEAN, NEW ok \in BOOLEAN,
         Save(k, a, tell, ok)
  PROVE  /\ cache' \in [Keys -> Alert \cup {NoAlert}]
         /\ expires' \in [Keys -> 0..(MaxTime + CacheTTL)]
         /\ store' \in [AlertIds -> Alert \cup {NoAlert}]
         /\ told' \in [AlertIds -> States \cup {NoAlert}]
<1>1. cache' \in [Keys -> Alert \cup {NoAlert}]
  BY DEF TypeOK, Save
<1>2. now + CacheTTL \in 0..(MaxTime + CacheTTL)
  BY TimingAssumption, BoundsAssumption DEF TypeOK, Times
<1>3. expires' \in [Keys -> 0..(MaxTime + CacheTTL)]
  BY <1>2 DEF TypeOK, Save
<1>4. store' \in [AlertIds -> Alert \cup {NoAlert}]
  BY DEF TypeOK, Save
<1>5. a.state \in States
  BY DEF Alert
<1>6. told' \in [AlertIds -> States \cup {NoAlert}]
  BY <1>5 DEF TypeOK, Save
<1>. QED  BY <1>1, <1>3, <1>4, <1>6

LEMMA SinkOutcomesType == SinkOutcomes \subseteq BOOLEAN
BY DEF SinkOutcomes

LEMMA ProcessType ==
  ASSUME TypeOK, NEW k \in Keys, NEW s \in Severities, Process(k, s)
  PROVE  TypeOK'
<1>1. PICK ok \in SinkOutcomes : \/ Create(k, s, ok)
                                 \/ MergeSuppressed(k, s, ok)
                                 \/ Reactivate(k, s, ok)
                                 \/ MergeDuplicate(k, s, ok)
                                 \/ MergeConfirm(k, s, ok)
  BY DEF Process
<1>2. ok \in BOOLEAN
  BY SinkOutcomesType
<1>. DEFINE SaveOK == /\ cache' \in [Keys -> Alert \cup {NoAlert}]
                      /\ expires' \in [Keys -> 0..(MaxTime + CacheTTL)]
                      /\ store' \in [AlertIds -> Alert \cup {NoAlert}]
                      /\ told' \in [AlertIds -> States \cup {NoAlert}]
<1>3. SaveOK /\ nextId' \in 1..(MaxAlerts + 1)
  <2>1. CASE Create(k, s, ok)
    <3>1. NewAlert(k, s) \in Alert
      BY <2>1, NewAlertType DEF Create
    <3>2. SaveOK
      BY <3>1, <2>1, <1>2, SaveType DEF Create
    <3>3. nextId' \in 1..(MaxAlerts + 1)
      BY <2>1, BoundsAssumption DEF Create, TypeOK
    <3>. QED  BY <3>2, <3>3
  <2>2. ASSUME Cached(k) # NoAlert
        PROVE  /\ Cached(k) \in Alert
               /\ Merge(Cached(k), s) \in Alert
               /\ Merge(Reactivated(Cached(k)), s) \in Alert
               /\ Confirmed(Merge(Cached(k), s)) \in Alert
    <3>1. Cached(k) \in Alert /\ Cached(k).hits < MaxHits
      BY <2>2, CachedType DEF Process
    <3>2. Merge(Cached(k), s) \in Alert
      BY <3>1, MergeType
    <3>3. Reactivated(Cached(k)) \in Alert /\ Reactivated(Cached(k)).hits < MaxHits
      BY <3>1 DEF Reactivated, Alert, AlertIds, States, Times, Never
    <3>4. Merge(Reactivated(Cached(k)), s) \in Alert
      BY <3>3, MergeType
    <3>5. Confirmed(Merge(Cached(k), s)) \in Alert
      BY <3>2 DEF Confirmed, Alert, AlertIds, States, Times, Never
    <3>. QED  BY <3>1, <3>2, <3>4, <3>5
  <2>3. CASE MergeSuppressed(k, s, ok)
    BY <2>3, <2>2, <1>2, SaveType DEF MergeSuppressed, TypeOK
  <2>4. CASE Reactivate(k, s, ok)
    BY <2>4, <2>2, <1>2, SaveType DEF Reactivate, TypeOK
  <2>5. CASE MergeDuplicate(k, s, ok)
    BY <2>5, <2>2, <1>2, SaveType DEF MergeDuplicate, TypeOK
  <2>6. CASE MergeConfirm(k, s, ok)
    BY <2>6, <2>2, <1>2, SaveType DEF MergeConfirm, TypeOK
  <2>. QED  BY <1>1, <2>1, <2>3, <2>4, <2>5, <2>6
<1>4. detected' \in [Keys -> Times \cup {Never}]
  BY DEF Process, TypeOK
<1>. QED  BY <1>3, <1>4 DEF Process, TypeOK

\* Resolve, Suppress, Unsuppress and SetVerdict save an edited cached alert.
LEMMA OperationType ==
  ASSUME TypeOK, NEW k \in Keys,
         \/ Resolve(k)
         \/ Suppress(k)
         \/ Unsuppress(k)
         \/ \E v \in Verdicts : SetVerdict(k, v)
  PROVE  TypeOK'
<1>1. Cached(k) \in Alert
  BY CachedType DEF Resolve, Suppress, Unsuppress, SetVerdict
<1>2. CASE Resolve(k)
  <2>1. Resolved(Cached(k)) \in Alert
    BY <1>1 DEF Resolved, TypeOK, Alert, States
  <2>. QED  BY <2>1, <1>2, SaveType, SinkOutcomesType DEF Resolve, TypeOK
<1>3. CASE Suppress(k)
  <2>1. Suppressed(Cached(k)) \in Alert
    BY <1>1 DEF Suppressed, Alert, States
  <2>. QED  BY <2>1, <1>3, SaveType, SinkOutcomesType DEF Suppress, TypeOK
<1>4. CASE Unsuppress(k)
  <2>1. Unsuppressed(Cached(k)) \in Alert
    BY <1>1 DEF Unsuppressed, Alert, States
  <2>. QED  BY <2>1, <1>4, SaveType, SinkOutcomesType DEF Unsuppress, TypeOK
<1>5. ASSUME NEW v \in Verdicts, SetVerdict(k, v)
      PROVE  TypeOK'
  <2>1. Judged(Cached(k), v) \in Alert
    BY <1>1 DEF Judged, Alert
  <2>. QED  BY <2>1, <1>5, SaveType, SinkOutcomesType DEF SetVerdict, TypeOK
<1>. QED  BY <1>2, <1>3, <1>4, <1>5

LEMMA EvictType ==
  ASSUME TypeOK, NEW k \in Keys, Evict(k)
  PROVE  TypeOK'
BY TimingAssumption, BoundsAssumption DEF TypeOK, Evict, Times

\* The key of a swept id is one of the swept keys, and the row it writes is the
\* resolved alert of that key.
LEMMA KeyOfSwept ==
  ASSUME NEW done, NEW i, \E k \in done : cache[k].id = i
  PROVE  KeyOf(i, done) \in done /\ cache[KeyOf(i, done)].id = i
BY DEF KeyOf

LEMMA SweepPassType ==
  ASSUME TypeOK, NEW done \in SUBSET Due, NEW failed \in SUBSET Due,
         SweepPass(done, failed)
  PROVE  /\ cache' \in [Keys -> Alert \cup {NoAlert}]
         /\ expires' \in [Keys -> 0..(MaxTime + CacheTTL)]
         /\ store' \in [AlertIds -> Alert \cup {NoAlert}]
         /\ told' \in [AlertIds -> States \cup {NoAlert}]
<1>1. \A k \in Due : k \in Keys /\ Cached(k) = cache[k] /\ cache[k] \in Alert
  BY CachedType DEF Due
<1>2. \A a \in Alert : Resolved(a) \in Alert
  BY DEF Resolved, TypeOK, Alert, States
<1>3. cache' \in [Keys -> Alert \cup {NoAlert}]
  BY <1>1, <1>2, CachedType DEF SweepPass
<1>4. expires' \in [Keys -> 0..(MaxTime + CacheTTL)]
  BY TimingAssumption, BoundsAssumption DEF SweepPass, TypeOK, Times
<1>5. ASSUME NEW i \in AlertIds, \E k \in done : cache[k].id = i
      PROVE  Resolved(cache[KeyOf(i, done)]) \in Alert
  BY <1>1, <1>2, <1>5, KeyOfSwept
<1>6. store' \in [AlertIds -> Alert \cup {NoAlert}]
  BY <1>5 DEF SweepPass, TypeOK
<1>7. told' \in [AlertIds -> States \cup {NoAlert}]
  BY DEF SweepPass, TypeOK, States
<1>. QED  BY <1>3, <1>4, <1>6, <1>7

LEMMA SweepOnceType ==
  ASSUME TypeOK, SweepOnce
  PROVE  TypeOK'
<1>1. PICK done \in SUBSET Due, failed \in SUBSET Due : SweepPass(done, failed)
  BY DEF SweepOnce
<1>2. /\ cache' \in [Keys -> Alert \cup {NoAlert}]
      /\ expires' \in [Keys -> 0..(MaxTime + CacheTTL)]
      /\ store' \in [AlertIds -> Alert \cup {NoAlert}]
      /\ told' \in [AlertIds -> States \cup {NoAlert}]
  BY <1>1, SweepPassType
<1>3. nextSweep' \in 0..(MaxTime + SweepInterval)
  BY TimingAssumption, BoundsAssumption DEF SweepOnce, TypeOK, Times
<1>. QED  BY <1>2, <1>3 DEF SweepOnce, TypeOK

LEMMA EnvironmentType ==
  ASSUME TypeOK, Tick \/ Crash \/ Restart
  PROVE  TypeOK'
<1>1. CASE Tick
  BY <1>1, BoundsAssumption DEF Tick, TypeOK, Times
<1>2. CASE Crash
  <2>1. crashes' \in 0..MaxCrashes /\ expires' \in [Keys -> 0..(MaxTime + CacheTTL)]
    BY <1>2, TimingAssumption, BoundsAssumption DEF Crash, TypeOK
  <2>. QED  BY <1>2, <2>1 DEF Crash, TypeOK
<1>3. CASE Restart
  BY <1>3, TimingAssumption, BoundsAssumption DEF Restart, TypeOK, Times
<1>. QED  BY <1>1, <1>2, <1>3

LEMMA InitType == Init => TypeOK
BY TimingAssumption, BoundsAssumption
   DEF Init, TypeOK, Times, AlertIds, Never

LEMMA NextType == TypeOK /\ [Next]_vars => TypeOK'
<1>. SUFFICES ASSUME TypeOK, [Next]_vars
              PROVE  TypeOK'
  OBVIOUS
<1>1. CASE UNCHANGED vars
  BY <1>1 DEF vars, TypeOK
<1>2. CASE Next
  BY <1>2, ProcessType, OperationType, EvictType, SweepOnceType, EnvironmentType DEF Next
<1>. QED  BY <1>1, <1>2

\* Every reachable state is well typed: ids, times and hit counts stay in their
\* ranges whatever events, operators, sweeps, crashes and restarts do.
THEOREM TypeCorrect == Spec => []TypeOK
BY InitType, NextType, PTL DEF Spec

-----------------------------------------------------------------------------
(* Which alert an operation on a key saves.                                *)

\* An operation on key k saves one alert of that key: a fresh one on a cache miss,
\* otherwise the tracked one.  If it stays silent the alert keeps its state.
SavesOne(k) ==
  \E a \in Alert, ok \in SinkOutcomes :
    /\ \/ Save(k, a, TRUE, ok)
       \/ Save(k, a, FALSE, ok) /\ Cached(k) # NoAlert /\ a.state = cache[k].state
    /\ a.key = k
    /\ \/ Cached(k) = NoAlert /\ a.id = nextId /\ nextId' = nextId + 1
       \/ Cached(k) # NoAlert /\ a.id = cache[k].id /\ nextId' = nextId
    /\ now' = now

LEMMA ProcessSavesOne ==
  ASSUME TypeOK, TrackedDistinct, NEW k \in Keys, NEW s \in Severities, Process(k, s)
  PROVE  SavesOne(k)
<1>1. PICK ok \in SinkOutcomes : \/ Create(k, s, ok)
                                 \/ MergeSuppressed(k, s, ok)
                                 \/ Reactivate(k, s, ok)
                                 \/ MergeDuplicate(k, s, ok)
                                 \/ MergeConfirm(k, s, ok)
  BY DEF Process
<1>0. now' = now
  BY DEF Process
<1>2. CASE Create(k, s, ok)
  <2>1. NewAlert(k, s) \in Alert /\ NewAlert(k, s).key = k /\ NewAlert(k, s).id = nextId
    BY <1>2, NewAlertType DEF Create, NewAlert
  <2>. QED  BY <1>0, <1>2, <2>1 DEF Create, SavesOne
<1>3. CASE Cached(k) # NoAlert
  <2>1. /\ Cached(k) = cache[k] /\ Cached(k) \in Alert
        /\ Cached(k).hits < MaxHits /\ Cached(k).key = k
    BY <1>3, CachedType DEF Process, TrackedDistinct
  <2>. DEFINE c == Cached(k)
  <2>2. /\ Merge(c, s) \in Alert /\ Merge(c, s).state = cache[k].state
        /\ Merge(c, s).key = k /\ Merge(c, s).id = cache[k].id
    BY <2>1, MergeType DEF Merge, Alert
  <2>3. /\ Confirmed(Merge(c, s)) \in Alert
        /\ Confirmed(Merge(c, s)).key = k /\ Confirmed(Merge(c, s)).id = cache[k].id
    BY <2>2 DEF Confirmed, Alert, States
  <2>4. /\ Reactivated(c) \in Alert /\ Reactivated(c).hits < MaxHits
        /\ Reactivated(c).key = k /\ Reactivated(c).id = cache[k].id
    BY <2>1 DEF Reactivated, Alert, States
  <2>5. /\ Merge(Reactivated(c), s) \in Alert
        /\ Merge(Reactivated(c), s).key = k /\ Merge(Reactivated(c), s).id = cache[k].id
    BY <2>4, MergeType DEF Merge, Alert
  <2>6. CASE MergeSuppressed(k, s, ok)
    BY <1>0, <1>3, <2>1, <2>2, <2>6 DEF MergeSuppressed, SavesOne
  <2>7. CASE Reactivate(k, s, ok)
    BY <1>0, <1>3, <2>5, <2>7 DEF Reactivate, SavesOne
  <2>8. CASE MergeDuplicate(k, s, ok)
    BY <1>0, <1>3, <2>1, <2>2, <2>8 DEF MergeDuplicate, SavesOne
  <2>9. CASE MergeConfirm(k, s, ok)
    BY <1>0, <1>3, <2>3, <2>9 DEF MergeConfirm, SavesOne
  <2>. QED  BY <1>1, <1>2, <2>6, <2>7, <2>8, <2>9
<1>. QED
  BY <1>1, <1>2, <1>3 DEF MergeSuppressed, Reactivate, MergeDuplicate, MergeConfirm

LEMMA OperationSavesOne ==
  ASSUME TypeOK, TrackedDistinct, NEW k \in Keys,
         \/ Resolve(k)
         \/ Suppress(k)
         \/ Unsuppress(k)
         \/ \E v \in Verdicts : SetVerdict(k, v)
  PROVE  SavesOne(k)
<1>1. Cached(k) # NoAlert
  BY DEF Resolve, Suppress, Unsuppress, SetVerdict
<1>0. now' = now
  BY DEF Resolve, Suppress, Unsuppress, SetVerdict
<1>2. Cached(k) = cache[k] /\ Cached(k) \in Alert /\ Cached(k).key = k
  BY <1>1, CachedType DEF TrackedDistinct
<1>3. CASE Resolve(k)
  <2>. DEFINE a == Resolved(Cached(k))
  <2>1. a \in Alert /\ a.key = k /\ a.id = cache[k].id
    BY <1>2 DEF Resolved, TypeOK, Alert, States
  <2>. QED  BY <1>0, <1>1, <1>3, <2>1 DEF Resolve, SavesOne
<1>4. CASE Suppress(k)
  <2>. DEFINE a == Suppressed(Cached(k))
  <2>1. a \in Alert /\ a.key = k /\ a.id = cache[k].id
    BY <1>2 DEF Suppressed, Alert, States
  <2>. QED  BY <1>0, <1>1, <1>4, <2>1 DEF Suppress, SavesOne
<1>5. CASE Unsuppress(k)
  <2>. DEFINE a == Unsuppressed(Cached(k))
  <2>1. a \in Alert /\ a.key = k /\ a.id = cache[k].id
    BY <1>2 DEF Unsuppressed, Alert, States
  <2>. QED  BY <1>0, <1>1, <1>5, <2>1 DEF Unsuppress, SavesOne
<1>6. ASSUME NEW v \in Verdicts, SetVerdict(k, v)
      PROVE  SavesOne(k)
  <2>. DEFINE a == Judged(Cached(k), v)
  <2>1. a \in Alert /\ a.key = k /\ a.id = cache[k].id
    BY <1>2 DEF Judged, Alert
  <2>. QED  BY <1>0, <1>1, <1>6, <2>1 DEF SetVerdict, SavesOne
<1>. QED  BY <1>3, <1>4, <1>5, <1>6

\* A sweep pass rewrites tracked alerts in place: it changes neither the id nor the
\* key of an entry, and it creates none.
LEMMA SweepKeepsIds ==
  ASSUME TypeOK, NEW done \in SUBSET Due, NEW failed \in SUBSET Due,
         SweepPass(done, failed), NEW k \in Keys, cache'[k] # NoAlert
  PROVE  /\ cache[k] # NoAlert /\ cache[k] \in Alert
         /\ cache'[k] \in Alert
         /\ cache'[k].id = cache[k].id /\ cache'[k].key = cache[k].key
         /\ cache'[k] = IF k \in done \cup failed THEN Resolved(cache[k]) ELSE cache[k]
<1>1. Cached(k) # NoAlert => Cached(k) = cache[k] /\ cache[k] \in Alert
  BY CachedType
<1>2. \A j \in Due : Cached(j) # NoAlert
  BY DEF Due
<1>3. cache'[k] = IF k \in done \cup failed THEN Resolved(Cached(k)) ELSE Cached(k)
  BY DEF SweepPass
<1>4. Cached(k) # NoAlert
  BY <1>2, <1>3
<1>5. cache[k] \in Alert /\ cache'[k] = IF k \in done \cup failed
                                            THEN Resolved(cache[k]) ELSE cache[k]
  BY <1>1, <1>3, <1>4
<1>6. /\ Resolved(cache[k]) \in Alert /\ Resolved(cache[k]).id = cache[k].id
      /\ Resolved(cache[k]).key = cache[k].key
  BY <1>5 DEF Resolved, TypeOK, Alert, States
<1>. QED  BY <1>1, <1>4, <1>5, <1>6

-----------------------------------------------------------------------------
(* Alert ids do not leak between issues.                                   *)

LEMMA SavesOneDistinct ==
  ASSUME TypeOK, TrackedDistinct, NEW k \in Keys, SavesOne(k)
  PROVE  TrackedDistinct'
<1>1. PICK a \in Alert, ok \in SinkOutcomes :
        /\ \/ Save(k, a, TRUE, ok)
           \/ Save(k, a, FALSE, ok) /\ Cached(k) # NoAlert /\ a.state = cache[k].state
        /\ a.key = k
        /\ \/ Cached(k) = NoAlert /\ a.id = nextId /\ nextId' = nextId + 1
           \/ Cached(k) # NoAlert /\ a.id = cache[k].id /\ nextId' = nextId
      BY DEF SavesOne
<1>2. cache' = [cache EXCEPT ![k] = a] /\ a # NoAlert
  BY <1>1, DataAssumption DEF Save
<1>3. nextId \in Int /\ nextId' \in Int /\ nextId <= nextId'
  BY <1>1 DEF TypeOK
<1>4. a.id < nextId'
  BY <1>1, <1>3, CachedType DEF TrackedDistinct, TypeOK
<1>5. ASSUME NEW j \in Keys, j # k, cache[j] # NoAlert
      PROVE  cache[j].id # a.id /\ cache[j].id \in Int /\ cache[j].id < nextId
  BY <1>1, <1>5, CachedType DEF TrackedDistinct, TypeOK, Alert, AlertIds
<1>6. ASSUME NEW j \in Keys, cache'[j] # NoAlert
      PROVE  cache'[j].key = j /\ cache'[j].id < nextId'
  <2>1. CASE j = k
    BY <2>1, <1>1, <1>2, <1>4 DEF TypeOK
  <2>2. CASE j # k
    BY <2>2, <1>2, <1>3, <1>5, <1>6 DEF TrackedDistinct, TypeOK
  <2>. QED  BY <2>1, <2>2
<1>7. ASSUME NEW i \in Keys, NEW j \in Keys, cache'[i] # NoAlert, cache'[j] # NoAlert,
             cache'[i].id = cache'[j].id
      PROVE  i = j
  BY <1>2, <1>5, <1>7 DEF TrackedDistinct, TypeOK
<1>. QED  BY <1>6, <1>7 DEF TrackedDistinct

LEMMA NextDistinct ==
  ASSUME TypeOK, TrackedDistinct, [Next]_vars
  PROVE  TrackedDistinct'
<1>1. ASSUME NEW k \in Keys, NEW s \in Severities, Process(k, s)
      PROVE  TrackedDistinct'
  BY <1>1, ProcessSavesOne, SavesOneDistinct
<1>2. ASSUME NEW k \in Keys,
             Resolve(k) \/ Suppress(k) \/ Unsuppress(k) \/ \E v \in Verdicts : SetVerdict(k, v)
      PROVE  TrackedDistinct'
  BY <1>2, OperationSavesOne, SavesOneDistinct
<1>3. ASSUME NEW k \in Keys, Evict(k)
      PROVE  TrackedDistinct'
  BY <1>3 DEF Evict, TrackedDistinct, TypeOK
<1>4. CASE SweepOnce
  <2>1. PICK done \in SUBSET Due, failed \in SUBSET Due : SweepPass(done, failed)
    BY <1>4 DEF SweepOnce
  <2>2. nextId' = nextId
    BY <1>4 DEF SweepOnce
  <2>3. ASSUME NEW k \in Keys, cache'[k] # NoAlert
        PROVE  cache[k] # NoAlert /\ cache'[k].id = cache[k].id /\ cache'[k].key = cache[k].key
    BY <2>1, <2>3, SweepKeepsIds
  <2>. QED  BY <2>2, <2>3 DEF TrackedDistinct
<1>5. CASE Tick \/ Crash \/ Restart
  BY <1>5 DEF Tick, Crash, Restart, TrackedDistinct
<1>6. CASE UNCHANGED vars
  BY <1>6 DEF vars, TrackedDistinct
<1>. QED  BY <1>1, <1>2, <1>3, <1>4, <1>5, <1>6 DEF Next

\* A cached alert belongs to its key, its id was handed out, and no two keys share an
\* alert, for any number of keys and any interleaving of operations and sweeps.
THEOREM IdsDistinct == Spec => []TrackedDistinct
<1>1. Init => TrackedDistinct
  BY DEF Init, TrackedDistinct
<1>2. TypeOK /\ TrackedDistinct /\ [Next]_vars => TrackedDistinct'
  BY NextDistinct
<1>. QED  BY <1>1, <1>2, TypeCorrect, PTL DEF Spec

-----------------------------------------------------------------------------
(* Write-through.                                                          *)

LEMMA SavesOneAgrees ==
  ASSUME TypeOK, TrackedDistinct, CacheStoreAgree, ~SinkMayFail,
         NEW k \in Keys, SavesOne(k)
  PROVE  CacheStoreAgree'
<1>1. PICK a \in Alert, ok \in SinkOutcomes :
        /\ \/ Save(k, a, TRUE, ok)
           \/ Save(k, a, FALSE, ok) /\ Cached(k) # NoAlert /\ a.state = cache[k].state
        /\ a.key = k
        /\ \/ Cached(k) = NoAlert /\ a.id = nextId /\ nextId' = nextId + 1
           \/ Cached(k) # NoAlert /\ a.id = cache[k].id /\ nextId' = nextId
      BY DEF SavesOne
<1>2. /\ cache' = [cache EXCEPT ![k] = a]
      /\ store' = [store EXCEPT ![a.id] = a]
      /\ a.id \in AlertIds
  BY <1>1 DEF Save, SinkOutcomes, Alert
<1>3. ASSUME NEW j \in Keys, j # k, cache[j] # NoAlert
      PROVE  cache[j].id # a.id
  <2>1. cache[j].id \in Int /\ cache[j].id < nextId
    BY <1>3 DEF TrackedDistinct, TypeOK, Alert, AlertIds
  <2>. QED  BY <1>1, <1>3, <2>1, CachedType DEF TrackedDistinct, TypeOK
<1>4. ASSUME NEW j \in Keys, cache'[j] # NoAlert
      PROVE  store'[cache'[j].id] = cache'[j]
  <2>1. CASE j = k
    BY <2>1, <1>2 DEF TypeOK
  <2>2. CASE j # k
    <3>1. cache'[j] = cache[j] /\ cache[j] \in Alert
      BY <2>2, <1>2, <1>4 DEF TypeOK
    <3>2. cache[j].id \in AlertIds /\ cache[j].id # a.id
      BY <3>1, <2>2, <1>3, <1>4 DEF Alert
    <3>. QED  BY <3>1, <3>2, <1>2, <1>4 DEF CacheStoreAgree, TypeOK
  <2>. QED  BY <2>1, <2>2
<1>. QED  BY <1>4 DEF CacheStoreAgree

LEMMA SweepAgrees ==
  ASSUME TypeOK, TrackedDistinct, CacheStoreAgree, ~SinkMayFail, SweepOnce
  PROVE  CacheStoreAgree'
<1>1. SweepPass(Due, {})
  BY DEF SweepOnce
<1>2. ASSUME NEW k \in Keys, cache'[k] # NoAlert
      PROVE  store'[cache'[k].id] = cache'[k]
  <2>1. /\ cache[k] # NoAlert /\ cache[k] \in Alert
        /\ cache'[k].id = cache[k].id
        /\ cache'[k] = IF k \in Due THEN Resolved(cache[k]) ELSE cache[k]
    BY <1>1, <1>2, SweepKeepsIds
  <2>2. cache[k].id \in AlertIds
    BY <2>1 DEF Alert
  <2>3. ASSUME NEW j \in Due, cache[j].id = cache[k].id
        PROVE  j = k
    BY <2>1, <2>3 DEF TrackedDistinct, Due, Cached
  <2>4. CASE k \in Due
    <3>1. KeyOf(cache[k].id, Due) = k
      BY <2>3, <2>4, KeyOfSwept
    <3>. QED  BY <1>1, <2>1, <2>2, <2>4, <3>1 DEF SweepPass
  <2>5. CASE k \notin Due
    <3>1. ~ \E j \in Due : cache[j].id = cache[k].id
      BY <2>3, <2>5
    <3>2. store'[cache[k].id] = store[cache[k].id]
      BY <1>1, <2>2, <3>1 DEF SweepPass
    <3>. QED  BY <2>1, <2>5, <3>2 DEF CacheStoreAgree
  <2>. QED  BY <2>4, <2>5
<1>. QED  BY <1>2 DEF CacheStoreAgree

LEMMA NextAgrees ==
  ASSUME TypeOK, TrackedDistinct, CacheStoreAgree, ~SinkMayFail, [Next]_vars
  PROVE  CacheStoreAgree'
<1>1. ASSUME NEW k \in Keys, NEW s \in Severities, Process(k, s)
      PROVE  CacheStoreAgree'
  BY <1>1, ProcessSavesOne, SavesOneAgrees
<1>2. ASSUME NEW k \in Keys,
             Resolve(k) \/ Suppress(k) \/ Unsuppress(k) \/ \E v \in Verdicts : SetVerdict(k, v)
      PROVE  CacheStoreAgree'
  BY <1>2, OperationSavesOne, SavesOneAgrees
<1>3. ASSUME NEW k \in Keys, Evict(k)
      PROVE  CacheStoreAgree'
  BY <1>3 DEF Evict, CacheStoreAgree, TypeOK
<1>4. CASE Tick \/ Crash \/ Restart
  BY <1>4 DEF Tick, Crash, Restart, CacheStoreAgree
<1>5. CASE UNCHANGED vars
  BY <1>5 DEF vars, CacheStoreAgree
<1>. QED  BY <1>1, <1>2, <1>3, <1>4, <1>5, SweepAgrees DEF Next

\* With a sink that never raises, the dashboard's row of a tracked alert is exactly
\* what the engine tracks.
THEOREM WriteThrough == Spec => []CacheStoreAgree
<1>1. Init => CacheStoreAgree
  BY DEF Init, CacheStoreAgree
<1>2. TypeOK /\ TrackedDistinct /\ CacheStoreAgree /\ [Next]_vars => CacheStoreAgree'
  BY NextAgrees DEF CacheStoreAgree
<1>. QED  BY <1>1, <1>2, TypeCorrect, IdsDistinct, PTL DEF Spec

-----------------------------------------------------------------------------
(* Timeliness of auto-resolve.                                             *)

\* The strengthening that is inductive: the clock is between the last pass and the
\* next, a dead process tracks nothing, and every open alert not unsuppressed since
\* the last pass was seen less than ResolveAfter before that pass, or after it.
FreshInv ==
  /\ up => now <= nextSweep /\ nextSweep - SweepInterval <= now
  /\ ~up => \A k \in Keys : cache[k] = NoAlert
  /\ ~SinkMayFail /\ up =>
       \A k \in Keys : cache[k] # NoAlert /\ cache[k].state \in Open /\ k \notin woken
         => nextSweep - SweepInterval - ResolveAfter < cache[k].last

LEMMA ProcessSeenNow ==
  ASSUME TypeOK, NEW k \in Keys, NEW s \in Severities, Process(k, s)
  PROVE  \E a \in Alert : cache' = [cache EXCEPT ![k] = a] /\ a.last = now
<1>1. PICK ok \in SinkOutcomes : \/ Create(k, s, ok)
                                 \/ MergeSuppressed(k, s, ok)
                                 \/ Reactivate(k, s, ok)
                                 \/ MergeDuplicate(k, s, ok)
                                 \/ MergeConfirm(k, s, ok)
  BY DEF Process
<1>2. CASE Create(k, s, ok)
  <2>1. NewAlert(k, s) \in Alert /\ NewAlert(k, s).last = now
    BY <1>2, NewAlertType DEF Create, NewAlert
  <2>. QED  BY <1>2, <2>1 DEF Create, Save
<1>3. CASE Cached(k) # NoAlert
  <2>. DEFINE c == Cached(k)
  <2>1. c \in Alert /\ c.hits < MaxHits
    BY <1>3, CachedType DEF Process
  <2>2. Merge(c, s) \in Alert /\ Merge(c, s).last = now
    BY <2>1, MergeType DEF Merge, Alert
  <2>3. Confirmed(Merge(c, s)) \in Alert /\ Confirmed(Merge(c, s)).last = now
    BY <2>2 DEF Confirmed, Alert, States
  <2>4. Reactivated(c) \in Alert /\ Reactivated(c).hits < MaxHits
    BY <2>1 DEF Reactivated, Alert, States
  <2>5. Merge(Reactivated(c), s) \in Alert /\ Merge(Reactivated(c), s).last = now
    BY <2>4, MergeType DEF Merge, Alert
  <2>. QED  BY <1>1, <1>2, <2>2, <2>3, <2>5
             DEF MergeSuppressed, Reactivate, MergeDuplicate, MergeConfirm, Save
<1>. QED
  BY <1>1, <1>2, <1>3 DEF MergeSuppressed, Reactivate, MergeDuplicate, MergeConfirm

LEMMA NextFresh ==
  ASSUME TypeOK, FreshInv, [Next]_vars
  PROVE  FreshInv'
<1>. USE TimingAssumption, BoundsAssumption
<1>1. /\ now \in Int /\ nextSweep \in Int /\ SweepInterval \in Int /\ ResolveAfter \in Int
      /\ ResolveAfter > 0 /\ SweepInterval > 0
      /\ \A a \in Alert : a # NoAlert /\ a.last \in Int
  BY DataAssumption DEF TypeOK, Alert, Times
<1>2. ASSUME NEW k \in Keys, NEW s \in Severities, Process(k, s)
      PROVE  FreshInv'
  <2>1. PICK a \in Alert : cache' = [cache EXCEPT ![k] = a] /\ a.last = now
    BY <1>2, ProcessSeenNow
  <2>2. up /\ UNCHANGED <<now, up, nextSweep, woken>>
    BY <1>2 DEF Process
  <2>. QED  BY <1>1, <2>1, <2>2 DEF FreshInv, TypeOK
<1>3. ASSUME NEW k \in Keys, Resolve(k) \/ Suppress(k)
      PROVE  FreshInv'
  <2>1. Cached(k) \in Alert
    BY <1>3, CachedType DEF Resolve, Suppress
  <2>2. PICK a \in Alert : cache' = [cache EXCEPT ![k] = a] /\ a.state \notin Open
    <3>1. /\ Resolved(Cached(k)) \in Alert /\ Resolved(Cached(k)).state \notin Open
          /\ Suppressed(Cached(k)) \in Alert /\ Suppressed(Cached(k)).state \notin Open
      BY <2>1 DEF Resolved, Suppressed, TypeOK, Alert, States, Open
    <3>. QED  BY <1>3, <3>1 DEF Resolve, Suppress, Save
  <2>3. up /\ UNCHANGED <<now, up, nextSweep, woken>>
    BY <1>3 DEF Resolve, Suppress
  <2>. QED  BY <1>1, <2>2, <2>3 DEF FreshInv, TypeOK
<1>4. ASSUME NEW k \in Keys, Unsuppress(k)
      PROVE  FreshInv'
  <2>1. PICK a : cache' = [cache EXCEPT ![k] = a]
    BY <1>4 DEF Unsuppress, Save
  <2>2. up /\ UNCHANGED <<now, up, nextSweep>> /\ woken' = woken \cup {k}
    BY <1>4 DEF Unsuppress
  <2>. QED  BY <1>1, <2>1, <2>2 DEF FreshInv, TypeOK
<1>5. ASSUME NEW k \in Keys, NEW v \in Verdicts, SetVerdict(k, v)
      PROVE  FreshInv'
  <2>1. cache[k] \in Alert /\ Cached(k) = cache[k]
    BY <1>5, CachedType DEF SetVerdict
  <2>2. /\ cache' = [cache EXCEPT ![k] = Judged(cache[k], v)]
        /\ Judged(cache[k], v).state = cache[k].state
        /\ Judged(cache[k], v).last = cache[k].last
    BY <1>5, <2>1 DEF SetVerdict, Save, Judged, Alert
  <2>3. up /\ UNCHANGED <<now, up, nextSweep, woken>>
    BY <1>5 DEF SetVerdict
  <2>. QED  BY <1>1, <2>1, <2>2, <2>3 DEF FreshInv, TypeOK
<1>6. ASSUME NEW k \in Keys, Evict(k)
      PROVE  FreshInv'
  BY <1>1, <1>6 DEF Evict, FreshInv, TypeOK
<1>7. CASE SweepOnce
  <2>1. PICK done \in SUBSET Due, failed \in SUBSET Due :
          SweepPass(done, failed) /\ (~SinkMayFail => done = Due)
    BY <1>7 DEF SweepOnce
  <2>2. up /\ now = nextSweep /\ nextSweep' = now + SweepInterval /\ woken' = {}
        /\ UNCHANGED <<now, up>>
    BY <1>7 DEF SweepOnce
  <2>3. ASSUME ~SinkMayFail, NEW k \in Keys, cache'[k] # NoAlert, cache'[k].state \in Open
        PROVE  nextSweep' - SweepInterval - ResolveAfter < cache'[k].last
    <3>1. /\ cache[k] # NoAlert /\ cache[k] \in Alert
          /\ cache'[k] = IF k \in done \cup failed THEN Resolved(cache[k]) ELSE cache[k]
      BY <2>1, <2>3, SweepKeepsIds
    <3>2. Resolved(cache[k]).state = "RESOLVED"
      BY <3>1 DEF Resolved, Alert
    <3>3. k \notin Due
      BY <2>1, <2>3, <3>1, <3>2 DEF Open
    <3>4. Cached(k) = cache[k]
      <4>1. cache'[k] = Cached(k)
        BY <2>1, <2>3, <3>3 DEF SweepPass
      <4>. QED  BY <2>3, <4>1 DEF Cached
    <3>5. now - cache[k].last < ResolveAfter
      <4>1. k \notin done \cup failed
        BY <2>1, <3>3
      <4>2. cache[k].state \in Open
        BY <2>3, <3>1, <4>1
      <4>. QED  BY <3>1, <3>3, <3>4, <4>2, <1>1 DEF Due
    <3>6. cache'[k].last = cache[k].last
      BY <2>1, <3>1, <3>3
    <3>. QED  BY <1>1, <2>2, <3>1, <3>5, <3>6
  <2>. QED  BY <1>1, <2>2, <2>3 DEF FreshInv
<1>8. CASE Tick
  BY <1>1, <1>8 DEF Tick, FreshInv
<1>9. CASE Crash
  BY <1>1, <1>9 DEF Crash, FreshInv, TypeOK
<1>10. CASE Restart
  BY <1>1, <1>10 DEF Restart, FreshInv
<1>11. CASE UNCHANGED vars
  BY <1>1, <1>11 DEF vars, FreshInv
<1>. QED  BY <1>2, <1>3, <1>4, <1>5, <1>6, <1>7, <1>8, <1>9, <1>10, <1>11 DEF Next

\* Auto-resolve is timely for any number of issues and any timing: an open tracked
\* alert had a detection less than ResolveAfter + SweepInterval ago, unless it was
\* unsuppressed since the last pass.
THEOREM AutoResolveTimely == Spec => []OpenIsFresh
<1>1. Init => FreshInv
  BY TimingAssumption DEF Init, FreshInv
<1>2. TypeOK /\ FreshInv /\ [Next]_vars => FreshInv'
  BY NextFresh
<1>3. TypeOK /\ FreshInv => OpenIsFresh
  <2>. SUFFICES ASSUME TypeOK, FreshInv, ~SinkMayFail, up, NEW k \in Keys,
                       Cached(k) # NoAlert, Cached(k).state \in Open, k \notin woken
                PROVE  now - Cached(k).last < ResolveAfter + SweepInterval
    BY DEF OpenIsFresh
  <2>1. Cached(k) = cache[k] /\ cache[k] \in Alert /\ cache[k] # NoAlert
    BY CachedType
  <2>2. /\ now \in Int /\ nextSweep \in Int /\ SweepInterval \in Int /\ ResolveAfter \in Int
        /\ cache[k].last \in Int
    BY <2>1, TimingAssumption, BoundsAssumption DEF TypeOK, Alert, Times
  <2>. QED  BY <2>1, <2>2 DEF FreshInv
<1>. QED  BY <1>1, <1>2, <1>3, TypeCorrect, PTL DEF Spec

-----------------------------------------------------------------------------
(* Whoever follows the alerts.* topics knows the state of every row.       *)

LEMMA SavesOneHeard ==
  ASSUME TypeOK, TrackedDistinct, CacheStoreAgree, FollowerKnowsState, ~SinkMayFail,
         NEW k \in Keys, SavesOne(k)
  PROVE  FollowerKnowsState'
<1>1. PICK a \in Alert, ok \in SinkOutcomes :
        /\ \/ Save(k, a, TRUE, ok)
           \/ Save(k, a, FALSE, ok) /\ Cached(k) # NoAlert /\ a.state = cache[k].state
        /\ a.key = k
        /\ \/ Cached(k) = NoAlert /\ a.id = nextId /\ nextId' = nextId + 1
           \/ Cached(k) # NoAlert /\ a.id = cache[k].id /\ nextId' = nextId
      BY DEF SavesOne
<1>2. /\ store' = [store EXCEPT ![a.id] = a]
      /\ \/ told' = [told EXCEPT ![a.id] = a.state]
         \/ told' = told /\ cache[k] # NoAlert /\ a.id = cache[k].id /\ a.state = cache[k].state
      /\ a.id \in AlertIds /\ a # NoAlert
  BY <1>1, CachedType, DataAssumption DEF Save, SinkOutcomes, Alert
<1>3. told'[a.id] = a.state
  <2>1. CASE told' = [told EXCEPT ![a.id] = a.state]
    BY <2>1, <1>2 DEF TypeOK
  <2>2. CASE /\ told' = told /\ cache[k] # NoAlert
             /\ a.id = cache[k].id /\ a.state = cache[k].state
    <3>1. store[a.id] = cache[k]
      BY <2>2 DEF CacheStoreAgree
    <3>. QED  BY <2>2, <3>1, <1>2 DEF FollowerKnowsState
  <2>. QED  BY <1>2, <2>1, <2>2
<1>4. ASSUME NEW i \in AlertIds
      PROVE  IF store'[i] = NoAlert THEN told'[i] = NoAlert ELSE told'[i] = store'[i].state
  <2>1. CASE i = a.id
    BY <2>1, <1>2, <1>3 DEF TypeOK
  <2>2. CASE i # a.id
    <3>1. store'[i] = store[i] /\ told'[i] = told[i]
      BY <2>2, <1>2 DEF TypeOK
    <3>. QED  BY <3>1 DEF FollowerKnowsState
  <2>. QED  BY <2>1, <2>2
<1>. QED  BY <1>4 DEF FollowerKnowsState

LEMMA SweepHeard ==
  ASSUME TypeOK, FollowerKnowsState, ~SinkMayFail, SweepOnce
  PROVE  FollowerKnowsState'
<1>1. SweepPass(Due, {})
  BY DEF SweepOnce
<1>2. ASSUME NEW i \in AlertIds
      PROVE  IF store'[i] = NoAlert THEN told'[i] = NoAlert ELSE told'[i] = store'[i].state
  <2>1. CASE \E k \in Due : cache[k].id = i
    <3>. DEFINE k == KeyOf(i, Due)
    <3>1. k \in Due /\ k \in Keys
      BY <2>1, KeyOfSwept DEF Due
    <3>2. cache[k] \in Alert
      BY <3>1, CachedType DEF Due
    <3>3. Resolved(cache[k]) \in Alert /\ Resolved(cache[k]).state = "RESOLVED"
      BY <3>2 DEF Resolved, TypeOK, Alert, States
    <3>4. store'[i] = Resolved(cache[k]) /\ told'[i] = "RESOLVED"
      BY <1>1, <2>1 DEF SweepPass
    <3>. QED  BY <3>3, <3>4, DataAssumption
  <2>2. CASE ~ \E k \in Due : cache[k].id = i
    BY <1>1, <2>2 DEF SweepPass, FollowerKnowsState
  <2>. QED  BY <2>1, <2>2
<1>. QED  BY <1>2 DEF FollowerKnowsState

LEMMA NextHeard ==
  ASSUME TypeOK, TrackedDistinct, CacheStoreAgree, FollowerKnowsState, ~SinkMayFail,
         [Next]_vars
  PROVE  FollowerKnowsState'
<1>1. ASSUME NEW k \in Keys, NEW s \in Severities, Process(k, s)
      PROVE  FollowerKnowsState'
  BY <1>1, ProcessSavesOne, SavesOneHeard
<1>2. ASSUME NEW k \in Keys,
             Resolve(k) \/ Suppress(k) \/ Unsuppress(k) \/ \E v \in Verdicts : SetVerdict(k, v)
      PROVE  FollowerKnowsState'
  BY <1>2, OperationSavesOne, SavesOneHeard
<1>3. ASSUME NEW k \in Keys, Evict(k)
      PROVE  FollowerKnowsState'
  BY <1>3 DEF Evict, FollowerKnowsState
<1>4. CASE Tick \/ Crash \/ Restart
  BY <1>4 DEF Tick, Crash, Restart, FollowerKnowsState
<1>5. CASE UNCHANGED vars
  BY <1>5 DEF vars, FollowerKnowsState
<1>. QED  BY <1>1, <1>2, <1>3, <1>4, <1>5, SweepHeard DEF Next

\* With a sink that never raises, the last alerts.* message about a row always carries
\* the row's present state.
THEOREM FollowersInformed == Spec => []FollowerKnowsState
<1>1. Init => FollowerKnowsState
  BY DEF Init, FollowerKnowsState
<1>2. TypeOK /\ TrackedDistinct /\ CacheStoreAgree /\ FollowerKnowsState /\ [Next]_vars
        => FollowerKnowsState'
  BY NextHeard DEF FollowerKnowsState
<1>. QED  BY <1>1, <1>2, TypeCorrect, IdsDistinct, WriteThrough, PTL DEF Spec

-----------------------------------------------------------------------------
(* The engine implements AlertBoard.                                       *)

EngineInv == TypeOK /\ TrackedDistinct /\ CacheStoreAgree /\ FollowerKnowsState

LEMMA HeardIsStatus == EngineInv /\ ~SinkMayFail => boardHeard = boardStatus
<1>. SUFFICES ASSUME EngineInv, ~SinkMayFail, NEW k \in Keys, Cached(k) # NoAlert
              PROVE  told[Cached(k).id] = Cached(k).state
  BY DEF boardHeard, boardStatus
<1>1. /\ Cached(k) = cache[k] /\ cache[k] # NoAlert /\ cache[k].id \in AlertIds
      /\ cache[k] \in Alert
  BY CachedType DEF EngineInv, Alert
<1>2. store[cache[k].id] = cache[k]
  BY <1>1 DEF EngineInv, CacheStoreAgree
<1>. QED  BY <1>1, <1>2 DEF EngineInv, FollowerKnowsState

LEMMA HeardIsStatusNext == (EngineInv /\ ~SinkMayFail => boardHeard = boardStatus)'
BY HeardIsStatus, PTL

LEMMA NextEngineInv == EngineInv /\ [Next]_vars /\ ~SinkMayFail => EngineInv'
BY NextType, NextDistinct, NextAgrees, NextHeard DEF EngineInv

\* A step is a board step as soon as the statuses move as the board says: what was
\* heard follows.
LEMMA BoardChange ==
  ASSUME EngineInv, EngineInv', ~SinkMayFail, NEW S, NEW st,
         boardStatus' = [i \in Keys |-> IF i \in S THEN st ELSE boardStatus[i]]
  PROVE  Board!Change(S, st)
<1>1. boardHeard = boardStatus
  BY HeardIsStatus
<1>2. boardHeard' = boardStatus'
  BY HeardIsStatusNext
<1>. QED  BY <1>1, <1>2 DEF Board!Change

LEMMA BoardStutter ==
  ASSUME EngineInv, EngineInv', ~SinkMayFail,
         \A k \in Keys : (Cached(k) = NoAlert /\ Cached(k)' = NoAlert)
                       \/ (/\ Cached(k) # NoAlert /\ Cached(k)' # NoAlert
                           /\ StatusOf(Cached(k).state)' = StatusOf(Cached(k).state))
  PROVE  UNCHANGED Board!boardVars
<1>1. boardHeard = boardStatus
  BY HeardIsStatus
<1>2. boardHeard' = boardStatus'
  BY HeardIsStatusNext
<1>3. boardStatus' = boardStatus
  BY DEF boardStatus
<1>. QED  BY <1>1, <1>2, <1>3 DEF Board!boardVars

\* After a save the saved alert is served, and every other key is untouched.
LEMMA CachedAfterSave ==
  ASSUME TypeOK, NEW k \in Keys, NEW a \in Alert, NEW tell \in BOOLEAN, NEW ok \in BOOLEAN,
         Save(k, a, tell, ok), now' = now
  PROVE  /\ Cached(k)' = a /\ a # NoAlert
         /\ \A j \in Keys \ {k} : Cached(j)' = Cached(j)
<1>1. expires' = [expires EXCEPT ![k] = now + CacheTTL] /\ cache' = [cache EXCEPT ![k] = a]
  BY DEF Save
<1>2. now + CacheTTL >= now /\ a # NoAlert
  BY TimingAssumption, DataAssumption DEF TypeOK, Times
<1>3. expires'[k] = now + CacheTTL /\ cache'[k] = a
  BY <1>1 DEF TypeOK
<1>4. \A j \in Keys \ {k} : expires'[j] = expires[j] /\ cache'[j] = cache[j]
  BY <1>1 DEF TypeOK
<1>5. Cached(k)' = a
  BY <1>2, <1>3 DEF Cached
<1>. QED  BY <1>2, <1>4, <1>5 DEF Cached

LEMMA SaveOnBoard ==
  ASSUME EngineInv, EngineInv', ~SinkMayFail, NEW k \in Keys, NEW a \in Alert,
         NEW tell \in BOOLEAN, NEW ok \in BOOLEAN, Save(k, a, tell, ok), now' = now
  PROVE  Board!Change({k}, StatusOf(a.state))
<1>1. /\ Cached(k)' = a /\ a # NoAlert
      /\ \A j \in Keys \ {k} : Cached(j)' = Cached(j)
  BY CachedAfterSave DEF EngineInv
<1>2. StatusOf(Cached(k).state)' = StatusOf(a.state)
  BY <1>1 DEF StatusOf
<1>3. \A j \in Keys \ {k} : StatusOf(Cached(j).state)' = StatusOf(Cached(j).state)
  BY <1>1 DEF StatusOf
<1>4. boardStatus' = [i \in Keys |-> IF i \in {k} THEN StatusOf(a.state) ELSE boardStatus[i]]
  BY <1>1, <1>2, <1>3 DEF boardStatus
<1>. QED  BY <1>4, BoardChange

\* A save that keeps the status is invisible on the board.
LEMMA SaveInvisible ==
  ASSUME EngineInv, EngineInv', ~SinkMayFail, NEW k \in Keys, NEW a \in Alert,
         NEW tell \in BOOLEAN, NEW ok \in BOOLEAN, Save(k, a, tell, ok), now' = now,
         Cached(k) # NoAlert, StatusOf(a.state) = StatusOf(Cached(k).state)
  PROVE  UNCHANGED Board!boardVars
<1>1. /\ Cached(k)' = a /\ a # NoAlert
      /\ \A j \in Keys \ {k} : Cached(j)' = Cached(j)
  BY CachedAfterSave DEF EngineInv
<1>2. StatusOf(Cached(k).state)' = StatusOf(Cached(k).state)
  BY <1>1 DEF StatusOf
<1>3. \A j \in Keys \ {k} : StatusOf(Cached(j).state)' = StatusOf(Cached(j).state)
  BY <1>1 DEF StatusOf
<1>. QED  BY <1>1, <1>2, <1>3, BoardStutter

\* The status of an issue, spelled out for the two cases of a cache lookup.
LEMMA StatusOfCached ==
  ASSUME NEW k \in Keys
  PROVE  /\ Cached(k) # NoAlert => boardStatus[k] = StatusOf(Cached(k).state)
         /\ Cached(k) = NoAlert => boardStatus[k] = "untracked"
         /\ StatusOf("NEW") = "open" /\ StatusOf("ACTIVE") = "open"
         /\ StatusOf("RESOLVED") = "closed" /\ StatusOf("SUPPRESSED") = "muted"
BY DEF boardStatus, StatusOf, Open

\* An event raises an untracked or closed issue and is invisible otherwise.
LEMMA ProcessOnBoard ==
  ASSUME EngineInv, EngineInv', ~SinkMayFail, NEW k \in Keys, NEW s \in Severities,
         Process(k, s)
  PROVE  Board!Raise(k) \/ UNCHANGED Board!boardVars
<1>1. PICK ok \in SinkOutcomes : \/ Create(k, s, ok)
                                 \/ MergeSuppressed(k, s, ok)
                                 \/ Reactivate(k, s, ok)
                                 \/ MergeDuplicate(k, s, ok)
                                 \/ MergeConfirm(k, s, ok)
  BY DEF Process
<1>2. ok \in BOOLEAN /\ now' = now /\ TypeOK
  BY SinkOutcomesType DEF Process, EngineInv
<1>3. CASE Create(k, s, ok)
  <2>1. NewAlert(k, s) \in Alert /\ NewAlert(k, s).state = "NEW"
    BY <1>2, <1>3, NewAlertType DEF Create, NewAlert
  <2>2. Save(k, NewAlert(k, s), TRUE, ok)
    BY <1>3 DEF Create
  <2>3. Board!Change({k}, "open")
    BY <1>2, <2>1, <2>2, SaveOnBoard, StatusOfCached
  <2>4. boardStatus[k] = "untracked"
    BY <1>3, StatusOfCached DEF Create
  <2>. QED  BY <2>3, <2>4 DEF Board!Raise
<1>4. CASE Cached(k) # NoAlert
  <2>. DEFINE c == Cached(k)
  <2>1. c \in Alert /\ c.hits < MaxHits /\ c.state \in States
    BY <1>2, <1>4, CachedType DEF Process, Alert
  <2>2. Merge(c, s) \in Alert /\ Merge(c, s).state = c.state
    BY <1>2, <2>1, MergeType DEF Merge, Alert
  <2>3. CASE MergeSuppressed(k, s, ok) \/ MergeDuplicate(k, s, ok)
    <3>1. Save(k, Merge(c, s), FALSE, ok)
      BY <2>3 DEF MergeSuppressed, MergeDuplicate
    <3>. HIDE DEF c
    <3>2. UNCHANGED Board!boardVars
      BY <1>2, <1>4, <2>2, <3>1, SaveInvisible DEF c
    <3>. QED  BY <3>2
  <2>4. CASE Reactivate(k, s, ok)
    <3>1. Reactivated(c) \in Alert /\ Reactivated(c).hits < MaxHits
          /\ Reactivated(c).state = "ACTIVE"
      BY <2>1 DEF Reactivated, Alert, States
    <3>2. Merge(Reactivated(c), s) \in Alert /\ Merge(Reactivated(c), s).state = "ACTIVE"
      BY <1>2, <3>1, MergeType DEF Merge, Alert
    <3>3. Save(k, Merge(Reactivated(c), s), TRUE, ok) /\ c.state = "RESOLVED"
      BY <2>4 DEF Reactivate
    <3>4. Board!Change({k}, "open")
      BY <1>2, <3>2, <3>3, SaveOnBoard, StatusOfCached
    <3>5. boardStatus[k] = "closed"
      BY <1>4, <3>3, StatusOfCached
    <3>. QED  BY <3>4, <3>5 DEF Board!Raise
  <2>5. CASE MergeConfirm(k, s, ok)
    <3>1. Confirmed(Merge(c, s)) \in Alert /\ Confirmed(Merge(c, s)).state \in Open
          /\ c.state \in Open
      BY <2>2, <2>5 DEF MergeConfirm, Confirmed, Alert, States, Open
    <3>2. \A x \in Open : StatusOf(x) = "open"
      BY StatusOfCached DEF Open
    <3>3. Save(k, Confirmed(Merge(c, s)), TRUE, ok)
      BY <2>5 DEF MergeConfirm
    <3>4. StatusOf(Confirmed(Merge(c, s)).state) = StatusOf(c.state)
      BY <3>1, <3>2
    <3>. QED  BY <1>2, <1>4, <3>1, <3>3, <3>4, SaveInvisible
  <2>. QED  BY <1>1, <1>4, <2>3, <2>4, <2>5 DEF Create
<1>. QED  BY <1>1, <1>3, <1>4 DEF MergeSuppressed, Reactivate, MergeDuplicate, MergeConfirm

\* Resolving closes one issue, suppressing mutes it, unsuppressing unmutes it, and a
\* verdict is invisible.
LEMMA OperationOnBoard ==
  ASSUME EngineInv, EngineInv', ~SinkMayFail, NEW k \in Keys,
         \/ Resolve(k)
         \/ Suppress(k)
         \/ Unsuppress(k)
         \/ \E v \in Verdicts : SetVerdict(k, v)
  PROVE  \/ Board!Close({k}) \/ Board!Mute(k) \/ Board!Unmute(k)
         \/ UNCHANGED Board!boardVars
<1>. DEFINE c == Cached(k)
<1>1. /\ now' = now /\ TypeOK /\ c # NoAlert
  BY DEF Resolve, Suppress, Unsuppress, SetVerdict, EngineInv
<1>2. c \in Alert /\ c.state \in States /\ boardStatus[k] = StatusOf(c.state)
  BY <1>1, CachedType, StatusOfCached DEF Alert
<1>3. CASE Resolve(k)
  <2>1. PICK ok \in SinkOutcomes : Save(k, Resolved(c), TRUE, ok)
    BY <1>3 DEF Resolve
  <2>2. Resolved(c) \in Alert /\ Resolved(c).state = "RESOLVED"
    BY <1>1, <1>2 DEF Resolved, TypeOK, Alert, States
  <2>3. ok \in BOOLEAN
    BY SinkOutcomesType
  <2>4. Board!Change({k}, "closed")
    BY <1>1, <2>1, <2>2, <2>3, SaveOnBoard, StatusOfCached
  <2>5. boardStatus[k] \in {"open", "muted"}
    BY <1>2, <1>3, StatusOfCached DEF Resolve, States
  <2>. QED  BY <2>4, <2>5 DEF Board!Close
<1>4. CASE Suppress(k)
  <2>1. PICK ok \in SinkOutcomes : Save(k, Suppressed(c), TRUE, ok)
    BY <1>4 DEF Suppress
  <2>2. Suppressed(c) \in Alert /\ Suppressed(c).state = "SUPPRESSED"
    BY <1>2 DEF Suppressed, Alert, States
  <2>3. ok \in BOOLEAN
    BY SinkOutcomesType
  <2>4. Board!Change({k}, "muted")
    BY <1>1, <2>1, <2>2, <2>3, SaveOnBoard, StatusOfCached
  <2>5. boardStatus[k] # "untracked"
    BY <1>2, StatusOfCached DEF States
  <2>. QED  BY <2>4, <2>5 DEF Board!Mute
<1>5. CASE Unsuppress(k)
  <2>1. PICK ok \in SinkOutcomes : Save(k, Unsuppressed(c), TRUE, ok)
    BY <1>5 DEF Unsuppress
  <2>2. Unsuppressed(c) \in Alert /\ Unsuppressed(c).state = "ACTIVE"
    BY <1>2 DEF Unsuppressed, Alert, States
  <2>3. ok \in BOOLEAN
    BY SinkOutcomesType
  <2>4. Board!Change({k}, "open")
    BY <1>1, <2>1, <2>2, <2>3, SaveOnBoard, StatusOfCached
  <2>5. boardStatus[k] = "muted"
    BY <1>2, <1>5, StatusOfCached DEF Unsuppress
  <2>. QED  BY <2>4, <2>5 DEF Board!Unmute
<1>6. ASSUME NEW v \in Verdicts, SetVerdict(k, v)
      PROVE  UNCHANGED Board!boardVars
  <2>1. PICK ok \in SinkOutcomes : Save(k, Judged(c, v), TRUE, ok)
    BY <1>6 DEF SetVerdict
  <2>2. Judged(c, v) \in Alert /\ Judged(c, v).state = c.state
    BY <1>2 DEF Judged, Alert
  <2>3. ok \in BOOLEAN
    BY SinkOutcomesType
  <2>. QED  BY <1>1, <2>1, <2>2, <2>3, SaveInvisible
<1>. QED  BY <1>3, <1>4, <1>5, <1>6

\* A sweep pass closes exactly the issues that were due.
LEMMA SweepOnBoard ==
  ASSUME EngineInv, EngineInv', ~SinkMayFail, SweepOnce
  PROVE  Board!Close(Due)
<1>1. SweepPass(Due, {}) /\ now' = now /\ TypeOK
  BY DEF SweepOnce, EngineInv
<1>2. ASSUME NEW k \in Keys, k \in Due
      PROVE  boardStatus[k] = "open" /\ boardStatus'[k] = "closed"
  <2>1. Cached(k) \in Alert /\ Cached(k) # NoAlert /\ Cached(k).state \in Open
    BY <1>1, <1>2, CachedType DEF Due
  <2>2. boardStatus[k] = "open"
    BY <2>1, StatusOfCached DEF Open
  <2>3. cache'[k] = Resolved(Cached(k)) /\ expires'[k] = now + CacheTTL
    BY <1>1, <1>2 DEF SweepPass
  <2>4. Resolved(Cached(k)) \in Alert /\ Resolved(Cached(k)).state = "RESOLVED"
    BY <1>1, <2>1 DEF Resolved, TypeOK, Alert, States
  <2>5. now + CacheTTL >= now
    BY <1>1, TimingAssumption DEF TypeOK, Times
  <2>6. /\ Cached(k)' = Resolved(Cached(k))
        /\ Resolved(Cached(k)) # NoAlert
    BY <1>1, <2>3, <2>4, <2>5, DataAssumption DEF Cached
  <2>7. boardStatus'[k] = StatusOf("RESOLVED")
    BY <2>4, <2>6 DEF boardStatus, StatusOf
  <2>. QED  BY <2>2, <2>7, StatusOfCached
<1>3. ASSUME NEW k \in Keys, k \notin Due
      PROVE  boardStatus'[k] = boardStatus[k]
  <2>1. /\ cache'[k] = Cached(k)
        /\ expires'[k] = IF Cached(k) = NoAlert THEN 0 ELSE expires[k]
    BY <1>1, <1>3 DEF SweepPass
  <2>2. Cached(k)' = Cached(k)
    BY <1>1, <2>1 DEF Cached
  <2>. QED  BY <2>2 DEF boardStatus, StatusOf
<1>4. boardStatus' = [k \in Keys |-> IF k \in Due THEN "closed" ELSE boardStatus[k]]
  BY <1>2, <1>3 DEF boardStatus
<1>5. Board!Change(Due, "closed")
  BY <1>4, BoardChange
<1>6. \A k \in Due : boardStatus[k] \in {"open", "muted"}
  BY <1>2 DEF Due
<1>. QED  BY <1>5, <1>6 DEF Board!Close

\* Time and a crash only make the board forget.
LEMMA ForgetOnBoard ==
  ASSUME EngineInv, EngineInv', ~SinkMayFail, Tick \/ Crash
  PROVE  \E S \in SUBSET Keys : Board!Forget(S)
<1>. DEFINE S == {k \in Keys : Cached(k)' = NoAlert}
<1>1. ASSUME NEW k \in Keys, k \notin S
      PROVE  Cached(k)' = Cached(k)
  <2>1. CASE Tick
    <3>1. now' = now + 1 /\ cache'[k] = cache[k] /\ expires'[k] = expires[k]
      BY <2>1 DEF Tick
    <3>2. now \in Int /\ expires[k] \in Int
      BY TimingAssumption, BoundsAssumption DEF EngineInv, TypeOK, Times
    <3>. QED  BY <1>1, <3>1, <3>2 DEF Cached
  <2>2. CASE Crash
    BY <1>1, <2>2 DEF Crash, Cached
  <2>. QED  BY <2>1, <2>2
<1>2. boardStatus' = [k \in Keys |-> IF k \in S THEN "untracked" ELSE boardStatus[k]]
  <2>1. ASSUME NEW k \in Keys, k \in S
        PROVE  boardStatus'[k] = "untracked"
    BY <2>1 DEF boardStatus
  <2>2. ASSUME NEW k \in Keys, k \notin S
        PROVE  boardStatus'[k] = boardStatus[k]
    BY <1>1, <2>2 DEF boardStatus, StatusOf
  <2>. QED  BY <2>1, <2>2 DEF boardStatus
<1>3. Board!Change(S, "untracked")
  BY <1>2, BoardChange
<1>. QED  BY <1>3 DEF Board!Forget

\* Dropping an expired entry, and a restart, are invisible.
LEMMA HousekeepingInvisible ==
  ASSUME EngineInv, EngineInv', ~SinkMayFail,
         (\E k \in Keys : Evict(k)) \/ Restart \/ UNCHANGED vars
  PROVE  UNCHANGED Board!boardVars
<1>1. ASSUME NEW j \in Keys
      PROVE  Cached(j)' = Cached(j)
  <2>1. ASSUME NEW k \in Keys, Evict(k)
        PROVE  Cached(j)' = Cached(j)
    <3>1. CASE j = k
      BY <2>1, <3>1 DEF Evict, Cached, EngineInv, TypeOK
    <3>2. CASE j # k
      BY <2>1, <3>2 DEF Evict, Cached, EngineInv, TypeOK
    <3>. QED  BY <3>1, <3>2
  <2>. QED  BY <2>1 DEF Restart, vars, Cached
<1>2. \A j \in Keys : StatusOf(Cached(j).state)' = StatusOf(Cached(j).state)
  BY <1>1 DEF StatusOf
<1>. QED  BY <1>1, <1>2, BoardStutter

LEMMA NextOnBoard ==
  ASSUME EngineInv, EngineInv', ~SinkMayFail, [Next]_vars
  PROVE  [Board!BoardNext]_(Board!boardVars)
<1>1. ASSUME NEW k \in Keys, NEW s \in Severities, Process(k, s)
      PROVE  Board!BoardNext \/ UNCHANGED Board!boardVars
  BY <1>1, ProcessOnBoard DEF Board!BoardNext
<1>2. ASSUME NEW k \in Keys,
             Resolve(k) \/ Suppress(k) \/ Unsuppress(k) \/ \E v \in Verdicts : SetVerdict(k, v)
      PROVE  Board!BoardNext \/ UNCHANGED Board!boardVars
  BY <1>2, OperationOnBoard DEF Board!BoardNext
<1>3. CASE SweepOnce
  BY <1>3, SweepOnBoard DEF Board!BoardNext, Due
<1>4. CASE Tick \/ Crash
  BY <1>4, ForgetOnBoard DEF Board!BoardNext
<1>5. CASE (\E k \in Keys : Evict(k)) \/ Restart \/ UNCHANGED vars
  BY <1>5, HousekeepingInvisible
<1>. QED  BY <1>1, <1>2, <1>3, <1>4, <1>5 DEF Next

\* The engine with a reliable sink implements AlertBoard, for any number of issues
\* and any timing: an issue is raised only when it is untracked or closed, a muted one
\* comes back only by being unmuted or after it was closed, and each change is heard
\* in the step that makes it.
THEOREM EngineImplementsBoard == ASSUME ~SinkMayFail PROVE Spec => ImplementsBoard
<1>1. Init => Board!BoardInit
  BY DEF Init, Board!BoardInit, boardStatus, boardHeard, Cached
<1>2. EngineInv /\ EngineInv' /\ ~SinkMayFail /\ [Next]_vars
        => [Board!BoardNext]_(Board!boardVars)
  BY NextOnBoard
<1>3. Spec => []EngineInv
  BY TypeCorrect, IdsDistinct, WriteThrough, FollowersInformed, PTL DEF EngineInv
<1>4. []~SinkMayFail
  BY PTL
<1>. QED  BY <1>1, <1>2, <1>3, <1>4, PTL DEF Spec, ImplementsBoard, Board!BoardSpec

(* What the engine tracks, the rows of the table and what the followers of *)
(* the alerts.* topics know never part, for any keys, windows and bounds.  *)
THEOREM EverybodyAlwaysAgrees == Spec => []EverybodyAgrees
BY WriteThrough, FollowersInformed, PTL DEF EverybodyAgrees

-----------------------------------------------------------------------------
(* What a row tells of the past can be relied on, whatever the sink does.  *)

\* b is a later version of the alert a: nothing of its history is lost.
Grows(a, b) ==
  /\ b.key = a.key /\ b.first = a.first
  /\ b.hits >= a.hits /\ b.sev >= a.sev /\ b.last >= a.last

\* The counts, ranks and times of an alert are numbers.
LEMMA AlertNumbers ==
  ASSUME NEW a \in Alert
  PROVE  /\ a.hits \in Int /\ a.sev \in Int /\ a.last \in Int /\ a.id \in Int
         /\ a # NoAlert /\ a.id \in AlertIds
<1>1. a.hits \in 1..MaxHits /\ a.sev \in Severities /\ a.last \in Times /\ a.id \in AlertIds
  BY DEF Alert
<1>2. a # NoAlert
  BY DataAssumption
<1>3. a.hits \in Int
  BY <1>1
<1>4. a.sev \in Int
  <2>1. \A x \in Severities : x \in Nat
    BY DataAssumption
  <2>2. a.sev \in Nat
    BY <1>1, <2>1
  <2>. QED  BY <2>2
<1>5. a.last \in Int /\ a.id \in Int
  BY <1>1, BoundsAssumption DEF Times, AlertIds
<1>. QED  BY <1>1, <1>2, <1>3, <1>4, <1>5

\* A resolved alert is an alert, otherwise unchanged.
LEMMA ResolvedLater ==
  ASSUME TypeOK, NEW a \in Alert
  PROVE  /\ Resolved(a) \in Alert
         /\ Resolved(a).key = a.key /\ Resolved(a).first = a.first
         /\ Resolved(a).hits = a.hits /\ Resolved(a).sev = a.sev /\ Resolved(a).id = a.id
         /\ Resolved(a).last = a.last /\ Resolved(a).resolvedAt = now
BY DEF Resolved, TypeOK, Alert, States

LEMMA GrowsOn ==
  ASSUME NEW a \in Alert, NEW b \in Alert, NEW c \in Alert, Grows(a, b), Grows(b, c)
  PROVE  Grows(a, c)
<1>1. /\ a.hits \in Int /\ b.hits \in Int /\ c.hits \in Int
      /\ a.last \in Int /\ b.last \in Int /\ c.last \in Int
      /\ a.sev \in Int /\ b.sev \in Int /\ c.sev \in Int
  BY AlertNumbers
<1>2. /\ a.hits <= b.hits /\ b.hits <= c.hits /\ a.sev <= b.sev /\ b.sev <= c.sev
      /\ a.last <= b.last /\ b.last <= c.last
  BY <1>1 DEF Grows
<1>3. c.key = a.key /\ c.first = a.first
  BY DEF Grows
<1>4. c.hits >= a.hits /\ c.sev >= a.sev /\ c.last >= a.last
  BY <1>1, <1>2
<1>. QED  BY <1>3, <1>4 DEF Grows

(* The row of a tracked alert is that alert or, where the sink raised, an  *)
(* earlier version of it; rows have ids that were handed out; nothing was  *)
(* told of an id without a row; no event lies in the future.               *)
HistoryInv ==
  /\ \A k \in Keys : cache[k] # NoAlert /\ store[cache[k].id] # NoAlert
       => Grows(store[cache[k].id], cache[k])
  /\ \A i \in AlertIds : store[i] # NoAlert => i < nextId
  /\ AnnouncedIsDurable
  /\ LastSeenIsLastEvent
  /\ \A k \in Keys : detected[k] <= now

\* An operation on key k saves a fresh alert or a later version of the tracked one,
\* last seen when the key's last event was.
SavesLater(k) ==
  \E a \in Alert, tell \in BOOLEAN, ok \in BOOLEAN :
    /\ Save(k, a, tell, ok)
    /\ \/ Cached(k) = NoAlert /\ a.id = nextId /\ nextId' = nextId + 1
       \/ /\ Cached(k) # NoAlert /\ a.id = cache[k].id /\ nextId' = nextId
          /\ Grows(cache[k], a)
    /\ a.last = detected'[k] /\ detected'[k] <= now
    /\ a.state = "RESOLVED" => a.resolvedAt >= a.last
    /\ \A j \in Keys : j # k => detected'[j] = detected[j]
    /\ now' = now

\* An occurrence folded in makes the alert a later one.
LEMMA MergeGrows ==
  ASSUME TypeOK, NEW a \in Alert, NEW s \in Severities, a.hits < MaxHits, a.last <= now
  PROVE  /\ Merge(a, s) \in Alert /\ Grows(a, Merge(a, s))
         /\ Merge(a, s).id = a.id /\ Merge(a, s).last = now /\ Merge(a, s).state = a.state
<1>1. a.hits \in Int /\ a.sev \in Int /\ s \in Int /\ a.last \in Int /\ now \in Int
  BY AlertNumbers, BoundsAssumption, DataAssumption DEF TypeOK, Times
<1>2. /\ Merge(a, s).key = a.key /\ Merge(a, s).first = a.first /\ Merge(a, s).id = a.id
      /\ Merge(a, s).hits = a.hits + 1 /\ Merge(a, s).last = now /\ Merge(a, s).state = a.state
      /\ Merge(a, s).sev = IF s > a.sev THEN s ELSE a.sev
  BY DEF Merge, Alert
<1>3. Merge(a, s).hits >= a.hits /\ Merge(a, s).sev >= a.sev /\ Merge(a, s).last >= a.last
  BY <1>1, <1>2
<1>4. Grows(a, Merge(a, s))
  BY <1>2, <1>3 DEF Grows
<1>5. Merge(a, s) \in Alert
  BY MergeType
<1>. QED  BY <1>2, <1>4, <1>5

LEMMA ProcessSavesLater ==
  ASSUME TypeOK, TrackedDistinct, HistoryInv, NEW k \in Keys, NEW s \in Severities, Process(k, s)
  PROVE  SavesLater(k)
<1>1. PICK ok \in SinkOutcomes : \/ Create(k, s, ok)
                                 \/ MergeSuppressed(k, s, ok)
                                 \/ Reactivate(k, s, ok)
                                 \/ MergeDuplicate(k, s, ok)
                                 \/ MergeConfirm(k, s, ok)
  BY DEF Process
<1>2. /\ now' = now /\ detected'[k] = now /\ ok \in BOOLEAN /\ now \in Int
      /\ \A j \in Keys : j # k => detected'[j] = detected[j]
  BY SinkOutcomesType, BoundsAssumption DEF Process, TypeOK, Times
<1>3. CASE Create(k, s, ok)
  <2>. DEFINE a == NewAlert(k, s)
  <2>1. a \in Alert /\ a.id = nextId /\ a.last = now /\ a.state = "NEW"
    BY <1>3, NewAlertType DEF Create, NewAlert
  <2>2. Save(k, a, TRUE, ok) /\ Cached(k) = NoAlert /\ nextId' = nextId + 1
    BY <1>3 DEF Create
  <2>. HIDE DEF a
  <2>3. /\ a.last = detected'[k] /\ detected'[k] <= now
        /\ a.state = "RESOLVED" => a.resolvedAt >= a.last
    BY <1>2, <2>1
  <2>. QED  BY <1>2, <2>1, <2>2, <2>3 DEF SavesLater
<1>4. CASE Cached(k) # NoAlert
  <2>. DEFINE c == Cached(k)
  <2>1. /\ c = cache[k] /\ c \in Alert /\ c.hits < MaxHits /\ c.last <= now
        /\ c.last \in Int /\ c.hits \in Int /\ c.sev \in Int
    <3>1. c = cache[k] /\ c \in Alert /\ c.hits < MaxHits
      BY <1>4, CachedType DEF Process
    <3>2. c.last = detected[k] /\ detected[k] <= now
      BY <1>4, <3>1, DataAssumption DEF HistoryInv, LastSeenIsLastEvent
    <3>. QED  BY <3>1, <3>2, AlertNumbers
  <2>. HIDE DEF c
  <2>2. ASSUME NEW a \in Alert, NEW tell \in BOOLEAN, Save(k, a, tell, ok), Grows(c, a),
               a.id = c.id, a.last = now, a.state # "RESOLVED", nextId' = nextId
        PROVE  SavesLater(k)
    BY <1>2, <1>4, <2>1, <2>2 DEF SavesLater, c
  <2>3. /\ Merge(c, s) \in Alert /\ Grows(c, Merge(c, s)) /\ Merge(c, s).id = c.id
        /\ Merge(c, s).last = now /\ Merge(c, s).state = c.state
    BY <2>1, MergeGrows
  <2>4. CASE MergeSuppressed(k, s, ok)
    BY <2>2, <2>3, <2>4 DEF MergeSuppressed, c
  <2>5. CASE MergeDuplicate(k, s, ok)
    BY <2>2, <2>3, <2>5 DEF MergeDuplicate, Open, c
  <2>6. CASE MergeConfirm(k, s, ok)
    <3>. DEFINE m == Merge(c, s)
                a == Confirmed(m)
    <3>1. c.state \in Open /\ Save(k, a, TRUE, ok) /\ nextId' = nextId
      BY <2>6 DEF MergeConfirm, c
    <3>. HIDE DEF m
    <3>2. m \in Alert /\ Grows(c, m) /\ m.id = c.id /\ m.last = now /\ m.state \in Open
      BY <2>3, <3>1 DEF m
    <3>3. /\ a \in Alert /\ a.id = m.id /\ a.last = m.last /\ a.state # "RESOLVED"
          /\ a.key = m.key /\ a.first = m.first /\ a.hits = m.hits /\ a.sev = m.sev
      BY <3>2 DEF Confirmed, Alert, States, Open
    <3>. HIDE DEF a
    <3>4. Grows(c, a)
      BY <3>2, <3>3 DEF Grows
    <3>. QED  BY <2>2, <3>1, <3>2, <3>3, <3>4
  <2>7. CASE Reactivate(k, s, ok)
    <3>. DEFINE r == Reactivated(c)
                a == Merge(r, s)
    <3>1. Save(k, a, TRUE, ok) /\ nextId' = nextId
      BY <2>7 DEF Reactivate, c
    <3>2. /\ r \in Alert /\ r.id = c.id /\ r.last = c.last /\ r.state = "ACTIVE"
          /\ r.key = c.key /\ r.first = c.first /\ r.hits = c.hits /\ r.sev = c.sev
      BY <2>1 DEF Reactivated, Alert, States
    <3>. HIDE DEF r
    <3>3. /\ a \in Alert /\ Grows(r, a) /\ a.id = r.id /\ a.last = now /\ a.state = r.state
      BY <2>1, <3>2, MergeGrows
    <3>. HIDE DEF a
    <3>4. Grows(c, a)
      BY <3>2, <3>3 DEF Grows
    <3>. QED  BY <2>2, <3>1, <3>2, <3>3, <3>4
  <2>. QED  BY <1>1, <1>3, <2>4, <2>5, <2>6, <2>7
<1>. QED
  BY <1>1, <1>3, <1>4 DEF MergeSuppressed, Reactivate, MergeDuplicate, MergeConfirm

LEMMA OperationSavesLater ==
  ASSUME TypeOK, TrackedDistinct, HistoryInv, NEW k \in Keys,
         \/ Resolve(k)
         \/ Suppress(k)
         \/ Unsuppress(k)
         \/ \E v \in Verdicts : SetVerdict(k, v)
  PROVE  SavesLater(k)
<1>. DEFINE c == Cached(k)
<1>1. now' = now /\ detected' = detected /\ nextId' = nextId /\ c # NoAlert
  BY DEF Resolve, Suppress, Unsuppress, SetVerdict
<1>2. /\ c = cache[k] /\ c \in Alert /\ c.last = detected[k] /\ detected[k] <= now
      /\ c.state = "RESOLVED" => c.resolvedAt >= c.last
      /\ c.hits \in Int /\ c.sev \in Int /\ c.last \in Int
  <2>1. c = cache[k] /\ c \in Alert
    BY <1>1, CachedType
  <2>2. /\ c.last = detected[k] /\ detected[k] <= now
        /\ c.state = "RESOLVED" => c.resolvedAt >= c.last
    BY <1>1, <2>1 DEF HistoryInv, LastSeenIsLastEvent
  <2>. QED  BY <2>1, <2>2, AlertNumbers
<1>. HIDE DEF c
<1>3. ASSUME NEW a \in Alert, NEW ok \in SinkOutcomes, Save(k, a, TRUE, ok), a.id = c.id,
             a.key = c.key, a.first = c.first, a.hits = c.hits, a.sev = c.sev, a.last = c.last,
             a.state = "RESOLVED" => a.resolvedAt >= a.last
      PROVE  SavesLater(k)
  <2>1. Grows(c, a) /\ ok \in BOOLEAN
    BY <1>2, <1>3, SinkOutcomesType DEF Grows
  <2>. QED  BY <1>1, <1>2, <1>3, <2>1 DEF SavesLater, c
<1>4. CASE Resolve(k)
  <2>1. PICK ok \in SinkOutcomes : Save(k, Resolved(c), TRUE, ok)
    BY <1>4 DEF Resolve, c
  <2>2. /\ Resolved(c) \in Alert /\ Resolved(c).id = c.id /\ Resolved(c).key = c.key
        /\ Resolved(c).first = c.first /\ Resolved(c).hits = c.hits /\ Resolved(c).sev = c.sev
        /\ Resolved(c).last = c.last /\ Resolved(c).resolvedAt = now
    BY <1>2, ResolvedLater
  <2>. QED  BY <1>2, <1>3, <2>1, <2>2
<1>5. CASE Suppress(k)
  <2>1. PICK ok \in SinkOutcomes : Save(k, Suppressed(c), TRUE, ok)
    BY <1>5 DEF Suppress, c
  <2>2. /\ Suppressed(c) \in Alert /\ Suppressed(c).id = c.id /\ Suppressed(c).key = c.key
        /\ Suppressed(c).first = c.first /\ Suppressed(c).hits = c.hits /\ Suppressed(c).sev = c.sev
        /\ Suppressed(c).last = c.last /\ Suppressed(c).state = "SUPPRESSED"
    BY <1>2 DEF Suppressed, Alert, States
  <2>. QED  BY <1>3, <2>1, <2>2
<1>6. CASE Unsuppress(k)
  <2>1. PICK ok \in SinkOutcomes : Save(k, Unsuppressed(c), TRUE, ok)
    BY <1>6 DEF Unsuppress, c
  <2>2. /\ Unsuppressed(c) \in Alert /\ Unsuppressed(c).id = c.id /\ Unsuppressed(c).key = c.key
        /\ Unsuppressed(c).first = c.first /\ Unsuppressed(c).hits = c.hits
        /\ Unsuppressed(c).sev = c.sev
        /\ Unsuppressed(c).last = c.last /\ Unsuppressed(c).state = "ACTIVE"
    BY <1>2 DEF Unsuppressed, Alert, States
  <2>. QED  BY <1>3, <2>1, <2>2
<1>7. ASSUME NEW v \in Verdicts, SetVerdict(k, v)
      PROVE  SavesLater(k)
  <2>1. PICK ok \in SinkOutcomes : Save(k, Judged(c, v), TRUE, ok)
    BY <1>7 DEF SetVerdict, c
  <2>2. /\ Judged(c, v) \in Alert /\ Judged(c, v).id = c.id /\ Judged(c, v).key = c.key
        /\ Judged(c, v).first = c.first /\ Judged(c, v).hits = c.hits /\ Judged(c, v).sev = c.sev
        /\ Judged(c, v).last = c.last /\ Judged(c, v).state = c.state
        /\ Judged(c, v).resolvedAt = c.resolvedAt
    BY <1>2 DEF Judged, Alert
  <2>. QED  BY <1>2, <1>3, <2>1, <2>2
<1>. QED  BY <1>4, <1>5, <1>6, <1>7

\* A step that keeps the history: the invariant goes on, and no row loses anything.
KeepsHistory ==
  /\ HistoryInv'
  /\ \A i \in AlertIds : store[i] # NoAlert => store'[i] # NoAlert /\ Grows(store[i], store'[i])

LEMMA GrowsSame ==
  ASSUME NEW a \in Alert
  PROVE  Grows(a, a)
BY AlertNumbers DEF Grows

LEMMA SavesLaterKeepsHistory ==
  ASSUME TypeOK, TypeOK', TrackedDistinct, HistoryInv, NEW k \in Keys, SavesLater(k)
  PROVE  KeepsHistory
<1>1. PICK a \in Alert, tell \in BOOLEAN, ok \in BOOLEAN :
        /\ Save(k, a, tell, ok)
        /\ \/ Cached(k) = NoAlert /\ a.id = nextId /\ nextId' = nextId + 1
           \/ /\ Cached(k) # NoAlert /\ a.id = cache[k].id /\ nextId' = nextId
              /\ Grows(cache[k], a)
        /\ a.last = detected'[k] /\ detected'[k] <= now
        /\ a.state = "RESOLVED" => a.resolvedAt >= a.last
        /\ \A j \in Keys : j # k => detected'[j] = detected[j]
        /\ now' = now
  BY DEF SavesLater
<1>2. /\ cache' = [cache EXCEPT ![k] = a] /\ a # NoAlert /\ a.id \in AlertIds
      /\ store' = IF ok THEN [store EXCEPT ![a.id] = a] ELSE store
      /\ told' = IF ok /\ tell THEN [told EXCEPT ![a.id] = a.state] ELSE told
      /\ nextId \in Int /\ nextId' \in Int /\ nextId <= nextId' /\ a.id < nextId'
  <2>1. Cached(k) # NoAlert => cache[k].id < nextId
    BY CachedType DEF TrackedDistinct
  <2>. QED  BY <1>1, <2>1, DataAssumption DEF Save, TypeOK, Alert
<1>3. store[a.id] # NoAlert => Grows(store[a.id], a)
  <2>1. CASE Cached(k) = NoAlert
    BY <1>1, <1>2, <2>1 DEF HistoryInv
  <2>2. CASE Cached(k) # NoAlert
    <3>1. cache[k] \in Alert /\ cache[k] # NoAlert
      BY <2>2, CachedType
    <3>2. store[a.id] # NoAlert => store[a.id] \in Alert /\ Grows(store[a.id], cache[k])
      BY <1>1, <1>2, <2>2, <3>1 DEF HistoryInv, TypeOK
    <3>. QED  BY <1>1, <2>2, <3>1, <3>2, GrowsOn
  <2>. QED  BY <2>1, <2>2
<1>4. \A i \in AlertIds : store[i] # NoAlert => store'[i] # NoAlert /\ Grows(store[i], store'[i])
  <2>. SUFFICES ASSUME NEW i \in AlertIds, store[i] # NoAlert
                PROVE  store'[i] # NoAlert /\ Grows(store[i], store'[i])
    OBVIOUS
  <2>1. CASE ok /\ i = a.id
    BY <1>2, <1>3, <2>1 DEF TypeOK
  <2>2. CASE ~ (ok /\ i = a.id)
    <3>1. store'[i] = store[i] /\ store[i] \in Alert
      BY <1>2, <2>2 DEF TypeOK
    <3>. QED  BY <3>1, GrowsSame
  <2>. QED  BY <2>1, <2>2
<1>5. ASSUME NEW j \in Keys, cache'[j] # NoAlert, store'[cache'[j].id] # NoAlert
      PROVE  Grows(store'[cache'[j].id], cache'[j])
  <2>1. CASE j = k
    <3>1. cache'[j] = a
      BY <1>2, <2>1 DEF TypeOK
    <3>2. CASE ok
      BY <1>2, <3>1, <3>2, GrowsSame DEF TypeOK
    <3>3. CASE ~ ok
      BY <1>2, <1>3, <1>5, <3>1, <3>3
    <3>. QED  BY <3>2, <3>3
  <2>2. CASE j # k
    <3>1. cache'[j] = cache[j] /\ cache[j] # NoAlert /\ cache[j].id \in AlertIds
      BY <1>2, <1>5, <2>2 DEF TypeOK, Alert
    <3>2. cache[j].id # a.id
      <4>1. cache[j].id < nextId /\ cache[j].id \in Int
        BY <3>1 DEF TrackedDistinct, AlertIds
      <4>2. Cached(k) # NoAlert => cache[k] # NoAlert
        BY CachedType
      <4>. QED  BY <1>1, <1>2, <2>2, <3>1, <4>1, <4>2 DEF TrackedDistinct
    <3>3. store'[cache[j].id] = store[cache[j].id]
      BY <1>2, <3>1, <3>2 DEF TypeOK
    <3>. QED  BY <1>5, <3>1, <3>3 DEF HistoryInv
  <2>. QED  BY <2>1, <2>2
<1>6. \A i \in AlertIds : store'[i] # NoAlert => i < nextId'
  <2>. SUFFICES ASSUME NEW i \in AlertIds, store'[i] # NoAlert, i # a.id
                PROVE  i < nextId'
    BY <1>2
  <2>1. store[i] # NoAlert /\ i \in Int
    BY <1>2 DEF TypeOK, AlertIds
  <2>2. i < nextId
    BY <2>1 DEF HistoryInv
  <2>. QED  BY <1>2, <2>1, <2>2
<1>7. AnnouncedIsDurable'
  BY <1>2 DEF HistoryInv, AnnouncedIsDurable, TypeOK
<1>8. LastSeenIsLastEvent'
  BY <1>1, <1>2 DEF HistoryInv, LastSeenIsLastEvent, TypeOK
<1>9. \A j \in Keys : detected'[j] <= now'
  BY <1>1 DEF HistoryInv
<1>. QED  BY <1>4, <1>5, <1>6, <1>7, <1>8, <1>9 DEF HistoryInv, KeepsHistory

LEMMA SweepKeepsHistory ==
  ASSUME TypeOK, TrackedDistinct, HistoryInv, SweepOnce
  PROVE  KeepsHistory
<1>1. PICK done \in SUBSET Due, failed \in SUBSET Due : SweepPass(done, failed)
  BY DEF SweepOnce
<1>2. UNCHANGED <<now, nextId, detected>> /\ now \in Int
  BY BoundsAssumption DEF SweepOnce, TypeOK, Times
<1>3. ASSUME NEW k \in Keys, cache[k] # NoAlert
      PROVE  /\ cache[k] \in Alert /\ cache[k].id \in AlertIds
             /\ Resolved(cache[k]) # NoAlert /\ Grows(cache[k], Resolved(cache[k]))
             /\ Resolved(cache[k]).id = cache[k].id
             /\ Resolved(cache[k]).last = cache[k].last /\ Resolved(cache[k]).resolvedAt = now
  <2>1. cache[k] \in Alert
    BY <1>3 DEF TypeOK
  <2>2. /\ Resolved(cache[k]) \in Alert
        /\ Resolved(cache[k]).key = cache[k].key /\ Resolved(cache[k]).first = cache[k].first
        /\ Resolved(cache[k]).hits = cache[k].hits /\ Resolved(cache[k]).sev = cache[k].sev
        /\ Resolved(cache[k]).id = cache[k].id
        /\ Resolved(cache[k]).last = cache[k].last /\ Resolved(cache[k]).resolvedAt = now
    BY <2>1, ResolvedLater
  <2>3. Grows(cache[k], Resolved(cache[k]))
    BY <2>1, <2>2, GrowsSame DEF Grows
  <2>. QED  BY <2>1, <2>2, <2>3, DataAssumption DEF Alert
<1>4. ASSUME NEW k \in done
      PROVE  /\ k \in Keys /\ cache[k] # NoAlert /\ cache[k].id \in AlertIds
             /\ KeyOf(cache[k].id, done) = k
             /\ store'[cache[k].id] = Resolved(cache[k]) /\ told'[cache[k].id] = "RESOLVED"
  <2>1. \A j \in done : j \in Keys /\ cache[j] # NoAlert
    BY DEF Due, Cached
  <2>2. cache[k].id \in AlertIds
    BY <1>3, <2>1
  <2>3. KeyOf(cache[k].id, done) = k
    BY <2>1, KeyOfSwept DEF TrackedDistinct
  <2>. QED  BY <1>1, <2>1, <2>2, <2>3 DEF SweepPass
<1>5. ASSUME NEW i \in AlertIds, ~ \E k \in done : cache[k].id = i
      PROVE  store'[i] = store[i] /\ told'[i] = told[i]
  BY <1>1, <1>5 DEF SweepPass
<1>6. \A i \in AlertIds : store[i] # NoAlert => store'[i] # NoAlert /\ Grows(store[i], store'[i])
  <2>. SUFFICES ASSUME NEW i \in AlertIds, store[i] # NoAlert
                PROVE  store'[i] # NoAlert /\ Grows(store[i], store'[i])
    OBVIOUS
  <2>0. store[i] \in Alert
    BY DEF TypeOK
  <2>1. ASSUME NEW k \in done, cache[k].id = i
        PROVE  store'[i] # NoAlert /\ Grows(store[i], store'[i])
    <3>1. /\ k \in Keys /\ cache[k] # NoAlert /\ cache[k] \in Alert
          /\ store'[i] = Resolved(cache[k]) /\ Resolved(cache[k]) # NoAlert
          /\ Grows(cache[k], Resolved(cache[k]))
      BY <1>3, <1>4, <2>1
    <3>2. Grows(store[i], cache[k])
      BY <2>1, <3>1 DEF HistoryInv
    <3>3. Resolved(cache[k]) \in Alert
      BY <3>1, ResolvedLater
    <3>. QED  BY <2>0, <3>1, <3>2, <3>3, GrowsOn
  <2>2. CASE ~ \E k \in done : cache[k].id = i
    BY <1>5, <2>0, <2>2, GrowsSame
  <2>. QED  BY <2>1, <2>2
<1>7. ASSUME NEW k \in Keys, cache'[k] # NoAlert
      PROVE  /\ cache[k] # NoAlert /\ cache[k] \in Alert /\ cache'[k].id = cache[k].id
             /\ cache'[k] = IF k \in done \cup failed THEN Resolved(cache[k]) ELSE cache[k]
  BY <1>1, <1>7, SweepKeepsIds
<1>8. ASSUME NEW k \in Keys, cache'[k] # NoAlert, store'[cache'[k].id] # NoAlert
      PROVE  Grows(store'[cache'[k].id], cache'[k])
  <2>1. CASE k \in done
    <3>1. cache'[k] = Resolved(cache[k]) /\ store'[cache'[k].id] = Resolved(cache[k])
      BY <1>4, <1>7, <1>8, <2>1
    <3>2. Resolved(cache[k]) \in Alert
      BY <1>7, <1>8, ResolvedLater
    <3>. QED  BY <3>1, <3>2, GrowsSame
  <2>2. CASE k \notin done
    <3>1. ~ \E j \in done : cache[j].id = cache[k].id
      BY <1>4, <1>7, <1>8, <2>2 DEF TrackedDistinct
    <3>2. store'[cache'[k].id] = store[cache[k].id] /\ cache[k].id \in AlertIds
      BY <1>3, <1>5, <1>7, <1>8, <3>1
    <3>3. store[cache[k].id] \in Alert /\ Grows(store[cache[k].id], cache[k])
      BY <1>7, <1>8, <3>2 DEF HistoryInv, TypeOK
    <3>4. CASE k \in failed
      <4>1. cache'[k] = Resolved(cache[k]) /\ Resolved(cache[k]) \in Alert
        BY <1>7, <1>8, <3>4, ResolvedLater
      <4>. QED  BY <1>3, <1>7, <1>8, <3>2, <3>3, <4>1, GrowsOn
    <3>5. CASE k \notin failed
      BY <1>7, <1>8, <2>2, <3>2, <3>3, <3>5
    <3>. QED  BY <3>4, <3>5
  <2>. QED  BY <2>1, <2>2
<1>9. \A i \in AlertIds : store'[i] # NoAlert => i < nextId'
  <2>. SUFFICES ASSUME NEW i \in AlertIds, store'[i] # NoAlert
                PROVE  i < nextId
    BY <1>2
  <2>1. ASSUME NEW k \in done, cache[k].id = i
        PROVE  i < nextId
    BY <1>4, <2>1 DEF TrackedDistinct
  <2>2. CASE ~ \E k \in done : cache[k].id = i
    BY <1>5, <2>2 DEF HistoryInv
  <2>. QED  BY <2>1, <2>2
<1>10. AnnouncedIsDurable'
  <2>. SUFFICES ASSUME NEW i \in AlertIds, told'[i] # NoAlert
                PROVE  store'[i] # NoAlert
    BY DEF AnnouncedIsDurable
  <2>1. ASSUME NEW k \in done, cache[k].id = i
        PROVE  store'[i] # NoAlert
    BY <1>3, <1>4, <2>1
  <2>2. CASE ~ \E k \in done : cache[k].id = i
    BY <1>5, <2>2 DEF HistoryInv, AnnouncedIsDurable
  <2>. QED  BY <2>1, <2>2
<1>11. LastSeenIsLastEvent'
  <2>. SUFFICES ASSUME NEW k \in Keys, cache'[k] # NoAlert
                PROVE  /\ cache'[k].last = detected[k]
                       /\ cache'[k].state = "RESOLVED" => cache'[k].resolvedAt >= cache'[k].last
    BY <1>2 DEF LastSeenIsLastEvent
  <2>1. cache[k].last = detected[k] /\ detected[k] <= now
    BY <1>7 DEF HistoryInv, LastSeenIsLastEvent
  <2>2. CASE k \in done \cup failed
    BY <1>3, <1>7, <2>1, <2>2
  <2>3. CASE k \notin done \cup failed
    BY <1>7, <2>1, <2>3 DEF HistoryInv, LastSeenIsLastEvent
  <2>. QED  BY <2>2, <2>3
<1>12. \A k \in Keys : detected'[k] <= now'
  BY <1>2 DEF HistoryInv
<1>. QED  BY <1>6, <1>8, <1>9, <1>10, <1>11, <1>12 DEF HistoryInv, KeepsHistory

LEMMA OthersKeepHistory ==
  ASSUME TypeOK, HistoryInv,
         (\E k \in Keys : Evict(k)) \/ Tick \/ Crash \/ Restart \/ UNCHANGED vars
  PROVE  KeepsHistory
<1>1. \A i \in AlertIds : store[i] # NoAlert => Grows(store[i], store[i])
  BY GrowsSame DEF TypeOK
<1>2. store' = store /\ nextId' = nextId /\ told' = told /\ detected' = detected
  BY DEF Evict, Tick, Crash, Restart, vars
<1>3. \A k \in Keys : cache'[k] = NoAlert \/ cache'[k] = cache[k]
  BY DEF Evict, Tick, Crash, Restart, vars, TypeOK
<1>4. now \in Int /\ now' \in Int /\ now <= now' /\ \A k \in Keys : detected[k] \in Int
  BY BoundsAssumption DEF Evict, Tick, Crash, Restart, vars, TypeOK, Times, Never
<1>5. \A k \in Keys : detected'[k] <= now'
  BY <1>2, <1>4 DEF HistoryInv
<1>6. LastSeenIsLastEvent' /\ AnnouncedIsDurable'
  BY <1>2, <1>3 DEF HistoryInv, LastSeenIsLastEvent, AnnouncedIsDurable
<1>. QED  BY <1>1, <1>2, <1>3, <1>5, <1>6 DEF HistoryInv, KeepsHistory

LEMMA NextKeepsHistory ==
  ASSUME TypeOK, TypeOK', TrackedDistinct, HistoryInv, [Next]_vars
  PROVE  KeepsHistory
<1>1. ASSUME NEW k \in Keys, NEW s \in Severities, Process(k, s)
      PROVE  KeepsHistory
  BY <1>1, ProcessSavesLater, SavesLaterKeepsHistory
<1>2. ASSUME NEW k \in Keys,
             Resolve(k) \/ Suppress(k) \/ Unsuppress(k) \/ \E v \in Verdicts : SetVerdict(k, v)
      PROVE  KeepsHistory
  BY <1>2, OperationSavesLater, SavesLaterKeepsHistory
<1>. QED  BY <1>1, <1>2, SweepKeepsHistory, OthersKeepHistory DEF Next

LEMMA HistoryInvariant == Spec => []HistoryInv
<1>1. Init => HistoryInv
  BY TimingAssumption, BoundsAssumption DEF Init, HistoryInv, AnnouncedIsDurable, LastSeenIsLastEvent, Never
<1>2. TypeOK /\ TypeOK' /\ TrackedDistinct /\ HistoryInv /\ [Next]_vars => HistoryInv'
  BY NextKeepsHistory DEF KeepsHistory
<1>. QED  BY <1>1, <1>2, TypeCorrect, IdsDistinct, PTL DEF Spec

(* A row's history can be relied on, also with a table that refuses writes *)
(* at any moment, for any keys, windows and bounds.                        *)
THEOREM HistoryAlwaysKept == Spec => HistoryIsKept
<1>1. TypeOK /\ TypeOK' /\ TrackedDistinct /\ HistoryInv /\ [Next]_vars => KeepsHistory
  BY NextKeepsHistory
<1>2. KeepsHistory => [\A i \in AlertIds : store[i] # NoAlert =>
       /\ store'[i] # NoAlert
       /\ store'[i].key = store[i].key
       /\ store'[i].first = store[i].first
       /\ store'[i].hits >= store[i].hits
       /\ store'[i].sev >= store[i].sev
       /\ store'[i].last >= store[i].last]_vars
  BY DEF KeepsHistory, Grows
<1>3. HistoryInv => LastSeenIsLastEvent /\ AnnouncedIsDurable
  BY DEF HistoryInv
<1>. QED  BY <1>1, <1>2, <1>3, HistoryInvariant, TypeCorrect, IdsDistinct, PTL
          DEF Spec, HistoryIsKept, RowsMonotone

-----------------------------------------------------------------------------
(* The sweeper and the detections that are still coming in.                *)

\* What a pass resolves has been quiet for ResolveAfter: last_seen, by which the
\* sweeper goes, is the time of the key's last event in every state.
LEMMA SweepSpares ==
  ASSUME TypeOK, LastSeenIsLastEvent, SweepOnce, NEW k \in Keys,
         cache[k] # NoAlert, cache[k].state \in Open,
         cache'[k] # NoAlert, cache'[k].state = "RESOLVED"
  PROVE  now - detected[k] >= ResolveAfter
<1>1. PICK done \in SUBSET Due, failed \in SUBSET Due : SweepPass(done, failed)
  BY DEF SweepOnce
<1>2. cache'[k] = IF k \in done \cup failed THEN Resolved(cache[k]) ELSE cache[k]
  BY <1>1, SweepKeepsIds
<1>3. k \in Due
  BY <1>2 DEF Open
<1>4. Cached(k) = cache[k] /\ now - cache[k].last >= ResolveAfter
  BY <1>3, CachedType DEF Due
<1>. QED  BY <1>4 DEF LastSeenIsLastEvent

(* The sweeper never closes a live issue, whatever the windows, and also   *)
(* when a pass is cut short by the table.                                  *)
THEOREM SweepsSpareTheLive == Spec => SweepSparesLive
<1>1. TypeOK /\ LastSeenIsLastEvent =>
        \A k \in Keys :
          /\ cache[k] # NoAlert /\ cache[k].state \in Open
          /\ cache'[k] # NoAlert /\ cache'[k].state = "RESOLVED"
          /\ SweepOnce
          => now - detected[k] >= ResolveAfter
  BY SweepSpares
<1>2. Spec => []LastSeenIsLastEvent
  BY HistoryAlwaysKept DEF HistoryIsKept
<1>. QED  BY <1>1, <1>2, TypeCorrect, PTL DEF SweepSparesLive

=============================================================================
