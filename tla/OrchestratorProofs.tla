-------------------------- MODULE OrchestratorProofs --------------------------
(***************************************************************************)
(* Proofs about Orchestrator, for every set of keys and tasks, every       *)
(* interleaving of verifications, operators, sweeps and crashes, and every *)
(* bound.  The table takes every write (ReliableSink).                     *)
(***************************************************************************)
EXTENDS Orchestrator, TriggerEngineProofs

-----------------------------------------------------------------------------
(* What the steps do to the engine under the gate.                         *)

\* No entry of the cache is kept longer than its time to live.
ExpiresSoon == \A k \in Keys : expires[k] <= now + CacheTTL

\* Rows have ids that were handed out.
RowsNumbered == \A i \in AlertIds : store[i] # NoAlert => i < nextId

EngineOK ==
  TypeOK /\ TrackedDistinct /\ CacheStoreAgree /\ ExpiresSoon /\ RowsNumbered

\* What is served under a key stays the same alert, for as long at least.
KeepsServed ==
  \A k \in Keys : Cached(k) # NoAlert =>
    cache'[k] # NoAlert /\ cache'[k].id = cache[k].id /\ expires'[k] >= expires[k]

Untracked(i) == \A k \in Keys : cache[k] # NoAlert => cache[k].id # i

\* An alert that is in the table only is never tracked again.
UntrackedStays ==
  \A i \in AlertIds : store[i] # NoAlert /\ Untracked(i) =>
    \A k \in Keys : cache'[k] # NoAlert => cache'[k].id # i

\* No row appears and no row's verdict changes.
KeepsRows ==
  \A i \in AlertIds : store'[i] # NoAlert =>
    store[i] # NoAlert /\ store'[i].verdict = store[i].verdict

\* Only the row of the alert tracked under k may have a new verdict, v.
StampsRow(k, v) ==
  \A i \in AlertIds : store'[i] # NoAlert =>
    /\ store[i] # NoAlert
    /\ \/ store'[i].verdict = store[i].verdict
       \/ Cached(k) # NoAlert /\ i = cache[k].id /\ store'[i].verdict = v

LEMMA SinkReturns == \A ok \in SinkOutcomes : ok = TRUE
BY ReliableSink DEF SinkOutcomes

\* Numbers of the cache and the clock.
LEMMA EngineNumbers ==
  ASSUME TypeOK
  PROVE  /\ now \in Int /\ nextId \in Int /\ CacheTTL \in Int /\ CacheTTL >= 0
         /\ \A k \in Keys : expires[k] \in Int
         /\ \A i \in AlertIds : i \in Int
BY TimingAssumption, BoundsAssumption DEF TypeOK, Times, AlertIds

LEMMA SavesOneCaches ==
  ASSUME EngineOK, NEW k \in Keys, SavesOne(k)
  PROVE  KeepsServed /\ UntrackedStays /\ ExpiresSoon' /\ RowsNumbered'
<1>1. PICK a \in Alert :
        /\ cache' = [cache EXCEPT ![k] = a]
        /\ expires' = [expires EXCEPT ![k] = now + CacheTTL]
        /\ store' = [store EXCEPT ![a.id] = a]
        /\ \/ Cached(k) = NoAlert /\ a.id = nextId /\ nextId' = nextId + 1
           \/ Cached(k) # NoAlert /\ a.id = cache[k].id /\ nextId' = nextId
        /\ now' = now
  BY SinkReturns DEF SavesOne, Save
<1>2. /\ a # NoAlert /\ a.id \in AlertIds
      /\ Cached(k) # NoAlert => cache[k] # NoAlert
  BY AlertNumbers DEF Cached
<1>3. /\ cache'[k] = a /\ expires'[k] = now + CacheTTL
      /\ \A j \in Keys : j # k => cache'[j] = cache[j] /\ expires'[j] = expires[j]
  BY <1>1 DEF EngineOK, TypeOK
<1>4. ExpiresSoon'
  BY <1>1, <1>3, EngineNumbers DEF EngineOK, ExpiresSoon
<1>5. KeepsServed
  <2>. SUFFICES ASSUME NEW j \in Keys, Cached(j) # NoAlert
                PROVE  cache'[j] # NoAlert /\ cache'[j].id = cache[j].id /\ expires'[j] >= expires[j]
    BY DEF KeepsServed
  <2>1. CASE j = k
    <3>1. expires'[k] >= expires[k]
      BY <1>3, EngineNumbers DEF EngineOK, ExpiresSoon
    <3>. QED  BY <1>1, <1>2, <1>3, <2>1, <3>1
  <2>2. CASE j # k
    <3>1. expires[j] >= expires[j]
      BY EngineNumbers DEF EngineOK
    <3>2. cache[j] # NoAlert
      BY DEF Cached
    <3>. QED  BY <1>3, <2>2, <3>1, <3>2
  <2>. QED  BY <2>1, <2>2
<1>6. UntrackedStays
  <2>. SUFFICES ASSUME NEW i \in AlertIds, store[i] # NoAlert, Untracked(i),
                       NEW j \in Keys, cache'[j] # NoAlert
                PROVE  cache'[j].id # i
    BY DEF UntrackedStays
  <2>1. CASE j # k
    BY <1>3, <2>1 DEF Untracked
  <2>2. CASE j = k /\ Cached(k) # NoAlert
    BY <1>1, <1>2, <1>3, <2>2 DEF Untracked
  <2>3. CASE j = k /\ a.id = nextId
    <3>1. i < nextId /\ i \in Int /\ nextId \in Int
      BY EngineNumbers DEF EngineOK, RowsNumbered
    <3>2. i # nextId
      BY <3>1
    <3>. QED  BY <1>3, <2>3, <3>2
  <2>. QED  BY <1>1, <2>1, <2>2, <2>3
<1>7. RowsNumbered'
  <2>. SUFFICES ASSUME NEW i \in AlertIds, store'[i] # NoAlert
                PROVE  i < nextId'
    BY DEF RowsNumbered
  <2>1. i \in Int /\ nextId \in Int
    BY EngineNumbers DEF EngineOK
  <2>2. CASE i # a.id
    <3>1. store[i] # NoAlert
      BY <1>1, <2>2 DEF EngineOK, TypeOK
    <3>2. i < nextId
      BY <3>1 DEF EngineOK, RowsNumbered
    <3>. QED  BY <1>1, <2>1, <3>2
  <2>3. CASE i = nextId /\ nextId' = nextId + 1
    BY <2>1, <2>3
  <2>4. CASE i = cache[k].id /\ Cached(k) # NoAlert /\ nextId' = nextId
    BY <1>2, <2>4 DEF EngineOK, TrackedDistinct
  <2>. QED  BY <1>1, <2>2, <2>3, <2>4
<1>. QED  BY <1>4, <1>5, <1>6, <1>7

\* Time, the sweeper and the process's end and start.
LEMMA CalmCaches ==
  ASSUME EngineOK,
         (\E k \in Keys : Evict(k)) \/ SweepOnce \/ Tick \/ Crash \/ Restart \/ UNCHANGED vars
  PROVE  UntrackedStays /\ ExpiresSoon' /\ RowsNumbered' /\ (Crash \/ KeepsServed)
<1>0. /\ now \in Int /\ CacheTTL \in Int /\ CacheTTL >= 0 /\ 0 <= now
      /\ \A k \in Keys : expires[k] \in Int
  BY EngineNumbers, BoundsAssumption DEF EngineOK, TypeOK, Times
<1>1. ASSUME NEW k \in Keys, Evict(k)
      PROVE  UntrackedStays /\ ExpiresSoon' /\ RowsNumbered' /\ KeepsServed
  <2>1. /\ Cached(k) = NoAlert /\ UNCHANGED <<now, store, nextId>>
        /\ cache'[k] = NoAlert /\ expires'[k] = 0
        /\ \A j \in Keys : j # k => cache'[j] = cache[j] /\ expires'[j] = expires[j]
    BY <1>1 DEF Evict, EngineOK, TypeOK
  <2>2. ExpiresSoon'
    BY <1>0, <2>1 DEF EngineOK, ExpiresSoon
  <2>3. \A j \in Keys : Cached(j) # NoAlert => j # k /\ cache[j] # NoAlert /\ expires[j] >= expires[j]
    BY <1>0, <2>1 DEF Cached
  <2>. QED  BY <2>1, <2>2, <2>3 DEF UntrackedStays, Untracked, RowsNumbered, KeepsServed, EngineOK
<1>2. CASE SweepOnce
  <2>1. SweepPass(Due, {}) /\ UNCHANGED <<now, nextId>>
    BY <1>2, ReliableSink DEF SweepOnce
  <2>2. \A k \in Keys : cache'[k] # NoAlert => cache[k] # NoAlert /\ cache'[k].id = cache[k].id
    <3>1. SweepPass(Due, {}) /\ {} \in SUBSET Due /\ Due \in SUBSET Due
      BY <2>1
    <3>. QED  BY <3>1, SweepKeepsIds DEF EngineOK
  <2>3. \A k \in Keys : expires'[k] = IF k \in Due THEN now + CacheTTL
                                       ELSE IF Cached(k) = NoAlert THEN 0 ELSE expires[k]
    BY <2>1 DEF SweepPass
  <2>4. ExpiresSoon'
    BY <1>0, <2>1, <2>3 DEF EngineOK, ExpiresSoon
  <2>5. KeepsServed
    <3>. SUFFICES ASSUME NEW k \in Keys, Cached(k) # NoAlert
                  PROVE  cache'[k] # NoAlert /\ cache'[k].id = cache[k].id /\ expires'[k] >= expires[k]
      BY DEF KeepsServed
    <3>1. Cached(k) = cache[k] /\ cache[k] \in Alert
      BY CachedType DEF EngineOK
    <3>2. Resolved(cache[k]) # NoAlert
      BY <3>1, ResolvedLater, DataAssumption DEF EngineOK
    <3>3. cache'[k] = Resolved(cache[k]) \/ cache'[k] = cache[k]
      BY <2>1, <3>1 DEF SweepPass
    <3>4. cache'[k] # NoAlert
      BY <3>1, <3>2, <3>3
    <3>5. expires'[k] = now + CacheTTL \/ expires'[k] = expires[k]
      BY <2>3
    <3>6. expires'[k] >= expires[k]
      BY <1>0, <3>5 DEF EngineOK, ExpiresSoon
    <3>. QED  BY <2>2, <3>4, <3>6
  <2>6. UntrackedStays
    BY <2>2 DEF UntrackedStays, Untracked
  <2>7. RowsNumbered'
    <3>. SUFFICES ASSUME NEW i \in AlertIds, store'[i] # NoAlert
                  PROVE  i < nextId'
      BY DEF RowsNumbered
    <3>1. CASE \E k \in Due : cache[k].id = i
      <4>1. PICK k \in Due : cache[k].id = i
        BY <3>1
      <4>2. cache[k] # NoAlert /\ k \in Keys
        BY <4>1 DEF Due, Cached
      <4>. QED  BY <2>1, <4>1, <4>2 DEF EngineOK, TrackedDistinct
    <3>2. CASE ~ \E k \in Due : cache[k].id = i
      <4>1. store'[i] = store[i]
        BY <2>1, <3>2 DEF SweepPass
      <4>. QED  BY <2>1, <4>1 DEF EngineOK, RowsNumbered
    <3>. QED  BY <3>1, <3>2
  <2>. QED  BY <2>4, <2>5, <2>6, <2>7
<1>3. CASE Tick \/ Restart \/ UNCHANGED vars
  <2>1. /\ UNCHANGED <<cache, expires, store, nextId>>
        /\ now' = now \/ now' = now + 1
    BY <1>3 DEF Tick, Restart, vars
  <2>2. ExpiresSoon'
    BY <1>0, <2>1 DEF EngineOK, ExpiresSoon
  <2>3. \A j \in Keys : Cached(j) # NoAlert => cache[j] # NoAlert /\ expires[j] >= expires[j]
    BY <1>0 DEF Cached
  <2>. QED  BY <2>1, <2>2, <2>3 DEF UntrackedStays, Untracked, RowsNumbered, KeepsServed, EngineOK
<1>4. CASE Crash
  <2>1. /\ UNCHANGED <<now, store, nextId>>
        /\ \A k \in Keys : cache'[k] = NoAlert /\ expires'[k] = 0
    BY <1>4 DEF Crash
  <2>2. ExpiresSoon'
    BY <1>0, <2>1 DEF ExpiresSoon
  <2>. QED  BY <1>4, <2>1, <2>2 DEF UntrackedStays, RowsNumbered, EngineOK
<1>. QED  BY <1>1, <1>2, <1>3, <1>4

LEMMA EngineStepKeeps ==
  ASSUME EngineOK, [Next]_vars
  PROVE  EngineOK' /\ UntrackedStays /\ (Crash \/ KeepsServed)
<1>1. TypeOK' /\ TrackedDistinct' /\ CacheStoreAgree'
  BY NextType, NextDistinct, NextAgrees, ReliableSink DEF EngineOK
<1>2. UntrackedStays /\ ExpiresSoon' /\ RowsNumbered' /\ (Crash \/ KeepsServed)
  <2>1. ASSUME NEW k \in Keys,
               \/ \E s \in Severities : Process(k, s)
               \/ Resolve(k) \/ Suppress(k) \/ Unsuppress(k)
               \/ \E v \in Verdicts : SetVerdict(k, v)
        PROVE  SavesOne(k)
    BY <2>1, ProcessSavesOne, OperationSavesOne DEF EngineOK
  <2>. QED  BY <2>1, SavesOneCaches, CalmCaches DEF Next
<1>. QED  BY <1>1, <1>2 DEF EngineOK

\* The tracked alert under a key: its row is a copy of it.
LEMMA CachedRow ==
  ASSUME EngineOK, NEW k \in Keys, Cached(k) # NoAlert
  PROVE  /\ cache[k] \in Alert /\ Cached(k) = cache[k] /\ cache[k] # NoAlert
         /\ cache[k].id \in AlertIds /\ cache[k].key = k
         /\ store[cache[k].id] = cache[k]
<1>1. cache[k] \in Alert /\ Cached(k) = cache[k]
  BY CachedType DEF EngineOK
<1>2. cache[k].id \in AlertIds
  BY <1>1 DEF Alert
<1>. QED  BY <1>1, <1>2, ReliableSink DEF EngineOK, CacheStoreAgree, TrackedDistinct

\* Saving an edit of the tracked alert touches only its row.
LEMMA SaveEdits ==
  ASSUME EngineOK, NEW k \in Keys, Cached(k) # NoAlert, NEW a, a.id = cache[k].id,
         NEW tell, NEW ok \in SinkOutcomes, Save(k, a, tell, ok)
  PROVE  \A i \in AlertIds : store'[i] # store[i] =>
           /\ i = cache[k].id /\ store'[i] = a
           /\ store[i] # NoAlert /\ store[i].verdict = cache[k].verdict
<1>1. ok = TRUE
  BY SinkReturns
<1>2. store' = [store EXCEPT ![a.id] = a]
  BY <1>1 DEF Save
<1>. QED  BY <1>2, CachedRow DEF EngineOK, TypeOK

LEMMA EditsKeepRows ==
  ASSUME EngineOK, NEW k \in Keys, Cached(k) # NoAlert, NEW a, a.id = cache[k].id,
         a.verdict = cache[k].verdict,
         NEW tell, NEW ok \in SinkOutcomes, Save(k, a, tell, ok)
  PROVE  KeepsRows
BY SaveEdits DEF KeepsRows

\* An event adds at most one row, for a key nothing is tracked under, without a verdict.
LEMMA ProcessRows ==
  ASSUME EngineOK, NEW k \in Keys, NEW s \in Severities, Process(k, s)
  PROVE  /\ EngineOK' /\ UntrackedStays /\ KeepsServed
         /\ cache'[k] \in Alert /\ cache'[k].id \in AlertIds /\ cache'[k].sev \in Severities
         /\ expires'[k] = now + CacheTTL
         /\ Cached(k) # NoAlert => KeepsRows /\ cache'[k].id = cache[k].id
         /\ Cached(k) = NoAlert =>
              \A i \in AlertIds : store'[i] # NoAlert =>
                \/ store[i] # NoAlert /\ store'[i].verdict = store[i].verdict
                \/ i = cache'[k].id /\ store'[i].verdict = NoVerdict
<1>1. SavesOne(k)
  BY ProcessSavesOne DEF EngineOK
<1>0. EngineOK' /\ UntrackedStays /\ KeepsServed
  BY <1>1, EngineStepKeeps, SavesOneCaches DEF Next
<1>2. /\ cache'[k] \in Alert
      /\ expires'[k] = now + CacheTTL
      /\ Cached(k) # NoAlert => cache'[k].id = cache[k].id
  BY <1>1 DEF SavesOne, Save, EngineOK, TypeOK
<1>3. cache'[k].id \in AlertIds /\ cache'[k].sev \in Severities
  BY <1>2 DEF Alert
<1>4. PICK ok \in SinkOutcomes : \/ Create(k, s, ok)
                                 \/ MergeSuppressed(k, s, ok)
                                 \/ Reactivate(k, s, ok)
                                 \/ MergeDuplicate(k, s, ok)
                                 \/ MergeConfirm(k, s, ok)
  BY DEF Process
<1>5. ASSUME Cached(k) # NoAlert
      PROVE  KeepsRows
  <2>. DEFINE c == Cached(k)
  <2>1. c = cache[k] /\ c \in Alert
    BY <1>5, CachedRow
  <2>2. Merge(c, s).id = c.id /\ Merge(c, s).verdict = c.verdict
    BY <2>1 DEF Merge, Alert
  <2>3. /\ Confirmed(Merge(c, s)).id = c.id /\ Confirmed(Merge(c, s)).verdict = c.verdict
    BY <2>1 DEF Confirmed, Merge, Alert
  <2>4. /\ Merge(Reactivated(c), s).id = c.id /\ Merge(Reactivated(c), s).verdict = c.verdict
    BY <2>1 DEF Reactivated, Merge, Alert
  <2>5. CASE MergeSuppressed(k, s, ok) \/ MergeDuplicate(k, s, ok)
    BY <1>5, <2>1, <2>2, <2>5, EditsKeepRows DEF MergeSuppressed, MergeDuplicate
  <2>6. CASE Reactivate(k, s, ok)
    BY <1>5, <2>1, <2>4, <2>6, EditsKeepRows DEF Reactivate
  <2>7. CASE MergeConfirm(k, s, ok)
    BY <1>5, <2>1, <2>3, <2>7, EditsKeepRows DEF MergeConfirm
  <2>. QED  BY <1>4, <1>5, <2>5, <2>6, <2>7 DEF Create
<1>6. ASSUME Cached(k) = NoAlert, NEW i \in AlertIds, store'[i] # NoAlert
      PROVE  \/ store[i] # NoAlert /\ store'[i].verdict = store[i].verdict
             \/ i = cache'[k].id /\ store'[i].verdict = NoVerdict
  <2>1. Create(k, s, ok)
    BY <1>4, <1>6 DEF MergeSuppressed, Reactivate, MergeDuplicate, MergeConfirm
  <2>2. /\ cache'[k] = NewAlert(k, s) /\ NewAlert(k, s).verdict = NoVerdict
        /\ store' = [store EXCEPT ![NewAlert(k, s).id] = NewAlert(k, s)]
    BY <2>1, SinkReturns DEF Create, Save, NewAlert, EngineOK, TypeOK
  <2>3. CASE i = NewAlert(k, s).id
    BY <2>2, <2>3 DEF EngineOK, TypeOK
  <2>4. CASE i # NewAlert(k, s).id
    BY <1>6, <2>2, <2>4 DEF EngineOK, TypeOK
  <2>. QED  BY <2>3, <2>4
<1>. QED  BY <1>0, <1>2, <1>3, <1>5, <1>6

\* Operators, the sweeper, time and the life of the process add no row and leave
\* every verdict alone.
LEMMA OthersKeepRows ==
  ASSUME EngineOK,
         \/ \E k \in Keys : Resolve(k) \/ Suppress(k) \/ Unsuppress(k) \/ Evict(k)
         \/ SweepOnce \/ Tick \/ Crash \/ Restart
  PROVE  EngineOK' /\ KeepsRows /\ UntrackedStays /\ (Crash \/ KeepsServed)
<1>0. EngineOK' /\ UntrackedStays /\ (Crash \/ KeepsServed)
  BY EngineStepKeeps DEF Next
<1>1. ASSUME NEW k \in Keys, Resolve(k) \/ Suppress(k) \/ Unsuppress(k)
      PROVE  KeepsRows
  <2>1. Cached(k) # NoAlert /\ Cached(k) = cache[k] /\ cache[k] \in Alert
    BY <1>1, CachedRow DEF Resolve, Suppress, Unsuppress
  <2>2. \A a \in {Resolved(cache[k]), Suppressed(cache[k]), Unsuppressed(cache[k])} :
          a.id = cache[k].id /\ a.verdict = cache[k].verdict
    BY <2>1 DEF Resolved, Suppressed, Unsuppressed, Alert
  <2>3. CASE Resolve(k)
    BY <2>1, <2>2, <2>3, EditsKeepRows DEF Resolve
  <2>4. CASE Suppress(k)
    BY <2>1, <2>2, <2>4, EditsKeepRows DEF Suppress
  <2>5. CASE Unsuppress(k)
    BY <2>1, <2>2, <2>5, EditsKeepRows DEF Unsuppress
  <2>. QED  BY <1>1, <2>3, <2>4, <2>5
<1>2. CASE SweepOnce
  <2>1. SweepPass(Due, {})
    BY <1>2, ReliableSink DEF SweepOnce
  <2>2. ASSUME NEW i \in AlertIds, \E k \in Due : cache[k].id = i
        PROVE  store[i] # NoAlert /\ store'[i].verdict = store[i].verdict
    <3>. DEFINE k == KeyOf(i, Due)
    <3>1. k \in Due /\ k \in Keys /\ cache[k].id = i /\ Cached(k) # NoAlert
      BY <2>2, KeyOfSwept DEF Due
    <3>2. store[i] = cache[k] /\ cache[k] \in Alert /\ cache[k] # NoAlert
      BY <3>1, CachedRow
    <3>3. store'[i] = Resolved(cache[k])
      BY <2>1, <2>2 DEF SweepPass
    <3>. QED  BY <3>2, <3>3 DEF Resolved, Alert
  <2>3. ASSUME NEW i \in AlertIds, ~ \E k \in Due : cache[k].id = i
        PROVE  store'[i] = store[i]
    BY <2>1, <2>3 DEF SweepPass
  <2>4. ASSUME NEW i \in AlertIds, store'[i] # NoAlert
        PROVE  store[i] # NoAlert /\ store'[i].verdict = store[i].verdict
    BY <2>2, <2>3, <2>4
  <2>. QED  BY <1>0, <2>4 DEF KeepsRows
<1>3. CASE (\E k \in Keys : Evict(k)) \/ Tick \/ Crash \/ Restart
  <2>1. store' = store
    BY <1>3 DEF Evict, Tick, Crash, Restart
  <2>. QED  BY <1>0, <2>1 DEF KeepsRows
<1>. QED  BY <1>0, <1>1, <1>2, <1>3

\* A verdict, with or without the suppression, is written to the row of whatever is
\* tracked under the key by then; if that is nothing, the entry is dropped.
LEMMA StampKeeps ==
  ASSUME EngineOK, NEW k \in Keys, NEW v \in Verdicts,
         Stamp(k, v) \/ (v = "rejected" /\ StampAndSuppress(k)),
         UNCHANGED <<now, up, crashes, nextId, nextSweep, detected, woken>>
  PROVE  EngineOK' /\ StampsRow(k, v) /\ UntrackedStays /\ KeepsServed
<1>1. CASE Cached(k) = NoAlert
  <2>1. /\ cache' = [cache EXCEPT ![k] = NoAlert]
        /\ expires' = [expires EXCEPT ![k] = 0]
        /\ UNCHANGED <<store, told>>
    BY <1>1 DEF Stamp, StampAndSuppress
  <2>2. TypeOK'
    <3>1. 0 \in 0..(MaxTime + CacheTTL)
      BY TimingAssumption, BoundsAssumption
    <3>. QED  BY <2>1, <3>1 DEF EngineOK, TypeOK
  <2>3. \A j \in Keys : cache'[j] # NoAlert => cache'[j] = cache[j]
    BY <2>1 DEF EngineOK, TypeOK
  <2>4. UntrackedStays /\ RowsNumbered'
    BY <2>1, <2>3 DEF UntrackedStays, Untracked, RowsNumbered, EngineOK
  <2>5. /\ cache'[k] = NoAlert /\ expires'[k] = 0
        /\ \A j \in Keys : j # k => cache'[j] = cache[j] /\ expires'[j] = expires[j]
    BY <2>1 DEF EngineOK, TypeOK
  <2>6. ExpiresSoon'
    <3>1. 0 <= now /\ now \in Int /\ CacheTTL \in Int /\ CacheTTL >= 0
      BY EngineNumbers, BoundsAssumption DEF EngineOK, TypeOK, Times
    <3>. QED  BY <2>5, <3>1 DEF EngineOK, ExpiresSoon
  <2>7. KeepsServed
    <3>1. \A j \in Keys : Cached(j) # NoAlert => j # k /\ cache[j] # NoAlert /\ expires[j] >= expires[j]
      BY <1>1, EngineNumbers DEF Cached, EngineOK
    <3>. QED  BY <2>5, <3>1 DEF KeepsServed
  <2>. QED  BY <2>1, <2>2, <2>3, <2>4, <2>6, <2>7
            DEF EngineOK, TrackedDistinct, CacheStoreAgree, StampsRow
<1>2. CASE Cached(k) # NoAlert
  <2>1. /\ Cached(k) = cache[k] /\ cache[k] \in Alert /\ cache[k].key = k
    BY <1>2, CachedRow
  <2>2. PICK a \in {Judged(cache[k], v), Suppressed(Judged(cache[k], v))} :
          Save(k, a, TRUE, TRUE)
    BY <1>2, <2>1 DEF Stamp, StampAndSuppress
  <2>3. a \in Alert /\ a.key = k /\ a.id = cache[k].id /\ a.verdict = v
    <3>1. /\ Judged(cache[k], v) \in Alert /\ Judged(cache[k], v).verdict = v
          /\ Judged(cache[k], v).key = k /\ Judged(cache[k], v).id = cache[k].id
      BY <2>1 DEF Judged, Alert
    <3>2. /\ Suppressed(Judged(cache[k], v)) \in Alert
          /\ Suppressed(Judged(cache[k], v)).verdict = v
          /\ Suppressed(Judged(cache[k], v)).key = k
          /\ Suppressed(Judged(cache[k], v)).id = cache[k].id
      BY <3>1 DEF Suppressed, Alert, States
    <3>. QED  BY <3>1, <3>2
  <2>4. TRUE \in SinkOutcomes
    BY DEF SinkOutcomes
  <2>5. SavesOne(k)
    BY <1>2, <2>2, <2>3, <2>4 DEF SavesOne
  <2>6. TypeOK'
    BY <2>2, <2>3, SaveType DEF EngineOK, TypeOK
  <2>7. TrackedDistinct' /\ CacheStoreAgree'
    BY <2>5, SavesOneDistinct, SavesOneAgrees, ReliableSink DEF EngineOK
  <2>8. StampsRow(k, v)
    <3>1. \A i \in AlertIds : store'[i] # store[i] =>
            i = cache[k].id /\ store'[i] = a /\ store[i] # NoAlert
      BY <1>2, <2>2, <2>3, <2>4, SaveEdits
    <3>. QED  BY <1>2, <2>3, <3>1 DEF StampsRow
  <2>9. UntrackedStays /\ KeepsServed /\ ExpiresSoon' /\ RowsNumbered'
    BY <2>5, SavesOneCaches
  <2>. QED  BY <2>6, <2>7, <2>8, <2>9 DEF EngineOK
<1>. QED  BY <1>1, <1>2

-----------------------------------------------------------------------------
(* What is known of the tasks.                                             *)

\* A task that started carries its alert and key; one in the drafter has pushed.
TasksOK ==
  \A t \in Tasks :
    /\ task[t].pc = "fresh" => task[t] = FreshTask
    /\ task[t].pc # "fresh" => task[t].id \in AlertIds /\ task[t].key \in Keys
    /\ task[t].pc = "draft" => "push" \in task[t].said

\* Every row, open or not, has a task that told people of it or still has to, or died
\* with the cache that tracked the alert.
RowsTold ==
  \A i \in AlertIds : store[i] # NoAlert =>
    \E t \in Tasks : /\ task[t].id = i
                     /\ \/ task[t].said \cap {"push", "rejected"} # {}
                        \/ task[t].pc \in Verifying
                        \/ task[t].pc = "lost" /\ Untracked(i)

\* A rejection that is deduplicated on the dashboard has been shown there.
RejectionsShown ==
  \A i \in AlertIds : quiet[i] # Never => Said(i, "rejected")

GateInv ==
  EngineOK /\ GateTypeOK /\ TasksOK /\ NoSilentEnd /\ RowsTold /\ RejectionsShown

\* Said, after the step.
SaidThen(i, what) == \E t \in Tasks : task'[t].id = i /\ what \in task'[t].said

\* Task t becomes u and goes on with its alert, or starts; nothing said is unsaid.
Moves(t, u) ==
  /\ task' = [task EXCEPT ![t] = u]
  /\ u \in Task /\ u.pc # "fresh" /\ u.id \in AlertIds /\ u.key \in Keys
  /\ task[t].pc = "fresh" \/ (u.id = task[t].id /\ u.key = task[t].key)
  /\ task[t].said \subseteq u.said
  /\ u.pc = "draft" => "push" \in u.said

\* Who is informed by that, or will be.
Informs(u) ==
  \/ u.pc \in Verifying
  \/ "push" \in u.said
  \/ u.sev <= Ceiling /\ SaidThen(u.id, "rejected")

\* The deduplication of rejections moves only for alert i.
QuietMoves(i) ==
  /\ quiet' \in [AlertIds -> Int]
  /\ \A j \in AlertIds : j # i => quiet'[j] = quiet[j]
  /\ quiet'[i] = quiet[i] \/ SaidThen(i, "rejected")

LEMMA SaidStays ==
  ASSUME GateInv, NEW t \in Tasks, NEW u, Moves(t, u),
         NEW i \in AlertIds, NEW w, Said(i, w)
  PROVE  SaidThen(i, w)
<1>1. PICK x \in Tasks : task[x].id = i /\ w \in task[x].said
  BY DEF Said
<1>2. task[x].pc # "fresh"
  BY <1>1 DEF GateInv, TasksOK, FreshTask
<1>3. task' = [task EXCEPT ![t] = u]
  BY DEF Moves
<1>4. task'[x].id = i /\ w \in task'[x].said
  <2>1. CASE x = t
    BY <1>1, <1>2, <1>3, <2>1 DEF Moves, GateInv, GateTypeOK
  <2>2. CASE x # t
    BY <1>1, <1>3, <2>2 DEF GateInv, GateTypeOK
  <2>. QED  BY <2>1, <2>2
<1>. QED  BY <1>4 DEF SaidThen

\* A task that moves on keeps the invariant.
LEMMA MoveKeeps ==
  ASSUME GateInv, EngineOK', NEW t \in Tasks, NEW u, Moves(t, u), Informs(u),
         QuietMoves(u.id), UntrackedStays,
         \A i \in AlertIds : store'[i] # NoAlert => store[i] # NoAlert \/ i = u.id,
         available' \in {"off", "unknown", "yes", "no"},
         model' \in {"none", "main", "text"}, vision' \in BOOLEAN
  PROVE  GateInv'
<1>1. /\ task' = [task EXCEPT ![t] = u] /\ u \in Task /\ u.pc # "fresh"
      /\ u.id \in AlertIds /\ u.key \in Keys /\ u.pc = "draft" => "push" \in u.said
  BY DEF Moves
<1>2. /\ task' \in [Tasks -> Task] /\ task'[t] = u
      /\ \A x \in Tasks : x # t => task'[x] = task[x]
  BY <1>1 DEF GateInv, GateTypeOK
<1>3. GateTypeOK'
  BY <1>2 DEF GateTypeOK, EngineOK, QuietMoves
<1>4. TasksOK'
  <2>. SUFFICES ASSUME NEW x \in Tasks
                PROVE  /\ task'[x].pc = "fresh" => task'[x] = FreshTask
                       /\ task'[x].pc # "fresh" => task'[x].id \in AlertIds /\ task'[x].key \in Keys
                       /\ task'[x].pc = "draft" => "push" \in task'[x].said
    BY DEF TasksOK
  <2>1. CASE x = t
    BY <1>2, <2>1 DEF Moves
  <2>2. CASE x # t
    BY <1>2, <2>2 DEF GateInv, TasksOK
  <2>. QED  BY <2>1, <2>2
<1>5. NoSilentEnd'
  <2>. SUFFICES ASSUME NEW x \in Tasks, task'[x].pc = "done"
                PROVE  \/ "push" \in task'[x].said
                       \/ task'[x].sev <= Ceiling /\ SaidThen(task'[x].id, "rejected")
    BY DEF NoSilentEnd, Said, SaidThen
  <2>1. CASE x = t
    BY <1>2, <2>1 DEF Informs, Verifying
  <2>2. CASE x # t
    <3>1. task'[x] = task[x] /\ task[x].id \in AlertIds
      BY <1>2, <2>2 DEF GateInv, TasksOK
    <3>2. \/ "push" \in task[x].said
          \/ task[x].sev <= Ceiling /\ Said(task[x].id, "rejected")
      BY <3>1 DEF GateInv, NoSilentEnd
    <3>. QED  BY <3>1, <3>2, SaidStays
  <2>. QED  BY <2>1, <2>2
<1>6. RowsTold'
  <2>. SUFFICES ASSUME NEW i \in AlertIds, store'[i] # NoAlert
                PROVE  \E x \in Tasks : /\ task'[x].id = i
                                        /\ \/ task'[x].said \cap {"push", "rejected"} # {}
                                           \/ task'[x].pc \in Verifying
                                           \/ task'[x].pc = "lost" /\ Untracked(i)'
    BY DEF RowsTold
  <2>1. CASE i = u.id
    <3>1. CASE SaidThen(i, "rejected")
      BY <3>1 DEF SaidThen
    <3>2. CASE ~ SaidThen(i, "rejected")
      <4>1. u.pc \in Verifying \/ "push" \in u.said
        BY <2>1, <3>2 DEF Informs
      <4>. QED  BY <1>2, <2>1, <4>1
    <3>. QED  BY <3>1, <3>2
  <2>2. CASE i # u.id
    <3>1. store[i] # NoAlert
      BY <2>2
    <3>2. PICK x \in Tasks : /\ task[x].id = i
                             /\ \/ task[x].said \cap {"push", "rejected"} # {}
                                \/ task[x].pc \in Verifying
                                \/ task[x].pc = "lost" /\ Untracked(i)
      BY <3>1 DEF GateInv, RowsTold
    <3>3. task[x].pc # "fresh"
      BY <3>2 DEF GateInv, TasksOK, FreshTask, Verifying
    <3>4. x # t
      BY <2>2, <3>2, <3>3 DEF Moves
    <3>5. Untracked(i) => Untracked(i)'
      BY <3>1 DEF UntrackedStays, Untracked
    <3>. QED  BY <1>2, <3>2, <3>4, <3>5
  <2>. QED  BY <2>1, <2>2
<1>7. RejectionsShown'
  <2>. SUFFICES ASSUME NEW i \in AlertIds, quiet'[i] # Never
                PROVE  SaidThen(i, "rejected")
    BY DEF RejectionsShown, Said, SaidThen
  <2>1. SaidThen(i, "rejected") \/ quiet[i] # Never
    BY DEF QuietMoves
  <2>. QED  BY <2>1, SaidStays DEF GateInv, RejectionsShown
<1>. QED  BY <1>3, <1>4, <1>5, <1>6, <1>7 DEF GateInv

\* Without a move of a task, rows that stay keep the invariant.
LEMMA StayKeeps ==
  ASSUME GateInv, EngineOK', UNCHANGED <<task, available, model, vision, quiet>>,
         UntrackedStays, \A i \in AlertIds : store'[i] # NoAlert => store[i] # NoAlert
  PROVE  GateInv'
<1>1. GateTypeOK' /\ TasksOK' /\ NoSilentEnd' /\ RejectionsShown'
  BY DEF GateInv, GateTypeOK, EngineOK, TasksOK, NoSilentEnd, RejectionsShown, Said
<1>2. RowsTold'
  BY DEF GateInv, RowsTold, UntrackedStays, Untracked
<1>. QED  BY <1>1, <1>2 DEF GateInv

\* A task that returns.
LEMMA Finishes ==
  ASSUME NEW t \in Tasks, NEW tsk \in Task, Finish(t, tsk)
  PROVE  \E u \in Task : /\ task' = [task EXCEPT ![t] = u]
                         /\ u.id = tsk.id /\ u.key = tsk.key /\ u.sev = tsk.sev
                         /\ u.said = tsk.said /\ u.pc = "done"
<1>1. 0 \in Times
  BY BoundsAssumption DEF Times
<1>2. PICK u : u = [tsk EXCEPT !.pc = "done", !.image = FALSE, !.since = 0]
  OBVIOUS
<1>3. /\ u \in Task /\ u.id = tsk.id /\ u.key = tsk.key /\ u.sev = tsk.sev /\ u.said = tsk.said
      /\ u.pc = "done"
  BY <1>1, <1>2 DEF Task
<1>4. task' = [task EXCEPT ![t] = u]
  BY <1>2 DEF Finish
<1>. QED  BY <1>3, <1>4

\* A task that waits in the drafter.
LEMMA WaitsInDrafter ==
  ASSUME NEW t \in Tasks, NEW tsk \in Task, Drafts(t, tsk)
  PROVE  \E u \in Task : /\ task' = [task EXCEPT ![t] = u]
                         /\ u.id = tsk.id /\ u.key = tsk.key /\ u.sev = tsk.sev
                         /\ u.said = tsk.said /\ u.pc = "draft"
<1>1. 0 \in Times
  BY BoundsAssumption DEF Times
<1>2. PICK u : u = [tsk EXCEPT !.pc = "draft", !.image = FALSE, !.since = 0]
  OBVIOUS
<1>3. /\ u \in Task /\ u.id = tsk.id /\ u.key = tsk.key /\ u.sev = tsk.sev /\ u.said = tsk.said
      /\ u.pc = "draft"
  BY <1>1, <1>2 DEF Task
<1>4. task' = [task EXCEPT ![t] = u]
  BY <1>2 DEF Drafts
<1>. QED  BY <1>3, <1>4

LEMMA QuietStays ==
  ASSUME GateInv, UNCHANGED quiet, NEW i
  PROVE  QuietMoves(i)
BY DEF QuietMoves, GateInv, GateTypeOK

\* Telling people: the push is out, whatever happens in the drafter.
LEMMA TellDoes ==
  ASSUME GateInv, NEW t \in Tasks, NEW tsk \in Task, TellPeople(t, tsk), UNCHANGED quiet,
         tsk.id \in AlertIds, tsk.key \in Keys, task[t].said \subseteq tsk.said,
         task[t].pc = "fresh" \/ (tsk.id = task[t].id /\ tsk.key = task[t].key)
  PROVE  \E u : /\ Moves(t, u) /\ Informs(u) /\ QuietMoves(u.id)
                /\ u.pc \in {"done", "draft"} /\ u.id = tsk.id /\ u.key = tsk.key
                /\ "push" \in u.said
<1>1. PICK pushed : pushed = [tsk EXCEPT !.said = @ \cup {"push"}]
  OBVIOUS
<1>2. /\ pushed \in Task /\ pushed.id = tsk.id /\ pushed.key = tsk.key
      /\ pushed.said = tsk.said \cup {"push"}
  BY <1>1 DEF Task, Told
<1>3. Finish(t, pushed) \/ Drafts(t, pushed)
  BY <1>1 DEF TellPeople
<1>4. PICK u \in Task : /\ task' = [task EXCEPT ![t] = u]
                       /\ u.id = pushed.id /\ u.key = pushed.key /\ u.said = pushed.said
                       /\ u.pc \in {"done", "draft"}
  BY <1>2, <1>3, Finishes, WaitsInDrafter
<1>5. Moves(t, u) /\ Informs(u)
  BY <1>2, <1>4 DEF Moves, Informs
<1>. QED  BY <1>2, <1>4, <1>5, QuietStays

\* handle_event leaves the tasks alone, or starts one on the alert it got back.
LEMMA HandleEventMoves ==
  ASSUME GateInv, NEW k \in Keys, NEW s \in Severities, NEW image \in BOOLEAN,
         HandleEvent(k, s, image)
  PROVE  \/ Cached(k) # NoAlert /\ UNCHANGED <<task, quiet>>
         \/ \E t \in Tasks : \E u : /\ Moves(t, u) /\ Informs(u) /\ QuietMoves(u.id)
                                    /\ u.id = cache'[k].id /\ u.key = k
                                    /\ u.pc \in Verifying => u.since = now
<1>1. Process(k, s) /\ EngineOK
  BY DEF HandleEvent, GateInv
<1>2. cache'[k].id \in AlertIds /\ cache'[k].sev \in Severities
  BY <1>1, ProcessRows
<1>3. UNCHANGED quiet
  BY DEF HandleEvent
<1>4. ASSUME NEW t \in Tasks, task[t].pc = "fresh",
             NEW tsk, tsk = [ FreshTask EXCEPT !.id = cache'[k].id, !.key = k,
                                               !.sev = cache'[k].sev,
                                               !.image = vision /\ image,
                                               !.since = now ],
             \/ \E pc \in {"lookup", "ask", "waived"} :
                  task' = [task EXCEPT ![t] = [tsk EXCEPT !.pc = pc]]
             \/ TellPeople(t, tsk)
      PROVE  \E u : /\ Moves(t, u) /\ Informs(u) /\ QuietMoves(u.id)
                    /\ u.id = cache'[k].id /\ u.key = k
                    /\ u.pc \in Verifying => u.since = now
  <2>1. (vision /\ image) \in BOOLEAN /\ now \in Times
    BY <1>1 DEF EngineOK, TypeOK
  <2>2. /\ tsk \in Task /\ tsk.id = cache'[k].id /\ tsk.key = k /\ tsk.said = {}
        /\ tsk.since = now
    BY <1>2, <1>4, <2>1 DEF FreshTask, Task
  <2>3. task[t].pc = "fresh" /\ task[t].said = {}
    <3>1. task[t].pc = "fresh"
      BY <1>4
    <3>2. task[t] = FreshTask
      BY <3>1 DEF GateInv, TasksOK
    <3>. QED  BY <3>1, <3>2 DEF FreshTask
  <2>4. ASSUME NEW pc \in {"lookup", "ask", "waived"},
               task' = [task EXCEPT ![t] = [tsk EXCEPT !.pc = pc]]
        PROVE  \E u : /\ Moves(t, u) /\ Informs(u) /\ QuietMoves(u.id)
                      /\ u.id = cache'[k].id /\ u.key = k
                      /\ u.pc \in Verifying => u.since = now
    <3>1. PICK u : u = [tsk EXCEPT !.pc = pc] /\ task' = [task EXCEPT ![t] = u]
      BY <2>4
    <3>2. /\ u \in Task /\ u.id = tsk.id /\ u.key = k /\ u.pc = pc /\ u.said = {}
          /\ u.since = now
      BY <2>2, <3>1 DEF Task
    <3>3. Moves(t, u) /\ Informs(u)
      BY <1>2, <2>2, <2>3, <3>1, <3>2 DEF Moves, Informs, Verifying
    <3>. QED  BY <1>3, <2>2, <3>2, <3>3, QuietStays
  <2>5. CASE TellPeople(t, tsk)
    <3>1. tsk.id \in AlertIds /\ tsk.key \in Keys /\ task[t].said \subseteq tsk.said
      BY <1>2, <2>2, <2>3
    <3>2. \E u : /\ Moves(t, u) /\ Informs(u) /\ QuietMoves(u.id) /\ u.id = tsk.id /\ u.key = tsk.key
                 /\ u.pc \in {"done", "draft"}
      BY <1>3, <2>2, <2>3, <2>5, <3>1, TellDoes
    <3>. QED  BY <2>2, <3>2 DEF Verifying
  <2>. QED  BY <1>4, <2>4, <2>5
<1>5. CASE Cached(k) # NoAlert /\ UNCHANGED task
  BY <1>3, <1>5
<1>6. CASE ~ (Cached(k) # NoAlert /\ UNCHANGED task)
  <2>1. PICK t \in Tasks :
          /\ task[t].pc = "fresh"
          /\ LET tsk == [ FreshTask EXCEPT !.id = cache'[k].id, !.key = k,
                                           !.sev = cache'[k].sev,
                                           !.image = vision /\ image,
                                           !.since = now ] IN
             IF available # "off"
               THEN task' = [task EXCEPT ![t] = [tsk EXCEPT !.pc =
                      IF available = "unknown" THEN "lookup"
                      ELSE Consults(model, vision, tsk.image)]]
               ELSE TellPeople(t, tsk)
    BY <1>6 DEF HandleEvent
  <2>2. PICK tsk : tsk = [ FreshTask EXCEPT !.id = cache'[k].id, !.key = k,
                                            !.sev = cache'[k].sev,
                                            !.image = vision /\ image,
                                            !.since = now ]
    OBVIOUS
  <2>3. PICK pc : pc = IF available = "unknown" THEN "lookup"
                       ELSE Consults(model, vision, tsk.image)
    OBVIOUS
  <2>4. pc \in {"lookup", "ask", "waived"}
    BY <2>3 DEF Consults
  <2>5. task' = [task EXCEPT ![t] = [tsk EXCEPT !.pc = pc]] \/ TellPeople(t, tsk)
    BY <2>1, <2>2, <2>3
  <2>6. \/ \E p \in {"lookup", "ask", "waived"} :
             task' = [task EXCEPT ![t] = [tsk EXCEPT !.pc = p]]
        \/ TellPeople(t, tsk)
    BY <2>4, <2>5
  <2>7. task[t].pc = "fresh"
    BY <2>1
  <2>8. \E u : /\ Moves(t, u) /\ Informs(u) /\ QuietMoves(u.id)
               /\ u.id = cache'[k].id /\ u.key = k
               /\ u.pc \in Verifying => u.since = now
    BY <1>4, <2>2, <2>6, <2>7
  <2>. QED  BY <2>8
<1>. QED  BY <1>5, <1>6

LEMMA HandleEventKeeps ==
  ASSUME GateInv, NEW k \in Keys, NEW s \in Severities, NEW image \in BOOLEAN,
         HandleEvent(k, s, image)
  PROVE  GateInv'
<1>1. Process(k, s) /\ UNCHANGED <<available, model, vision>> /\ EngineOK
  BY DEF HandleEvent, GateInv
<1>2. /\ EngineOK' /\ UntrackedStays
      /\ \A i \in AlertIds : store'[i] # NoAlert => store[i] # NoAlert \/ i = cache'[k].id
      /\ Cached(k) # NoAlert =>
           \A i \in AlertIds : store'[i] # NoAlert => store[i] # NoAlert
  BY <1>1, ProcessRows DEF KeepsRows
<1>3. CASE UNCHANGED <<task, quiet>> /\ Cached(k) # NoAlert
  BY <1>1, <1>2, <1>3, StayKeeps
<1>4. ASSUME NEW t \in Tasks, NEW u, Moves(t, u), Informs(u), QuietMoves(u.id),
             u.id = cache'[k].id
      PROVE  GateInv'
  <2>1. available' \in {"off", "unknown", "yes", "no"} /\ model' \in {"none", "main", "text"}
        /\ vision' \in BOOLEAN
    BY <1>1 DEF GateInv, GateTypeOK
  <2>. QED  BY <1>2, <1>4, <2>1, MoveKeeps
<1>. QED  BY <1>3, <1>4, HandleEventMoves

\* Looking the model up only moves the task on inside verify.
LEMMA LookupMoves ==
  ASSUME GateInv, NEW t \in Tasks, Lookup(t) \/ Fallback(t)
  PROVE  \E u : /\ Moves(t, u) /\ Informs(u) /\ u.id = task[t].id /\ u.since = task[t].since
<1>1. PICK pc : /\ pc \in {"ask", "waived", "fallback"}
                /\ task' = [task EXCEPT ![t] = [task[t] EXCEPT !.pc = pc]]
  <2>1. \A m, v, image : Consults(m, v, image) \in {"ask", "waived", "fallback"}
    BY DEF Consults
  <2>. QED  BY <2>1 DEF Lookup, Fallback
<1>2. PICK u : u = [task[t] EXCEPT !.pc = pc]
  OBVIOUS
<1>3. task[t] \in Task /\ task[t].pc \in {"lookup", "fallback"}
  BY DEF Lookup, Fallback, GateInv, GateTypeOK
<1>4. /\ u \in Task /\ u.id = task[t].id /\ u.key = task[t].key /\ u.said = task[t].said
      /\ u.pc = pc /\ u.since = task[t].since
  BY <1>1, <1>2, <1>3 DEF Task
<1>5. task[t].id \in AlertIds /\ task[t].key \in Keys
  BY <1>3 DEF GateInv, TasksOK
<1>6. Moves(t, u) /\ Informs(u)
  BY <1>1, <1>2, <1>4, <1>5 DEF Moves, Informs, Verifying
<1>. QED  BY <1>4, <1>6

LEMMA LookupKeeps ==
  ASSUME GateInv, NEW t \in Tasks, Lookup(t) \/ Fallback(t)
  PROVE  GateInv'
<1>1. PICK u : Moves(t, u) /\ Informs(u)
  BY LookupMoves
<1>2. UNCHANGED vars /\ UNCHANGED quiet
  BY DEF Lookup, Fallback
<1>3. EngineOK' /\ UntrackedStays
  BY <1>2, EngineStepKeeps DEF GateInv
<1>4. QuietMoves(u.id) /\ store' = store
  BY <1>2, QuietStays DEF vars
<1>5. /\ available' \in {"off", "unknown", "yes", "no"} /\ model' \in {"none", "main", "text"}
      /\ vision' \in BOOLEAN
  BY DEF Lookup, Fallback, GateInv, GateTypeOK
<1>. QED  BY <1>1, <1>3, <1>4, <1>5, MoveKeeps

\* What a task in verify is known to hold.
LEMMA Asking ==
  ASSUME GateInv, NEW t \in Tasks, task[t].pc \in {"ask", "waived", "draft"}
  PROVE  /\ task[t] \in Task /\ task[t].id \in AlertIds /\ task[t].key \in Keys
         /\ task[t].pc # "fresh"
BY DEF GateInv, TasksOK, GateTypeOK

\* Confirmed or disputed, the push goes out.
LEMMA VerdictKeeps ==
  ASSUME GateInv, NEW t \in Tasks, Confirm(t) \/ Dispute(t)
  PROVE  GateInv'
<1>1. /\ task[t].pc \in {"ask", "waived"} /\ TellPeople(t, task[t])
      /\ UNCHANGED <<now, up, crashes, nextId, nextSweep, detected, woken>>
      /\ UNCHANGED <<available, model, vision, quiet>>
  BY DEF Confirm, Dispute
<1>2. PICK v \in {"confirmed", "disputed"} : Stamp(task[t].key, v)
  BY DEF Confirm, Dispute
<1>3. /\ task[t] \in Task /\ task[t].id \in AlertIds /\ task[t].key \in Keys
      /\ v \in Verdicts
  BY <1>1, Asking, GateAssumption
<1>4. /\ EngineOK' /\ UntrackedStays
      /\ \A i \in AlertIds : store'[i] # NoAlert => store[i] # NoAlert
  BY <1>1, <1>2, <1>3, StampKeeps DEF GateInv, StampsRow
<1>5. PICK u : Moves(t, u) /\ Informs(u) /\ QuietMoves(u.id)
  BY <1>1, <1>3, TellDoes
<1>. QED  BY <1>1, <1>4, <1>5, MoveKeeps DEF GateInv, GateTypeOK

\* What rejecting does to the task and the dashboard: the rejection is shown, now or
\* by an earlier notice that is still deduplicated, of an alert below the ceiling.
LEMMA RejectShows ==
  ASSUME GateInv, NEW t \in Tasks, Reject(t)
  PROVE  \E u : /\ Moves(t, u) /\ QuietMoves(u.id) /\ Informs(u)
                /\ u.id = task[t].id /\ u.pc = "done" /\ SaidThen(u.id, "rejected")
<1>1. /\ task[t].pc = "ask" /\ task[t].sev <= Ceiling /\ NotifyRejected(t)
  BY DEF Reject, MaySuppress
<1>2. task[t] \in Task /\ task[t].id \in AlertIds /\ task[t].key \in Keys
  BY <1>1, Asking
<1>3. PICK tsk : /\ Finish(t, tsk)
                 /\ tsk = IF quiet[task[t].id] >= now THEN task[t]
                          ELSE [task[t] EXCEPT !.said = @ \cup {"rejected"}]
  BY <1>1 DEF NotifyRejected
<1>4. /\ tsk \in Task /\ tsk.id = task[t].id /\ tsk.key = task[t].key /\ tsk.sev = task[t].sev
      /\ task[t].said \subseteq tsk.said
      /\ quiet[task[t].id] >= now \/ "rejected" \in tsk.said
  BY <1>2, <1>3 DEF Task, Told
<1>5. PICK u \in Task : /\ task' = [task EXCEPT ![t] = u]
                       /\ u.id = tsk.id /\ u.key = tsk.key /\ u.sev = tsk.sev
                       /\ u.said = tsk.said /\ u.pc = "done"
  BY <1>3, <1>4, Finishes
<1>6. Moves(t, u)
  BY <1>2, <1>4, <1>5 DEF Moves
<1>7. SaidThen(u.id, "rejected")
  <2>1. CASE quiet[task[t].id] >= now
    <3>1. quiet[task[t].id] # Never
      BY <2>1, BoundsAssumption DEF GateInv, EngineOK, TypeOK, Times, Never
    <3>2. Said(u.id, "rejected")
      BY <1>2, <1>4, <1>5, <3>1 DEF GateInv, RejectionsShown
    <3>. QED  BY <1>2, <1>4, <1>5, <1>6, <3>2, SaidStays
  <2>2. CASE "rejected" \in tsk.said
    <3>1. task'[t] = u
      BY <1>5 DEF GateInv, GateTypeOK
    <3>. QED  BY <1>5, <2>2, <3>1 DEF SaidThen
  <2>. QED  BY <1>4, <2>1, <2>2
<1>8. QuietMoves(u.id)
  <2>1. now + NotifyWindow \in Int
    BY GateAssumption, BoundsAssumption DEF GateInv, EngineOK, TypeOK, Times
  <2>. QED  BY <1>1, <1>4, <1>5, <1>7, <2>1 DEF NotifyRejected, QuietMoves, GateInv, GateTypeOK
<1>. QED  BY <1>1, <1>4, <1>5, <1>6, <1>7, <1>8 DEF Informs

LEMMA RejectKeeps ==
  ASSUME GateInv, NEW t \in Tasks, Reject(t)
  PROVE  GateInv'
<1>1. PICK u : Moves(t, u) /\ QuietMoves(u.id) /\ Informs(u)
  BY RejectShows
<1>2. task[t].key \in Keys /\ "rejected" \in Verdicts
  BY Asking, GateAssumption DEF Reject
<1>3. /\ EngineOK' /\ UntrackedStays
      /\ \A i \in AlertIds : store'[i] # NoAlert => store[i] # NoAlert
  BY <1>2, StampKeeps DEF Reject, GateInv, StampsRow
<1>. QED  BY <1>1, <1>3, MoveKeeps DEF Reject, GateInv, GateTypeOK

\* The drafter comes back: the push of that task was out before it was asked.
LEMMA DraftedMoves ==
  ASSUME GateInv, NEW t \in Tasks, Drafted(t)
  PROVE  \E u : Moves(t, u) /\ Informs(u) /\ u.id = task[t].id /\ u.pc = "done"
<1>1. task[t].pc = "draft" /\ Finish(t, task[t])
  BY DEF Drafted
<1>2. /\ task[t] \in Task /\ task[t].id \in AlertIds /\ task[t].key \in Keys
      /\ "push" \in task[t].said
  BY <1>1, Asking DEF GateInv, TasksOK
<1>3. PICK u \in Task : /\ task' = [task EXCEPT ![t] = u]
                       /\ u.id = task[t].id /\ u.key = task[t].key
                       /\ u.said = task[t].said /\ u.pc = "done"
  BY <1>1, <1>2, Finishes
<1>4. Moves(t, u) /\ Informs(u)
  BY <1>1, <1>2, <1>3 DEF Moves, Informs
<1>. QED  BY <1>3, <1>4

LEMMA DraftedKeeps ==
  ASSUME GateInv, NEW t \in Tasks, Drafted(t)
  PROVE  GateInv'
<1>1. PICK u : Moves(t, u) /\ Informs(u)
  BY DraftedMoves
<1>2. UNCHANGED <<vars, available, model, vision, quiet>>
  BY DEF Drafted
<1>3. EngineOK' /\ UntrackedStays /\ store' = store
  BY <1>2, EngineStepKeeps DEF GateInv, vars
<1>. QED  BY <1>1, <1>2, <1>3, QuietStays, MoveKeeps DEF GateInv, GateTypeOK

\* A crash takes the running tasks and the deduplication; what was said stays said.
LEMMA CrashKeeps ==
  ASSUME GateInv, GateCrash
  PROVE  GateInv'
<1>1. /\ Crash
      /\ task' = [t \in Tasks |-> IF task[t].pc \in {"fresh", "done"} THEN task[t]
                                    ELSE [task[t] EXCEPT !.pc = "lost", !.image = FALSE,
                                                         !.since = 0]]
      /\ quiet' = [i \in AlertIds |-> Never]
  BY DEF GateCrash
<1>2. EngineOK' /\ KeepsRows
  BY <1>1, OthersKeepRows DEF GateInv
<1>3. ASSUME NEW t \in Tasks
      PROVE  /\ task'[t] \in Task /\ task'[t].id = task[t].id /\ task'[t].key = task[t].key
             /\ task'[t].sev = task[t].sev /\ task'[t].said = task[t].said
             /\ \/ task[t].pc \in {"fresh", "done"} /\ task'[t] = task[t]
                \/ task[t].pc \notin {"fresh", "done"} /\ task'[t].pc = "lost"
  <2>1. task[t] \in Task /\ 0 \in Times
    BY BoundsAssumption DEF GateInv, GateTypeOK, Times
  <2>2. task'[t] = IF task[t].pc \in {"fresh", "done"} THEN task[t]
                     ELSE [task[t] EXCEPT !.pc = "lost", !.image = FALSE, !.since = 0]
    BY <1>1
  <2>3. CASE task[t].pc \in {"fresh", "done"}
    BY <2>1, <2>2, <2>3
  <2>4. CASE task[t].pc \notin {"fresh", "done"}
    <3>1. PICK u : u = [task[t] EXCEPT !.pc = "lost", !.image = FALSE, !.since = 0]
      OBVIOUS
    <3>2. /\ u \in Task /\ u.id = task[t].id /\ u.key = task[t].key /\ u.sev = task[t].sev
          /\ u.said = task[t].said /\ u.pc = "lost"
      BY <2>1, <3>1 DEF Task
    <3>3. task'[t] = u
      BY <2>2, <2>4, <3>1
    <3>. QED  BY <2>4, <3>2, <3>3
  <2>. QED  BY <2>3, <2>4
<1>4. GateTypeOK'
  <2>1. task' \in [Tasks -> Task]
    BY <1>1, <1>3
  <2>2. quiet' \in [AlertIds -> Int]
    <3>1. Never \in Int
      BY DEF Never
    <3>. QED  BY <1>1, <3>1
  <2>. QED  BY <1>2, <2>1, <2>2, GateAssumption DEF GateCrash, GateTypeOK, EngineOK, GateInv
<1>5. TasksOK'
  BY <1>3 DEF GateInv, TasksOK
<1>6. \A i \in AlertIds, w \in Told : Said(i, w) => SaidThen(i, w)
  BY <1>3 DEF Said, SaidThen
<1>7. NoSilentEnd'
  <2>. SUFFICES ASSUME NEW t \in Tasks, task'[t].pc = "done"
                PROVE  \/ "push" \in task'[t].said
                       \/ task'[t].sev <= Ceiling /\ SaidThen(task'[t].id, "rejected")
    BY DEF NoSilentEnd, Said, SaidThen
  <2>1. task'[t] = task[t] /\ task[t].id \in AlertIds
    BY <1>3 DEF GateInv, TasksOK
  <2>. QED  BY <1>6, <2>1 DEF GateInv, NoSilentEnd, Told
<1>8. RowsTold'
  <2>. SUFFICES ASSUME NEW i \in AlertIds, store'[i] # NoAlert
                PROVE  \E x \in Tasks : /\ task'[x].id = i
                                        /\ \/ task'[x].said \cap {"push", "rejected"} # {}
                                           \/ task'[x].pc \in Verifying
                                           \/ task'[x].pc = "lost" /\ Untracked(i)'
    BY DEF RowsTold
  <2>1. PICK x \in Tasks : /\ task[x].id = i
                           /\ \/ task[x].said \cap {"push", "rejected"} # {}
                              \/ task[x].pc \in Verifying \cup {"lost"}
    BY <1>2 DEF KeepsRows, GateInv, RowsTold
  <2>2. Untracked(i)'
    BY <1>1 DEF Crash, Untracked
  <2>. QED  BY <1>3, <2>1, <2>2 DEF Verifying
<1>9. RejectionsShown'
  BY <1>1 DEF RejectionsShown
<1>. QED  BY <1>2, <1>4, <1>5, <1>7, <1>8, <1>9 DEF GateInv

LEMMA BackgroundKeeps ==
  ASSUME GateInv, Manager \/ Clockwork \/ GateRestart \/ UNCHANGED allVars
  PROVE  GateInv'
<1>1. UNCHANGED <<task, available, model, vision, quiet>>
  BY DEF Manager, Clockwork, GateRestart, gateVars, allVars
<1>2. /\ EngineOK' /\ UntrackedStays
      /\ \A i \in AlertIds : store'[i] # NoAlert => store[i] # NoAlert
  <2>1. CASE Manager \/ Clockwork \/ GateRestart
    BY <2>1, OthersKeepRows DEF Manager, Clockwork, GateRestart, GateInv, KeepsRows
  <2>2. CASE UNCHANGED allVars
    BY <2>2, EngineStepKeeps DEF allVars, vars, GateInv
  <2>. QED  BY <2>1, <2>2
<1>. QED  BY <1>1, <1>2, StayKeeps

LEMMA GateNextKeeps ==
  ASSUME GateInv, [GateNext]_allVars
  PROVE  GateInv'
BY HandleEventKeeps, LookupKeeps, VerdictKeeps, RejectKeeps, DraftedKeeps, CrashKeeps,
   BackgroundKeeps DEF GateNext, GateStep

LEMMA GateInitOK == GateInit => GateInv
<1>. SUFFICES ASSUME GateInit
              PROVE  GateInv
  OBVIOUS
<1>1. EngineOK
  BY InitType, TimingAssumption
     DEF GateInit, Init, EngineOK, TrackedDistinct, CacheStoreAgree, ExpiresSoon, RowsNumbered
<1>2. FreshTask \in Task /\ FreshTask.pc = "fresh"
  BY BoundsAssumption DEF FreshTask, Task, Times
<1>3. \A t \in Tasks : task[t] = FreshTask
  BY DEF GateInit
<1>4. GateTypeOK
  BY <1>1, <1>2, GateAssumption DEF GateInit, GateTypeOK, EngineOK, Never
<1>5. TasksOK /\ NoSilentEnd
  BY <1>2, <1>3 DEF TasksOK, NoSilentEnd
<1>6. RowsTold /\ RejectionsShown
  BY DEF GateInit, Init, RowsTold, RejectionsShown
<1>. QED  BY <1>1, <1>4, <1>5, <1>6 DEF GateInv

LEMMA GateInvariant == GateSpec => []GateInv
<1>1. GateInv /\ [GateNext]_allVars => GateInv'
  BY GateNextKeeps
<1>. QED  BY <1>1, GateInitOK, PTL DEF GateSpec

(* No alert is left in silence: neither one whose verification is over,    *)
(* nor one that takes in the detections of its issue, whatever model       *)
(* answers, how many tasks overlap, and however often the process dies: an *)
(* alert whose task died untold is tracked by nothing any more.            *)
THEOREM NobodyLeftUntold == GateSpec => []NobodyIsLeftUntold
<1>1. GateInv => NobodyIsLeftUntold
  BY DEF GateInv, RowsTold, Untracked, NobodyIsLeftUntold, OpenAlertsAreTold
<1>. QED  BY <1>1, GateInvariant, PTL

-----------------------------------------------------------------------------
(* A verifier without eyes mutes nothing.                                  *)

\* Every row that is SUPPRESSED after the step was before it.
MutesNothing ==
  \A i \in AlertIds : store'[i] # NoAlert /\ store'[i].state = "SUPPRESSED"
    => store[i] # NoAlert /\ store[i].state = "SUPPRESSED"

LEMMA EditMutesNothing ==
  ASSUME EngineOK, NEW k \in Keys, Cached(k) # NoAlert, NEW a, a.id = cache[k].id,
         a.state = "SUPPRESSED" => cache[k].state = "SUPPRESSED",
         NEW tell, NEW ok \in SinkOutcomes, Save(k, a, tell, ok)
  PROVE  MutesNothing
<1>1. store[cache[k].id] = cache[k]
  BY CachedRow
<1>2. \A i \in AlertIds : store'[i] # store[i] =>
        i = cache[k].id /\ store'[i] = a /\ store[i] # NoAlert
  BY SaveEdits
<1>. QED  BY <1>1, <1>2 DEF MutesNothing

LEMMA ProcessMutesNothing ==
  ASSUME EngineOK, NEW k \in Keys, NEW s \in Severities, Process(k, s)
  PROVE  MutesNothing
<1>1. PICK ok \in SinkOutcomes : \/ Create(k, s, ok)
                                 \/ MergeSuppressed(k, s, ok)
                                 \/ Reactivate(k, s, ok)
                                 \/ MergeDuplicate(k, s, ok)
                                 \/ MergeConfirm(k, s, ok)
  BY DEF Process
<1>2. CASE Create(k, s, ok)
  <2>. DEFINE a == NewAlert(k, s)
  <2>1. a.state = "NEW" /\ store' = [store EXCEPT ![a.id] = a]
    BY <1>2, SinkReturns DEF Create, Save, NewAlert
  <2>2. ASSUME NEW i \in AlertIds, store'[i] # NoAlert, store'[i].state = "SUPPRESSED"
        PROVE  store'[i] = store[i]
    <3>. HIDE DEF a
    <3>. QED  BY <2>1, <2>2 DEF EngineOK, TypeOK
  <2>. QED  BY <2>2 DEF MutesNothing
<1>3. CASE Cached(k) # NoAlert
  <2>. DEFINE c == Cached(k)
  <2>1. c = cache[k] /\ c \in Alert
    BY <1>3, CachedRow
  <2>2. Merge(c, s).id = c.id /\ Merge(c, s).state = c.state
    BY <2>1 DEF Merge, Alert
  <2>3. /\ Confirmed(Merge(c, s)).id = c.id
        /\ Confirmed(Merge(c, s)).state = IF c.state = "NEW" THEN "ACTIVE" ELSE c.state
    BY <2>1 DEF Confirmed, Merge, Alert
  <2>4. Merge(Reactivated(c), s).id = c.id /\ Merge(Reactivated(c), s).state = "ACTIVE"
    BY <2>1 DEF Reactivated, Merge, Alert
  <2>5. CASE MergeSuppressed(k, s, ok) \/ MergeDuplicate(k, s, ok)
    BY <1>3, <2>1, <2>2, <2>5, EditMutesNothing DEF MergeSuppressed, MergeDuplicate
  <2>6. CASE Reactivate(k, s, ok)
    BY <1>3, <2>1, <2>4, <2>6, EditMutesNothing DEF Reactivate
  <2>7. CASE MergeConfirm(k, s, ok)
    BY <1>3, <2>1, <2>3, <2>7, EditMutesNothing DEF MergeConfirm
  <2>. QED  BY <1>1, <1>2, <2>5, <2>6, <2>7
<1>. QED
  BY <1>1, <1>2, <1>3 DEF MergeSuppressed, Reactivate, MergeDuplicate, MergeConfirm

LEMMA StampMutesNothing ==
  ASSUME EngineOK, NEW k \in Keys, NEW v, Stamp(k, v)
  PROVE  MutesNothing
<1>1. CASE Cached(k) = NoAlert
  <2>1. store' = store
    BY <1>1 DEF Stamp
  <2>. QED  BY <2>1 DEF MutesNothing
<1>2. CASE Cached(k) # NoAlert
  <2>1. Cached(k) = cache[k] /\ cache[k] \in Alert
    BY <1>2, CachedRow
  <2>2. /\ Judged(cache[k], v).id = cache[k].id
        /\ Judged(cache[k], v).state = cache[k].state
    BY <2>1 DEF Judged, Alert
  <2>3. Save(k, Judged(cache[k], v), TRUE, TRUE) /\ TRUE \in SinkOutcomes
    BY <1>2, <2>1 DEF Stamp, SinkOutcomes
  <2>. QED  BY <1>2, <2>2, <2>3, EditMutesNothing
<1>. QED  BY <1>1, <1>2

LEMMA BlindStepMutesNothing ==
  ASSUME GateInv, [GateNext]_allVars, ~vision, task' # task
  PROVE  MutesNothing
<1>1. EngineOK
  BY DEF GateInv
<1>2. ASSUME NEW k \in Keys, NEW s \in Severities, NEW image \in BOOLEAN,
             HandleEvent(k, s, image)
      PROVE  MutesNothing
  BY <1>1, <1>2, ProcessMutesNothing DEF HandleEvent
<1>3. ASSUME NEW t \in Tasks, Confirm(t) \/ Dispute(t)
      PROVE  MutesNothing
  <2>1. task[t].key \in Keys
    BY <1>3, Asking DEF Confirm, Dispute
  <2>2. Stamp(task[t].key, "confirmed") \/ Stamp(task[t].key, "disputed")
    BY <1>3 DEF Confirm, Dispute
  <2>. QED  BY <1>1, <2>1, <2>2, StampMutesNothing
<1>4. ASSUME NEW t \in Tasks
      PROVE  ~ Reject(t)
  BY DEF Reject, MaySuppress
<1>5. ASSUME NEW t \in Tasks, Lookup(t) \/ Fallback(t) \/ Drafted(t)
      PROVE  MutesNothing
  <2>1. store' = store
    BY <1>5 DEF Lookup, Fallback, Drafted, vars
  <2>. QED  BY <2>1 DEF MutesNothing
<1>6. CASE GateCrash
  <2>1. store' = store
    BY <1>6 DEF GateCrash, Crash
  <2>. QED  BY <2>1 DEF MutesNothing
<1>7. ~ (Manager \/ Clockwork \/ GateRestart \/ UNCHANGED allVars)
  BY DEF Manager, Clockwork, GateRestart, gateVars, allVars
<1>. QED  BY <1>2, <1>3, <1>4, <1>5, <1>6, <1>7 DEF GateNext, GateStep

\* Every state change to SUPPRESSED under a verifier without eyes is a manager's,
\* for any keys, tasks, time to live and crashes.
LEMMA BlindNeverMutes == GateSpec => BlindGateNeverMutes
<1>1. GateInv /\ [GateNext]_allVars =>
        [~vision /\ task' # task =>
           \A i \in AlertIds : store'[i] # NoAlert /\ store'[i].state = "SUPPRESSED"
             => store[i] # NoAlert /\ store[i].state = "SUPPRESSED"]_allVars
  BY BlindStepMutesNothing DEF MutesNothing
<1>. QED  BY <1>1, GateInvariant, PTL DEF GateSpec, BlindGateNeverMutes

-----------------------------------------------------------------------------
(* The verdict on a row is the one people acted on.  A verification ends   *)
(* before the cache entry of its alert can expire (VerifiedInTime), so its *)
(* verdict stamps the alert that was verified.                             *)

\* The alert a task verifies is the one its key tracks, and will be until it ends.
Tracks(tsk) ==
  /\ cache[tsk.key] # NoAlert /\ cache[tsk.key].id = tsk.id
  /\ expires[tsk.key] >= tsk.since + CacheTTL
  /\ now <= tsk.since + VerifyTimeout

TasksTrack == \A t \in Tasks : task[t].pc \in Verifying => Tracks(task[t])

HonestInv == GateInv /\ TasksTrack /\ VerdictMatchesDeed

\* What the engine tracks for a verification is served.
LEMMA TrackedIsServed ==
  ASSUME TypeOK, NEW k \in Keys, NEW since \in Times, cache[k] # NoAlert,
         expires[k] >= since + CacheTTL, now <= since + VerifyTimeout
  PROVE  Cached(k) # NoAlert
<1>1. /\ now \in Int /\ CacheTTL \in Int /\ expires[k] \in Int
  BY EngineNumbers
<1>2. VerifyTimeout \in Int /\ since \in Int
  BY GateAssumption, BoundsAssumption DEF Times
<1>3. expires[k] >= now
  BY <1>1, <1>2, VerifiedInTime
<1>. QED  BY <1>3 DEF Cached

\* A verification keeps its alert through a step of the engine, unless time passes
\* its timeout.
LEMMA TracksOn ==
  ASSUME TypeOK, TypeOK', KeepsServed, NEW tsk \in Task, tsk.key \in Keys, Tracks(tsk),
         now' <= tsk.since + VerifyTimeout
  PROVE  Tracks(tsk)'
<1>1. PICK k \in Keys : k = tsk.key
  OBVIOUS
<1>2. PICK since \in Times : since = tsk.since
  BY DEF Task
<1>3. /\ cache[k] # NoAlert /\ cache[k].id = tsk.id
      /\ expires[k] >= since + CacheTTL /\ now <= since + VerifyTimeout
  BY <1>1, <1>2 DEF Tracks
<1>4. Cached(k) # NoAlert
  BY <1>3, TrackedIsServed
<1>5. cache'[k] # NoAlert /\ cache'[k].id = tsk.id /\ expires'[k] >= expires[k]
  BY <1>3, <1>4 DEF KeepsServed
<1>6. expires'[k] >= since + CacheTTL
  <2>1. /\ expires[k] \in Int /\ expires'[k] \in Int /\ CacheTTL \in Int /\ since \in Int
    BY TimingAssumption, BoundsAssumption DEF TypeOK, Times
  <2>. QED  BY <1>3, <1>5, <2>1
<1>. QED  BY <1>1, <1>2, <1>5, <1>6 DEF Tracks

\* What a task inside verify is known to hold.
LEMMA InVerify ==
  ASSUME GateInv, NEW t \in Tasks, task[t].pc \in Verifying
  PROVE  task[t] \in Task /\ task[t].key \in Keys /\ task[t].id \in AlertIds
BY DEF GateInv, GateTypeOK, TasksOK, Verifying

\* A step without a new verdict, in which no task starts to verify something else.
LEMMA HonestStay ==
  ASSUME HonestInv, GateInv', KeepsServed, KeepsRows, UNCHANGED task,
         \A t \in Tasks : task[t].pc \in Verifying => now' <= task[t].since + VerifyTimeout
  PROVE  HonestInv'
<1>1. ASSUME NEW t \in Tasks, task'[t].pc \in Verifying
      PROVE  Tracks(task[t])'
  <2>1. PICK tsk : tsk = task[t] /\ tsk = task'[t]
    OBVIOUS
  <2>2. /\ tsk \in Task /\ tsk.key \in Keys /\ Tracks(tsk)
        /\ now' <= tsk.since + VerifyTimeout
    BY <1>1, <2>1, InVerify DEF HonestInv, TasksTrack
  <2>3. Tracks(tsk)'
    BY <2>2, TracksOn DEF HonestInv, GateInv, EngineOK
  <2>. QED  BY <2>1, <2>3 DEF Tracks
<1>2. VerdictMatchesDeed'
  BY DEF HonestInv, VerdictMatchesDeed, KeepsRows, Said
<1>. QED  BY <1>1, <1>2 DEF HonestInv, TasksTrack

\* A task moves; its row may be stamped with what the task told people.
LEMMA HonestMove ==
  ASSUME HonestInv, GateInv', KeepsServed, UNCHANGED now,
         NEW t \in Tasks, NEW u, Moves(t, u),
         \/ u.pc \notin Verifying
         \/ task[t].pc \in Verifying /\ u.since = task[t].since
         \/ Tracks(u)',
         \A i \in AlertIds : store'[i] # NoAlert =>
           \/ store[i] # NoAlert /\ store'[i].verdict = store[i].verdict
           \/ store'[i].verdict = NoVerdict
           \/ /\ i = u.id
              /\ store'[i].verdict = "rejected" => SaidThen(u.id, "rejected")
              /\ store'[i].verdict \in {"confirmed", "disputed"} => "push" \in u.said
  PROVE  HonestInv'
<1>1. /\ task'[t] = u /\ \A x \in Tasks : x # t => task'[x] = task[x]
      /\ u.id \in AlertIds /\ u.key \in Keys
  BY DEF Moves, HonestInv, GateInv, GateTypeOK
<1>2. ASSUME NEW x \in Tasks, task'[x].pc \in Verifying
      PROVE  Tracks(task[x])'
  <2>1. ASSUME task[x].pc \in Verifying, NEW tsk, tsk = task[x]
        PROVE  Tracks(tsk)'
    <3>1. tsk \in Task /\ tsk.key \in Keys /\ Tracks(tsk) /\ now' <= tsk.since + VerifyTimeout
      BY <2>1, InVerify DEF HonestInv, TasksTrack, Tracks
    <3>. QED  BY <3>1, TracksOn DEF HonestInv, GateInv, EngineOK
  <2>2. PICK after : after = task'[x]
    OBVIOUS
  <2>3. Tracks(after)'
    <3>1. CASE x # t
      <4>1. PICK tsk : tsk = task[x]
        OBVIOUS
      <4>2. after = tsk /\ task[x].pc \in Verifying
        BY <1>1, <1>2, <2>2, <3>1, <4>1
      <4>3. Tracks(tsk)'
        BY <2>1, <4>1, <4>2
      <4>. QED  BY <4>2, <4>3
    <3>2. CASE x = t /\ task[t].pc \in Verifying /\ u.since = task[t].since
      <4>1. PICK tsk : tsk = task[t]
        OBVIOUS
      <4>2. Tracks(tsk)'
        BY <2>1, <3>2, <4>1
      <4>3. after.id = tsk.id /\ after.key = tsk.key /\ after.since = tsk.since
        BY <1>1, <2>2, <3>2, <4>1 DEF Moves, Verifying
      <4>. QED  BY <4>2, <4>3 DEF Tracks
    <3>3. CASE x = t /\ Tracks(u)'
      <4>1. after = u
        BY <1>1, <2>2, <3>3
      <4>. QED  BY <3>3, <4>1
    <3>4. x # t \/ (x = t /\ u.pc \in Verifying)
      BY <1>1, <1>2
    <3>. QED  BY <3>1, <3>2, <3>3, <3>4
  <2>. QED  BY <2>2, <2>3 DEF Tracks
<1>3. VerdictMatchesDeed'
  <2>. SUFFICES ASSUME NEW i \in AlertIds, store'[i] # NoAlert
                PROVE  /\ store'[i].verdict = "rejected" => SaidThen(i, "rejected")
                       /\ store'[i].verdict \in {"confirmed", "disputed"} => SaidThen(i, "push")
    BY DEF VerdictMatchesDeed, Said, SaidThen
  <2>1. CASE store[i] # NoAlert /\ store'[i].verdict = store[i].verdict
    BY <2>1, SaidStays DEF HonestInv, VerdictMatchesDeed
  <2>2. CASE store'[i].verdict = NoVerdict
    <3>1. NoVerdict \notin {"confirmed", "rejected", "disputed"}
      BY DataAssumption, GateAssumption
    <3>. QED  BY <2>2, <3>1
  <2>3. CASE /\ i = u.id
             /\ store'[i].verdict = "rejected" => SaidThen(u.id, "rejected")
             /\ store'[i].verdict \in {"confirmed", "disputed"} => "push" \in u.said
    BY <1>1, <2>3 DEF SaidThen
  <2>. QED  BY <2>1, <2>2, <2>3
<1>. QED  BY <1>2, <1>3 DEF HonestInv, TasksTrack

\* A verdict lands on the alert that was verified.
LEMMA StampLands ==
  ASSUME HonestInv, NEW t \in Tasks, task[t].pc \in {"ask", "waived"}, NEW v \in Verdicts,
         \/ Stamp(task[t].key, v)
         \/ v = "rejected" /\ StampAndSuppress(task[t].key),
         UNCHANGED <<now, up, crashes, nextId, nextSweep, detected, woken>>
  PROVE  /\ KeepsServed
         /\ \A i \in AlertIds : store'[i] # NoAlert =>
              \/ store[i] # NoAlert /\ store'[i].verdict = store[i].verdict
              \/ i = task[t].id /\ store'[i].verdict = v
<1>1. PICK k \in Keys : k = task[t].key
  BY Asking DEF HonestInv
<1>2. cache[k].id = task[t].id /\ EngineOK
  BY <1>1 DEF HonestInv, GateInv, TasksTrack, Tracks, Verifying
<1>3. Stamp(k, v) \/ (v = "rejected" /\ StampAndSuppress(k))
  BY <1>1
<1>4. StampsRow(k, v) /\ KeepsServed
  BY <1>2, <1>3, StampKeeps
<1>. QED  BY <1>2, <1>4 DEF StampsRow

LEMMA HandleEventHonest ==
  ASSUME HonestInv, GateInv',
         NEW k \in Keys, NEW s \in Severities, NEW image \in BOOLEAN, HandleEvent(k, s, image)
  PROVE  HonestInv'
<1>1. Process(k, s) /\ GateInv /\ EngineOK /\ UNCHANGED now
  BY DEF HandleEvent, HonestInv, GateInv, Process
<1>2. /\ KeepsServed
      /\ cache'[k] \in Alert /\ expires'[k] = now + CacheTTL
      /\ Cached(k) # NoAlert => KeepsRows
      /\ \A i \in AlertIds : store'[i] # NoAlert =>
           \/ store[i] # NoAlert /\ store'[i].verdict = store[i].verdict
           \/ store'[i].verdict = NoVerdict
  BY <1>1, ProcessRows DEF KeepsRows
<1>3. CASE Cached(k) # NoAlert /\ UNCHANGED <<task, quiet>>
  <2>1. \A t \in Tasks : task[t].pc \in Verifying => now' <= task[t].since + VerifyTimeout
    BY <1>1 DEF HonestInv, TasksTrack, Tracks
  <2>. QED  BY <1>2, <1>3, <2>1, HonestStay
<1>4. ASSUME NEW t \in Tasks, NEW u, Moves(t, u), u.id = cache'[k].id, u.key = k,
             u.pc \in Verifying => u.since = now
      PROVE  HonestInv'
  <2>1. cache'[k] # NoAlert
    BY <1>2, DataAssumption
  <2>2. u.pc \in Verifying => Tracks(u)'
    <3>. SUFFICES ASSUME u.pc \in Verifying
                  PROVE  Tracks(u)'
      OBVIOUS
    <3>1. /\ now \in Int /\ now + CacheTTL \in Int /\ VerifyTimeout \in Nat
      BY <1>1, EngineNumbers, GateAssumption DEF EngineOK
    <3>2. now' = now /\ u.since = now
      BY <1>1, <1>4
    <3>3. expires'[k] >= u.since + CacheTTL /\ now' <= u.since + VerifyTimeout
      BY <1>2, <3>1, <3>2
    <3>. QED  BY <1>4, <2>1, <3>3 DEF Tracks
  <2>. QED  BY <1>1, <1>2, <1>4, <2>2, HonestMove
<1>. QED  BY <1>1, <1>3, <1>4, HandleEventMoves

LEMMA GateStepHonest ==
  ASSUME HonestInv, GateInv', NEW t \in Tasks, GateStep(t) \/ Drafted(t)
  PROVE  HonestInv'
<1>0. GateInv /\ EngineOK
  BY DEF HonestInv, GateInv
<1>1. CASE Lookup(t) \/ Fallback(t) \/ Drafted(t)
  <2>1. UNCHANGED vars
    BY <1>1 DEF Lookup, Fallback, Drafted
  <2>2. KeepsServed /\ KeepsRows /\ UNCHANGED now
    BY <1>0, <2>1, CalmCaches DEF KeepsRows, vars, Crash
  <2>3. CASE Lookup(t) \/ Fallback(t)
    <3>1. PICK u : Moves(t, u) /\ u.since = task[t].since
      BY <1>0, <2>3, LookupMoves
    <3>2. task[t].pc \in Verifying
      BY <2>3 DEF Lookup, Fallback, Verifying
    <3>. QED  BY <2>2, <3>1, <3>2, HonestMove DEF KeepsRows
  <2>4. CASE Drafted(t)
    <3>1. PICK u : Moves(t, u) /\ u.pc = "done"
      BY <1>0, <2>4, DraftedMoves
    <3>2. u.pc \notin Verifying
      BY <3>1 DEF Verifying
    <3>. QED  BY <2>2, <3>1, <3>2, HonestMove DEF KeepsRows
  <2>. QED  BY <1>1, <2>3, <2>4
<1>2. CASE Confirm(t) \/ Dispute(t)
  <2>1. /\ task[t].pc \in {"ask", "waived"} /\ TellPeople(t, task[t]) /\ UNCHANGED quiet
        /\ UNCHANGED <<now, up, crashes, nextId, nextSweep, detected, woken>>
    BY <1>2 DEF Confirm, Dispute
  <2>2. PICK v \in {"confirmed", "disputed"} : Stamp(task[t].key, v)
    BY <1>2 DEF Confirm, Dispute
  <2>3. v \in Verdicts /\ v # "rejected"
    BY GateAssumption
  <2>4. /\ KeepsServed
        /\ \A i \in AlertIds : store'[i] # NoAlert =>
             \/ store[i] # NoAlert /\ store'[i].verdict = store[i].verdict
             \/ i = task[t].id /\ store'[i].verdict = v
    BY <2>1, <2>2, <2>3, StampLands
  <2>5. task[t] \in Task /\ task[t].id \in AlertIds /\ task[t].key \in Keys
    BY <1>0, <2>1, Asking
  <2>6. PICK u : Moves(t, u) /\ u.pc \in {"done", "draft"} /\ u.id = task[t].id /\ "push" \in u.said
    BY <1>0, <2>1, <2>5, TellDoes
  <2>7. u.pc \notin Verifying
    BY <2>6 DEF Verifying
  <2>. QED  BY <2>1, <2>3, <2>4, <2>6, <2>7, HonestMove
<1>3. CASE Reject(t)
  <2>1. /\ task[t].pc = "ask" /\ StampAndSuppress(task[t].key)
        /\ UNCHANGED <<now, up, crashes, nextId, nextSweep, detected, woken>>
    BY <1>3 DEF Reject
  <2>2. "rejected" \in Verdicts
    BY GateAssumption
  <2>3. /\ KeepsServed
        /\ \A i \in AlertIds : store'[i] # NoAlert =>
             \/ store[i] # NoAlert /\ store'[i].verdict = store[i].verdict
             \/ i = task[t].id /\ store'[i].verdict = "rejected"
    BY <2>1, <2>2, StampLands
  <2>4. PICK u : Moves(t, u) /\ u.id = task[t].id /\ u.pc = "done" /\ SaidThen(u.id, "rejected")
    BY <1>0, <1>3, RejectShows
  <2>5. u.pc \notin Verifying
    BY <2>4 DEF Verifying
  <2>. QED  BY <2>1, <2>3, <2>4, <2>5, HonestMove
<1>. QED  BY <1>1, <1>2, <1>3 DEF GateStep

LEMMA RestHonest ==
  ASSUME HonestInv, GateInv',
         Manager \/ Clockwork \/ GateCrash \/ GateRestart \/ UNCHANGED allVars
  PROVE  HonestInv'
<1>0. GateInv /\ EngineOK
  BY DEF HonestInv, GateInv
<1>1. CASE Manager \/ Clockwork \/ GateRestart \/ UNCHANGED allVars
  <2>1. KeepsServed /\ KeepsRows
    <3>1. CASE Manager \/ Clockwork \/ GateRestart
      <4>1. ~ Crash
        BY <3>1 DEF Manager, Clockwork, GateRestart, Crash, Resolve, Suppress, Unsuppress, Evict,
                    SweepOnce, Tick, Restart, EngineOK, TypeOK
      <4>. QED  BY <1>0, <3>1, <4>1, OthersKeepRows DEF Manager, Clockwork, GateRestart
    <3>2. CASE UNCHANGED allVars
      <4>1. UNCHANGED vars
        BY <3>2 DEF allVars
      <4>. QED  BY <1>0, <4>1, CalmCaches DEF vars, KeepsRows, Crash
    <3>. QED  BY <1>1, <3>1, <3>2
  <2>2. UNCHANGED task
    BY <1>1 DEF Manager, Clockwork, GateRestart, gateVars, allVars
  <2>3. ASSUME NEW t \in Tasks, task[t].pc \in Verifying
        PROVE  now' <= task[t].since + VerifyTimeout
    <3>1. CASE now' = now
      BY <2>3, <3>1 DEF HonestInv, TasksTrack, Tracks
    <3>2. CASE now' = now + 1 /\ now < task[t].since + VerifyTimeout
      <4>1. now \in Int /\ task[t].since \in Int /\ VerifyTimeout \in Int
        BY <1>0, <2>3, InVerify, EngineNumbers, GateAssumption, BoundsAssumption
           DEF EngineOK, Task, Times
      <4>. QED  BY <3>2, <4>1
    <3>3. now' = now \/ (now' = now + 1 /\ now < task[t].since + VerifyTimeout)
      BY <1>1, <2>3 DEF Manager, Clockwork, GateRestart, Resolve, Suppress, Unsuppress, Evict,
                        SweepOnce, Tick, Restart, allVars, vars
    <3>. QED  BY <3>1, <3>2, <3>3
  <2>. QED  BY <2>1, <2>2, <2>3, HonestStay
<1>2. CASE GateCrash
  <2>1. /\ store' = store
        /\ task' = [t \in Tasks |-> IF task[t].pc \in {"fresh", "done"} THEN task[t]
                                      ELSE [task[t] EXCEPT !.pc = "lost", !.image = FALSE,
                                                           !.since = 0]]
    BY <1>2 DEF GateCrash, Crash
  <2>2. ASSUME NEW t \in Tasks
        PROVE  /\ task'[t].id = task[t].id /\ task'[t].said = task[t].said
               /\ task'[t].pc \notin Verifying
    <3>1. task[t] \in Task
      BY <1>0 DEF GateInv, GateTypeOK
    <3>2. task'[t] = IF task[t].pc \in {"fresh", "done"} THEN task[t]
                       ELSE [task[t] EXCEPT !.pc = "lost", !.image = FALSE, !.since = 0]
      BY <2>1
    <3>. QED  BY <3>1, <3>2 DEF Task, Verifying
  <2>3. TasksTrack'
    BY <2>2 DEF TasksTrack
  <2>4. \A i \in AlertIds, w \in Told : Said(i, w) => SaidThen(i, w)
    BY <2>2 DEF Said, SaidThen
  <2>5. VerdictMatchesDeed'
    <3>. SUFFICES ASSUME NEW i \in AlertIds, store'[i] # NoAlert
                  PROVE  /\ store'[i].verdict = "rejected" => SaidThen(i, "rejected")
                         /\ store'[i].verdict \in {"confirmed", "disputed"} => SaidThen(i, "push")
      BY DEF VerdictMatchesDeed, Said, SaidThen
    <3>. QED  BY <1>0, <2>1, <2>4 DEF HonestInv, VerdictMatchesDeed, Told
  <2>. QED  BY <2>3, <2>5 DEF HonestInv
<1>. QED  BY <1>1, <1>2

(* The verifier's power is used as it says: the verdict on a row is the    *)
(* one people acted on, for any keys, tasks, models, times to live and     *)
(* crashes, as long as a verification ends before a cache entry expires.   *)
THEOREM GateStaysHonest == GateSpec => GateIsHonest
<1>1. GateInit => HonestInv
  <2>. SUFFICES ASSUME GateInit
                PROVE  HonestInv
    OBVIOUS
  <2>1. TasksTrack /\ VerdictMatchesDeed
    BY DEF GateInit, Init, TasksTrack, VerdictMatchesDeed, FreshTask, Verifying
  <2>. QED  BY <2>1, GateInitOK DEF HonestInv
<1>2. HonestInv /\ GateInv' /\ [GateNext]_allVars => HonestInv'
  BY HandleEventHonest, GateStepHonest, RestHonest DEF GateNext
<1>3. HonestInv => GateTypeOK /\ VerdictMatchesDeed
  BY DEF HonestInv, GateInv
<1>. QED  BY <1>1, <1>2, <1>3, GateInvariant, BlindNeverMutes, PTL DEF GateSpec, GateIsHonest
=============================================================================
