---------------------------- MODULE TriggerEngine ----------------------------
(***************************************************************************)
(* The trigger engine of the backend (fieldpilot/triggers/engine.py) with  *)
(* its hot cache (triggers/cache.py), the alerts table it writes through   *)
(* to (backend/store.py) and the alerts.* topics it publishes.             *)
(*                                                                         *)
(* An event carries a dedup key and a severity.  All events of one key are *)
(* one issue, tracked as one alert in the cache.  In the default           *)
(* configuration (memory bus, memory cache, SQLite) no await inside an     *)
(* engine operation suspends, so every operation is one step here; time    *)
(* passes, the sweeper fires and the process dies between operations.      *)
(*                                                                         *)
(* Not modelled: confidence (kept as a maximum exactly like severity),     *)
(* suppressed_at, message, image and payload other than llm_verdict.       *)
(***************************************************************************)
EXTENDS Integers, FiniteSets

CONSTANTS
  Keys,           \* dedup keys (Event.dedup_key)
  NoAlert,        \* no cache entry, no row
  Severities,     \* ranks of low < medium < high < critical
  Verdicts,       \* what payload.llm_verdict can hold ...
  NoVerdict,      \* ... and its absence
  DedupWindow,    \* triggers.dedup_window_s
  ResolveAfter,   \* triggers.resolve_after_s
  CacheTTL,       \* triggers.cache_ttl_s
  SweepInterval,  \* triggers.sweep_interval_s
  SinkMayFail,    \* may store.upsert_alert raise?
  MaxTime, MaxAlerts, MaxHits, MaxCrashes   \* bounds of the explored instance

ASSUME TimingAssumption ==
  /\ DedupWindow \in Nat \ {0}
  /\ ResolveAfter \in Nat \ {0}
  /\ CacheTTL \in Nat \ {0}
  /\ SweepInterval \in Nat \ {0}

ASSUME BoundsAssumption ==
  /\ MaxTime \in Nat
  /\ MaxAlerts \in Nat
  /\ MaxHits \in Nat \ {0}
  /\ MaxCrashes \in Nat

AlertIds == 1..MaxAlerts
Never    == -1
Times    == 0..MaxTime
States   == {"NEW", "ACTIVE", "RESOLVED", "SUPPRESSED"}
Open     == {"NEW", "ACTIVE"}

Alert == [ id         : AlertIds,
           key        : Keys,
           state      : States,
           hits       : 1..MaxHits,
           sev        : Severities,
           first      : Times,
           last       : Times,
           resolvedAt : Times \cup {Never},
           verdict    : Verdicts \cup {NoVerdict} ]

ASSUME DataAssumption ==
  /\ Severities \subseteq Nat
  /\ SinkMayFail \in BOOLEAN
  /\ NoAlert \notin Alert
  /\ NoVerdict \notin Verdicts

VARIABLES
  now,        \* the clock read by the engine and by the cache
  up,         \* the backend process is running
  crashes,    \* how often it died (bounded)
  cache,      \* InMemoryTriggerCache._data, value part
  expires,    \* InMemoryTriggerCache._data, expiry part
  store,      \* rows of the alerts table, by alert_id
  nextId,     \* alert ids are fresh (uuid4): the next one
  nextSweep,  \* when the sweeper wakes up
  told,       \* state in the last alerts.* message about each alert
  detected,   \* history: when each key's last event was processed
  woken       \* history: keys unsuppressed since the last sweep

vars == <<now, up, crashes, cache, expires, store, nextId, nextSweep, told,
          detected, woken>>

TypeOK ==
  /\ now \in Times
  /\ up \in BOOLEAN
  /\ crashes \in 0..MaxCrashes
  /\ cache \in [Keys -> Alert \cup {NoAlert}]
  /\ expires \in [Keys -> 0..(MaxTime + CacheTTL)]
  /\ store \in [AlertIds -> Alert \cup {NoAlert}]
  /\ nextId \in 1..(MaxAlerts + 1)
  /\ nextSweep \in 0..(MaxTime + SweepInterval)
  /\ told \in [AlertIds -> States \cup {NoAlert}]
  /\ detected \in [Keys -> Times \cup {Never}]
  /\ woken \in SUBSET Keys

Init ==
  /\ now = 0
  /\ up = TRUE
  /\ crashes = 0
  /\ cache = [k \in Keys |-> NoAlert]
  /\ expires = [k \in Keys |-> 0]
  /\ store = [i \in AlertIds |-> NoAlert]
  /\ nextId = 1
  /\ nextSweep = SweepInterval
  /\ told = [i \in AlertIds |-> NoAlert]
  /\ detected = [k \in Keys |-> Never]
  /\ woken = {}

-----------------------------------------------------------------------------
(* Pure functions on alerts.                                               *)

\* The Alert built by process() on a cache miss.
NewAlert(k, s) ==
  [ id |-> nextId, key |-> k, state |-> "NEW", hits |-> 1, sev |-> s,
    first |-> now, last |-> now, resolvedAt |-> Never, verdict |-> NoVerdict ]

\* Mutant of Merge: the last event's severity overwrites the alert's.
MergeOverwriting(a, s) ==
  [a EXCEPT !.hits = @ + 1, !.last = now, !.sev = s]

\* _merge: one more occurrence folded into the alert; severity only rises.
Merge(a, s) ==
  [a EXCEPT !.hits = @ + 1,
            !.last = now,
            !.sev  = IF s > @ THEN s ELSE @]

Reactivated(a)  == [a EXCEPT !.state = "ACTIVE", !.resolvedAt = Never]
Confirmed(a)    == [a EXCEPT !.state = IF @ = "NEW" THEN "ACTIVE" ELSE @]
Resolved(a)     == [a EXCEPT !.state = "RESOLVED", !.resolvedAt = now]
Suppressed(a)   == [a EXCEPT !.state = "SUPPRESSED"]

\* Mutant of Unsuppressed: a state name the table does not know.
UnsuppressedToOpen(a) == [a EXCEPT !.state = "OPEN"]

Unsuppressed(a) == [a EXCEPT !.state = "ACTIVE"]
Judged(a, v)    == [a EXCEPT !.verdict = v]

\* cache.get: an entry is served until its expiry time has passed.
Cached(k) == IF cache[k] # NoAlert /\ expires[k] >= now THEN cache[k] ELSE NoAlert

\* Whether the alert_sink call of this operation returns or raises.
SinkOutcomes == IF SinkMayFail THEN BOOLEAN ELSE {TRUE}

\* Mutant of Save: the emission does not wait for the sink.
SaveEmittingFirst(k, a, tell, ok) ==
  /\ cache' = [cache EXCEPT ![k] = a]
  /\ expires' = [expires EXCEPT ![k] = now + CacheTTL]
  /\ store' = IF ok THEN [store EXCEPT ![a.id] = a] ELSE store
  /\ told' = IF tell THEN [told EXCEPT ![a.id] = a.state] ELSE told

\* _save (cache first, then the sink) and, when tell, _emit.  A raising sink
\* ends the operation before the emission.
Save(k, a, tell, ok) ==
  /\ cache' = [cache EXCEPT ![k] = a]
  /\ expires' = [expires EXCEPT ![k] = now + CacheTTL]
  /\ store' = IF ok THEN [store EXCEPT ![a.id] = a] ELSE store
  /\ told' = IF ok /\ tell THEN [told EXCEPT ![a.id] = a.state] ELSE told

-----------------------------------------------------------------------------
(* process(event): the five outcomes.                                      *)

Create(k, s, ok) ==
  /\ Cached(k) = NoAlert
  /\ nextId <= MaxAlerts
  /\ Save(k, NewAlert(k, s), TRUE, ok)
  /\ nextId' = nextId + 1

\* Mutants of MergeSuppressed: the occurrence is not recorded; it lifts the mute.
MergeSuppressedUncounted(k, s, ok) ==
  /\ Cached(k) # NoAlert
  /\ Cached(k).state = "SUPPRESSED"
  /\ Save(k, Cached(k), FALSE, ok)
  /\ UNCHANGED nextId

MergeSuppressedWaking(k, s, ok) ==
  /\ Cached(k) # NoAlert
  /\ Cached(k).state = "SUPPRESSED"
  /\ Save(k, Merge(Unsuppressed(Cached(k)), s), TRUE, ok)
  /\ UNCHANGED nextId

MergeSuppressed(k, s, ok) ==
  /\ Cached(k) # NoAlert
  /\ Cached(k).state = "SUPPRESSED"
  /\ Save(k, Merge(Cached(k), s), FALSE, ok)
  /\ UNCHANGED nextId

\* Mutant of Reactivate: nobody is told.
ReactivateSilently(k, s, ok) ==
  /\ Cached(k) # NoAlert
  /\ Cached(k).state = "RESOLVED"
  /\ Save(k, Merge(Reactivated(Cached(k)), s), FALSE, ok)
  /\ UNCHANGED nextId

Reactivate(k, s, ok) ==
  /\ Cached(k) # NoAlert
  /\ Cached(k).state = "RESOLVED"
  /\ Save(k, Merge(Reactivated(Cached(k)), s), TRUE, ok)
  /\ UNCHANGED nextId

MergeDuplicate(k, s, ok) ==
  /\ Cached(k) # NoAlert
  /\ Cached(k).state \in Open
  /\ now - Cached(k).last < DedupWindow
  /\ Save(k, Merge(Cached(k), s), FALSE, ok)
  /\ UNCHANGED nextId

MergeConfirm(k, s, ok) ==
  /\ Cached(k) # NoAlert
  /\ Cached(k).state \in Open
  /\ now - Cached(k).last >= DedupWindow
  /\ Save(k, Confirmed(Merge(Cached(k), s)), TRUE, ok)
  /\ UNCHANGED nextId

Process(k, s) ==
  /\ up
  /\ Cached(k) # NoAlert => Cached(k).hits < MaxHits
  /\ \E ok \in SinkOutcomes :
       \/ Create(k, s, ok)
       \/ MergeSuppressed(k, s, ok)
       \/ Reactivate(k, s, ok)
       \/ MergeDuplicate(k, s, ok)
       \/ MergeConfirm(k, s, ok)
  /\ detected' = [detected EXCEPT ![k] = now]
  /\ UNCHANGED <<now, up, crashes, nextSweep, woken>>

-----------------------------------------------------------------------------
(* Operator and verifier operations, addressed by dedup key.               *)

Resolve(k) ==
  /\ up
  /\ Cached(k) # NoAlert
  /\ Cached(k).state # "RESOLVED"
  /\ \E ok \in SinkOutcomes : Save(k, Resolved(Cached(k)), TRUE, ok)
  /\ UNCHANGED <<now, up, crashes, nextId, nextSweep, detected, woken>>

Suppress(k) ==
  /\ up
  /\ Cached(k) # NoAlert
  /\ \E ok \in SinkOutcomes : Save(k, Suppressed(Cached(k)), TRUE, ok)
  /\ UNCHANGED <<now, up, crashes, nextId, nextSweep, detected, woken>>

Unsuppress(k) ==
  /\ up
  /\ Cached(k) # NoAlert
  /\ Cached(k).state = "SUPPRESSED"
  /\ \E ok \in SinkOutcomes : Save(k, Unsuppressed(Cached(k)), TRUE, ok)
  /\ woken' = woken \cup {k}
  /\ UNCHANGED <<now, up, crashes, nextId, nextSweep, detected>>

\* Mutant of SetVerdict: the verdict is stamped on the tracked alert only.
SetVerdictInMemory(k, v) ==
  /\ up
  /\ Cached(k) # NoAlert
  /\ cache' = [cache EXCEPT ![k] = Judged(Cached(k), v)]
  /\ expires' = [expires EXCEPT ![k] = now + CacheTTL]
  /\ UNCHANGED <<now, up, crashes, store, nextId, nextSweep, told, detected, woken>>

SetVerdict(k, v) ==
  /\ up
  /\ Cached(k) # NoAlert
  /\ \E ok \in SinkOutcomes : Save(k, Judged(Cached(k), v), TRUE, ok)
  /\ UNCHANGED <<now, up, crashes, nextId, nextSweep, detected, woken>>

\* Any of the four on a key whose entry has expired: get() deletes the entry
\* and the operation returns None.
Evict(k) ==
  /\ up
  /\ cache[k] # NoAlert
  /\ Cached(k) = NoAlert
  /\ cache' = [cache EXCEPT ![k] = NoAlert]
  /\ expires' = [expires EXCEPT ![k] = 0]
  /\ UNCHANGED <<now, up, crashes, store, nextId, nextSweep, told, detected, woken>>

-----------------------------------------------------------------------------
(* The sweeper.                                                            *)

\* Mutants of Due: age counted from the first occurrence; confirmed alerts kept.
DueByFirstSeen == {k \in Keys : /\ Cached(k) # NoAlert
                                /\ Cached(k).state \in Open
                                /\ now - Cached(k).first >= ResolveAfter}

DueNewOnly == {k \in Keys : /\ Cached(k) # NoAlert
                            /\ Cached(k).state = "NEW"
                            /\ now - Cached(k).last >= ResolveAfter}

\* Open alerts without a detection for ResolveAfter.
Due == {k \in Keys : /\ Cached(k) # NoAlert
                     /\ Cached(k).state \in Open
                     /\ now - Cached(k).last >= ResolveAfter}

\* The key of done whose cached alert is i.
KeyOf(i, done) == CHOOSE k \in done : cache[k].id = i

\* One pass resolves the due alerts in turn.  When the sink raises on one of
\* them the loop is left: done were resolved, failed only in the cache.
SweepPass(done, failed) ==
  /\ cache' = [k \in Keys |-> IF k \in done \cup failed
                                THEN Resolved(Cached(k)) ELSE Cached(k)]
  /\ expires' = [k \in Keys |-> IF k \in done \cup failed THEN now + CacheTTL
                                ELSE IF Cached(k) = NoAlert THEN 0 ELSE expires[k]]
  /\ store' = [i \in AlertIds |-> IF \E k \in done : cache[k].id = i
                                    THEN Resolved(cache[KeyOf(i, done)]) ELSE store[i]]
  /\ told' = [i \in AlertIds |-> IF \E k \in done : cache[k].id = i
                                   THEN "RESOLVED" ELSE told[i]]

\* sweep_once, then sleep(interval_s).
SweepOnce ==
  /\ up
  /\ now = nextSweep
  /\ \/ SweepPass(Due, {})
     \/ /\ SinkMayFail
        /\ \E f \in Due : \E done \in SUBSET (Due \ {f}) : SweepPass(done, {f})
  /\ nextSweep' = now + SweepInterval
  /\ woken' = {}
  /\ UNCHANGED <<now, up, crashes, nextId, detected>>

-----------------------------------------------------------------------------
(* The environment: time, and the life of the process.                     *)

\* The sweeper is punctual: time does not pass its wake-up before it ran.
Tick ==
  /\ now < MaxTime
  /\ up => now < nextSweep
  /\ now' = now + 1
  /\ UNCHANGED <<up, crashes, cache, expires, store, nextId, nextSweep, told,
                 detected, woken>>

\* Mutant of Crash: the cache outlives the process.
CrashKeepingCache ==
  /\ up
  /\ crashes < MaxCrashes
  /\ up' = FALSE
  /\ crashes' = crashes + 1
  /\ woken' = {}
  /\ UNCHANGED <<now, cache, expires, store, nextId, nextSweep, told, detected>>

\* The in-memory cache dies with the process; the alerts table does not.
Crash ==
  /\ up
  /\ crashes < MaxCrashes
  /\ up' = FALSE
  /\ crashes' = crashes + 1
  /\ cache' = [k \in Keys |-> NoAlert]
  /\ expires' = [k \in Keys |-> 0]
  /\ woken' = {}
  /\ UNCHANGED <<now, store, nextId, nextSweep, told, detected>>

\* The lifespan starts the sweeper; nothing reads the alerts table back.
Restart ==
  /\ ~up
  /\ up' = TRUE
  /\ nextSweep' = now + SweepInterval
  /\ UNCHANGED <<now, crashes, cache, expires, store, nextId, told, detected, woken>>

Next ==
  \/ \E k \in Keys, s \in Severities : Process(k, s)
  \/ \E k \in Keys : Resolve(k)
  \/ \E k \in Keys : Suppress(k)
  \/ \E k \in Keys : Unsuppress(k)
  \/ \E k \in Keys, v \in Verdicts : SetVerdict(k, v)
  \/ \E k \in Keys : Evict(k)
  \/ SweepOnce
  \/ Tick
  \/ Crash
  \/ Restart

Spec == Init /\ [][Next]_vars

-----------------------------------------------------------------------------
(* Properties.                                                             *)

\* Alert ids do not leak between issues: a cached alert belongs to its key,
\* its id was handed out, and no two keys share an alert (uuid per cache miss
\* in process()).
TrackedDistinct ==
  \A k \in Keys : cache[k] # NoAlert =>
    /\ cache[k].key = k
    /\ cache[k].id < nextId
    /\ \A j \in Keys : cache[j] # NoAlert /\ cache[j].id = cache[k].id => j = k

\* Write-through: as long as the sink never raised, the dashboard's row of a
\* tracked alert is exactly what the engine tracks (_save).
CacheStoreAgree ==
  ~SinkMayFail =>
    \A k \in Keys : cache[k] # NoAlert => store[cache[k].id] = cache[k]

\* Whoever follows alerts.new / alerts.updated / alerts.resolved knows the state
\* of every row, although most operations do not emit: every operation that
\* changes the state emits.
FollowerKnowsState ==
  ~SinkMayFail =>
    \A i \in AlertIds : IF store[i] = NoAlert THEN told[i] = NoAlert
                        ELSE told[i] = store[i].state

(* The engine, the table and whoever follows the alerts.* topics agree on  *)
(* every alert, as long as the table takes every write.                    *)
EverybodyAgrees ==
  CacheStoreAgree /\ FollowerKnowsState

\* Nothing is announced that is not in the table: an alert a follower heard of
\* has a row, even when the sink fails (_save before _emit).
AnnouncedIsDurable ==
  \A i \in AlertIds : told[i] # NoAlert => store[i] # NoAlert

\* Auto-resolve is timely: an issue still shown as open had a detection less than
\* ResolveAfter + SweepInterval ago, unless an operator unsuppressed it since the
\* last pass (unsuppress does not refresh last_seen).
OpenIsFresh ==
  ~SinkMayFail /\ up =>
    \A k \in Keys : /\ Cached(k) # NoAlert
                    /\ Cached(k).state \in Open
                    /\ k \notin woken
                    => now - Cached(k).last < ResolveAfter + SweepInterval

\* last_seen is the time of the key's last event in every state, so a resolved
\* alert was resolved at or after its last occurrence.
LastSeenIsLastEvent ==
  \A k \in Keys : cache[k] # NoAlert =>
    /\ cache[k].last = detected[k]
    /\ cache[k].state = "RESOLVED" => cache[k].resolvedAt >= cache[k].last

\* The sweeper never closes a live issue: an alert that a pass resolves had no
\* event for ResolveAfter.
SweepSparesLive ==
  [][\A k \in Keys :
       /\ cache[k] # NoAlert /\ cache[k].state \in Open
       /\ cache'[k] # NoAlert /\ cache'[k].state = "RESOLVED"
       /\ SweepOnce
       => now - detected[k] >= ResolveAfter]_vars

\* The history of a row is monotone: over its whole life, across resolution,
\* reactivation, suppression and verdicts, it never loses a hit or a severity,
\* never moves back in time and never changes its issue.
RowsMonotone ==
  [][\A i \in AlertIds : store[i] # NoAlert =>
       /\ store'[i] # NoAlert
       /\ store'[i].key = store[i].key
       /\ store'[i].first = store[i].first
       /\ store'[i].hits >= store[i].hits
       /\ store'[i].sev >= store[i].sev
       /\ store'[i].last >= store[i].last]_vars

(* What a row tells of the past can be relied on, with a table that        *)
(* refuses writes: it never loses a hit, a severity or its place in time,  *)
(* its last_seen is the last event of its issue, and no follower heard of  *)
(* an alert that has no row.                                               *)
HistoryIsKept ==
  /\ []LastSeenIsLastEvent /\ []AnnouncedIsDurable
  /\ RowsMonotone

-----------------------------------------------------------------------------
(* The engine implements AlertBoard.                                       *)

\* The board's word for an alert state.
StatusOf(st) == CASE st \in Open          -> "open"
                  [] st = "RESOLVED"      -> "closed"
                  [] st = "SUPPRESSED"    -> "muted"
                  [] OTHER                -> "untracked"

boardStatus ==
  [k \in Keys |-> IF Cached(k) = NoAlert THEN "untracked" ELSE StatusOf(Cached(k).state)]

boardHeard ==
  [k \in Keys |-> IF Cached(k) = NoAlert THEN "untracked" ELSE StatusOf(told[Cached(k).id])]

Board == INSTANCE AlertBoard WITH Issues <- Keys, status <- boardStatus,
                                  heard <- boardHeard

\* With a reliable sink every engine step is a step of the board or invisible on
\* it: merging, confirming and stamping a verdict change no status, resolving,
\* suppressing and reactivating are heard at once, expiry and a crash only forget.
ImplementsBoard == Board!BoardSpec
=============================================================================
