--------------------------- MODULE AlertsApiProofs ---------------------------
(***************************************************************************)
(* Theorems about the operator routes, for any number of issues and        *)
(* requests.  A route takes a step of the trigger engine, so whatever      *)
(* holds of the engine alone holds of it under the routes.                 *)
(***************************************************************************)
EXTENDS AlertsApi, TriggerEngineProofs

LEMMA RouteIsEngineStep ==
  ASSUME TypeOK, [ApiNext]_apiVars
  PROVE  [Next]_vars
<1>1. CASE Engine
  BY <1>1 DEF Engine, Next
<1>2. ASSUME NEW id \in AlertIds, NEW op \in Ops, Mutate(id, op)
      PROVE  [Next]_vars
  <2>1. store[id].key \in Keys
    BY <1>2 DEF Mutate, TypeOK, Alert
  <2>. QED  BY <1>2, <2>1 DEF Mutate, EngineCall, Next
<1>3. CASE UNCHANGED apiVars
  BY <1>3 DEF apiVars
<1>. QED  BY <1>1, <1>2, <1>3 DEF ApiNext

(* Under the operator routes the engine does nothing it could not do       *)
(* without them: a route is a call of the engine.                          *)
THEOREM RoutesRefineEngine == ApiSpec => Spec
<1>1. ApiInit => Init
  BY DEF ApiInit
<1>2. TypeOK /\ [ApiNext]_apiVars => [Next]_vars
  BY RouteIsEngineStep
<1>3. Init => TypeOK
  BY InitType
<1>4. TypeOK /\ [ApiNext]_apiVars => TypeOK'
  BY <1>2, NextType
<1>. QED  BY <1>1, <1>2, <1>3, <1>4, PTL DEF ApiSpec, Spec

(* With operators at work an open issue is as fresh, and a live one as     *)
(* safe from the sweeper, as without them.                                 *)
THEOREM RoutesKeepSweeping == ApiSpec => []OpenIsFresh /\ SweepSparesLive
BY RoutesRefineEngine, AutoResolveTimely, SweepsSpareTheLive, PTL

-----------------------------------------------------------------------------
(* A suppressed row.                                                       *)

\* Rows have ids that were handed out, so a new alert takes no row over.
RowsHaveIds == \A i \in AlertIds : store[i] # NoAlert => i < nextId

LEMMA DetectionKeepsMuted ==
  ASSUME TypeOK, CacheStoreAgree, RowsHaveIds, ~SinkMayFail,
         NEW k \in Keys, NEW s \in Severities, Process(k, s),
         NEW i \in AlertIds, store[i] # NoAlert, store[i].state = "SUPPRESSED"
  PROVE  store'[i].state = "SUPPRESSED"
<1>1. PICK ok \in {TRUE} : \/ Create(k, s, ok)
                           \/ MergeSuppressed(k, s, ok)
                           \/ Reactivate(k, s, ok)
                           \/ MergeDuplicate(k, s, ok)
                           \/ MergeConfirm(k, s, ok)
  BY DEF Process, SinkOutcomes
<1>2. CASE Create(k, s, ok)
  <2>1. store' = [store EXCEPT ![nextId] = NewAlert(k, s)]
    BY <1>1, <1>2 DEF Create, Save, NewAlert
  <2>2. i # nextId
    BY DEF RowsHaveIds, TypeOK
  <2>. QED  BY <2>1, <2>2 DEF TypeOK
<1>3. CASE Cached(k) # NoAlert
  <2>1. Cached(k) = cache[k] /\ cache[k] \in Alert
    BY <1>3, CachedType
  <2>2. store[cache[k].id] = cache[k] /\ cache[k].id \in AlertIds
    BY <1>3, <2>1, AlertNumbers DEF CacheStoreAgree
  <2>3. CASE cache[k].id = i
    <3>1. cache[k].state = "SUPPRESSED"
      BY <2>2, <2>3
    <3>2. MergeSuppressed(k, s, ok)
      BY <1>1, <1>3, <2>1, <3>1 DEF Create, Reactivate, MergeDuplicate, MergeConfirm, Open
    <3>3. Merge(cache[k], s).id = i /\ Merge(cache[k], s).state = "SUPPRESSED"
      BY <2>1, <2>3, <3>1 DEF Merge, Alert
    <3>. QED  BY <1>1, <2>1, <3>2, <3>3 DEF MergeSuppressed, Save, TypeOK
  <2>4. CASE cache[k].id # i
    <3>1. ASSUME NEW a, NEW tell, Save(k, a, tell, ok), a.id = cache[k].id
          PROVE  store'[i].state = "SUPPRESSED"
      BY <2>4, <3>1 DEF Save, TypeOK
    <3>2. /\ Merge(cache[k], s).id = cache[k].id
          /\ Merge(Reactivated(cache[k]), s).id = cache[k].id
          /\ Confirmed(Merge(cache[k], s)).id = cache[k].id
      BY <2>1 DEF Merge, Reactivated, Confirmed, Alert
    <3>. QED
      BY <1>1, <1>3, <2>1, <3>1, <3>2
         DEF Create, MergeSuppressed, Reactivate, MergeDuplicate, MergeConfirm
  <2>. QED  BY <2>3, <2>4
<1>. QED
  BY <1>1, <1>2, <1>3 DEF MergeSuppressed, Reactivate, MergeDuplicate, MergeConfirm

LEMMA SweepKeepsMuted ==
  ASSUME TypeOK, CacheStoreAgree, ~SinkMayFail, SweepOnce,
         NEW i \in AlertIds, store[i].state = "SUPPRESSED"
  PROVE  store'[i] = store[i]
<1>1. SweepPass(Due, {})
  BY DEF SweepOnce
<1>2. ASSUME NEW k \in Due
      PROVE  cache[k].id # i
  <2>1. k \in Keys /\ Cached(k) # NoAlert /\ Cached(k).state \in Open
    BY DEF Due
  <2>2. cache[k] # NoAlert /\ cache[k].state \in Open
    BY <2>1, CachedType
  <2>3. store[cache[k].id] = cache[k]
    BY <2>1, <2>2 DEF CacheStoreAgree
  <2>. QED  BY <2>2, <2>3 DEF Open
<1>. QED  BY <1>1, <1>2 DEF SweepPass

LEMMA VerdictKeepsMuted ==
  ASSUME TypeOK, CacheStoreAgree, ~SinkMayFail,
         NEW k \in Keys, NEW v \in Verdicts, SetVerdict(k, v),
         NEW i \in AlertIds, store[i].state = "SUPPRESSED"
  PROVE  store'[i].state = "SUPPRESSED"
<1>1. /\ store' = [store EXCEPT ![Judged(Cached(k), v).id] = Judged(Cached(k), v)]
      /\ Cached(k) # NoAlert
  BY DEF SetVerdict, SinkOutcomes, Save
<1>2. Cached(k) \in Alert /\ Cached(k) = cache[k]
  BY <1>1, CachedType
<1>3. Judged(Cached(k), v).id = Cached(k).id /\ Judged(Cached(k), v).state = Cached(k).state
  BY <1>2 DEF Judged, Alert
<1>4. store[Cached(k).id] = Cached(k)
  BY <1>1, <1>2 DEF CacheStoreAgree
<1>. QED  BY <1>1, <1>3, <1>4 DEF TypeOK

LEMMA SuppressKeepsMuted ==
  ASSUME TypeOK, ~SinkMayFail, NEW k \in Keys, EngineCall("suppress", k),
         NEW i \in AlertIds, store[i].state = "SUPPRESSED"
  PROVE  store'[i].state = "SUPPRESSED"
<1>1. CASE Suppress(k)
  <2>1. store' = [store EXCEPT ![Suppressed(Cached(k)).id] = Suppressed(Cached(k))]
    BY <1>1 DEF Suppress, SinkOutcomes, Save
  <2>2. Suppressed(Cached(k)).state = "SUPPRESSED"
    BY <1>1, CachedType DEF Suppress, Suppressed, Alert
  <2>. QED  BY <2>1, <2>2 DEF TypeOK
<1>. QED  BY <1>1 DEF EngineCall, Evict, vars

(* A suppressed row stays suppressed through detections, sweeps, crashes,  *)
(* expired cache entries and other requests, until a manager resolves it   *)
(* or lifts the suppression: for a table that takes every write.           *)
THEOREM SuppressionLasts ==
  ASSUME ~SinkMayFail
  PROVE  ApiSpec => SuppressionSticks
<1>1. ASSUME TypeOK, CacheStoreAgree, RowsHaveIds, [ApiNext]_apiVars,
             NEW i \in AlertIds, store[i] # NoAlert, store[i].state = "SUPPRESSED",
             store'[i].state # "SUPPRESSED"
      PROVE  reply' # NoReply /\ reply'.op # "suppress"
  <2>1. PICK id \in AlertIds, op \in Ops : Mutate(id, op)
    <3>1. ~ \E k \in Keys, s \in Severities : Process(k, s)
      BY <1>1, DetectionKeepsMuted
    <3>2. ~ SweepOnce /\ ~ \E k \in Keys, v \in Verdicts : SetVerdict(k, v)
      BY <1>1, SweepKeepsMuted, VerdictKeepsMuted
    <3>3. ~ (Tick \/ Crash \/ Restart \/ UNCHANGED apiVars)
      BY <1>1 DEF Tick, Crash, Restart, apiVars, vars
    <3>. QED  BY <1>1, <3>1, <3>2, <3>3 DEF ApiNext, Engine
  <2>2. reply' = [op |-> op, id |-> id] /\ reply' # NoReply
    BY <2>1, ReplyAssumption DEF Mutate
  <2>3. store[id].key \in Keys /\ EngineCall(op, store[id].key)
    BY <1>1, <2>1 DEF Mutate, TypeOK, Alert
  <2>4. op # "suppress"
    BY <1>1, <2>3, SuppressKeepsMuted
  <2>. QED  BY <2>2, <2>4
<1>2. ApiSpec => [](TypeOK /\ CacheStoreAgree /\ RowsHaveIds)
  <2>1. HistoryInv => RowsHaveIds
    BY DEF HistoryInv, RowsHaveIds
  <2>. QED  BY <2>1, RoutesRefineEngine, TypeCorrect, WriteThrough, HistoryInvariant, PTL
<1>3. TypeOK /\ CacheStoreAgree /\ RowsHaveIds /\ [ApiNext]_apiVars =>
        [\A i \in AlertIds :
           /\ store[i] # NoAlert /\ store[i].state = "SUPPRESSED"
           /\ store'[i].state # "SUPPRESSED"
           => reply' # NoReply /\ reply'.op # "suppress"]_apiVars
  BY <1>1
<1>. QED  BY <1>2, <1>3, PTL DEF ApiSpec, SuppressionSticks

-----------------------------------------------------------------------------
(* Requests and rows.                                                      *)

\* What a request does to the table: it edits the row of the alert its key tracks,
\* as asked, or nothing.
LEMMA EngineCallEdits ==
  ASSUME TypeOK, CacheStoreAgree, ~SinkMayFail,
         NEW k \in Keys, NEW op \in Ops, EngineCall(op, k),
         NEW a, a = Cached(k)
  PROVE  /\ \A i \in AlertIds : store'[i] # store[i] => a # NoAlert /\ a.id = i
         /\ a # NoAlert => Obeyed(op, store'[a.id].state)
<1>1. a # NoAlert => a = cache[k] /\ a \in Alert /\ a.id \in AlertIds /\ store[a.id] = a
  BY CachedType, AlertNumbers DEF CacheStoreAgree
<1>2. ASSUME NEW b, a # NoAlert, b.id = a.id, store' = [store EXCEPT ![b.id] = b],
             Obeyed(op, b.state)
      PROVE  /\ \A i \in AlertIds : store'[i] # store[i] => a # NoAlert /\ a.id = i
             /\ a # NoAlert => Obeyed(op, store'[a.id].state)
  BY <1>1, <1>2 DEF TypeOK
<1>3. a # NoAlert =>
        /\ Resolved(a).id = a.id /\ Resolved(a).state = "RESOLVED"
        /\ Suppressed(a).id = a.id /\ Suppressed(a).state = "SUPPRESSED"
        /\ Unsuppressed(a).id = a.id /\ Unsuppressed(a).state = "ACTIVE"
  BY <1>1 DEF Resolved, Suppressed, Unsuppressed, Alert
<1>4. CASE op = "resolve" /\ Resolve(k)
  <2>1. a # NoAlert /\ store' = [store EXCEPT ![Resolved(a).id] = Resolved(a)]
    BY <1>4 DEF Resolve, Save, SinkOutcomes
  <2>. QED  BY <1>2, <1>3, <1>4, <2>1 DEF Obeyed
<1>5. CASE op = "suppress" /\ Suppress(k)
  <2>1. a # NoAlert /\ store' = [store EXCEPT ![Suppressed(a).id] = Suppressed(a)]
    BY <1>5 DEF Suppress, Save, SinkOutcomes
  <2>. QED  BY <1>2, <1>3, <1>5, <2>1 DEF Obeyed
<1>6. CASE op = "unsuppress" /\ Unsuppress(k)
  <2>1. a # NoAlert /\ store' = [store EXCEPT ![Unsuppressed(a).id] = Unsuppressed(a)]
    BY <1>6 DEF Unsuppress, Save, SinkOutcomes
  <2>. QED  BY <1>2, <1>3, <1>6, <2>1 DEF Obeyed
<1>7. CASE store' = store /\ a = NoAlert
  BY <1>7
<1>8. CASE store' = store /\ a # NoAlert /\ Obeyed(op, a.state)
  BY <1>1, <1>8
<1>9. Evict(k) => store' = store /\ a = NoAlert
  BY DEF Evict
<1>10. cache[k] = NoAlert => a = NoAlert
  BY DEF Cached
<1>. QED
  BY <1>4, <1>5, <1>6, <1>7, <1>8, <1>9, <1>10 DEF EngineCall, Obeyed, vars

(* A request does to the row it names what it answers, where the row's     *)
(* alert is still the tracked one, and changes no other row but that of    *)
(* the alert tracked since, through any crashes, restarts and expired      *)
(* entries: for a table that takes every write.                            *)
THEOREM RequestsAreKept ==
  ASSUME ~SinkMayFail
  PROVE  ApiSpec => RequestsKeepTheirWord
<1>1. ApiSpec => [](TypeOK /\ CacheStoreAgree)
  BY RoutesRefineEngine, TypeCorrect, WriteThrough, PTL
<1>. DEFINE ReplyOK == reply \in [op : Ops, id : AlertIds] \cup {NoReply}
            Reaches ==
              reply' # NoReply =>
                LET a == Cached(store[reply'.id].key) IN
                /\ \A i \in AlertIds : store'[i] # store[i] => a # NoAlert /\ a.id = i
                /\ a # NoAlert /\ a.id = reply'.id => Obeyed(reply'.op, store'[reply'.id].state)
<1>2. ApiInit => ReplyOK
  BY DEF ApiInit
<1>3. ASSUME TypeOK, CacheStoreAgree, ReplyOK, [ApiNext]_apiVars
      PROVE  ReplyOK' /\ [Reaches]_apiVars
  <2>1. CASE reply' = NoReply
    BY <2>1
  <2>2. CASE UNCHANGED apiVars
    BY <1>3, <2>2 DEF apiVars
  <2>3. ASSUME NEW id \in AlertIds, NEW op \in Ops, Mutate(id, op)
        PROVE  ReplyOK' /\ Reaches
    <3>1. PICK a : a = Cached(store[id].key)
      OBVIOUS
    <3>2. store[id].key \in Keys /\ EngineCall(op, store[id].key)
      BY <1>3, <2>3 DEF Mutate, TypeOK, Alert
    <3>3. /\ \A i \in AlertIds : store'[i] # store[i] => a # NoAlert /\ a.id = i
          /\ a # NoAlert => Obeyed(op, store'[a.id].state)
      BY <1>3, <3>1, <3>2, EngineCallEdits
    <3>4. reply' = [op |-> op, id |-> id]
      BY <2>3 DEF Mutate
    <3>5. reply'.id = id /\ reply'.op = op
      BY <3>4
    <3>6. Reaches
      BY <3>1, <3>3, <3>5
    <3>. QED  BY <3>4, <3>6
  <2>. HIDE DEF Reaches, ReplyOK
  <2>. QED  BY <1>3, <2>1, <2>2, <2>3 DEF ApiNext
<1>4. TypeOK /\ ReplyOK => ApiTypeOK
  BY DEF ApiTypeOK
<1>5. TypeOK /\ CacheStoreAgree /\ ReplyOK /\ [ApiNext]_apiVars => ReplyOK' /\ [Reaches]_apiVars
  BY <1>3
<1>6. ApiSpec => []ReplyOK /\ [][Reaches]_apiVars
  <2>. HIDE DEF ReplyOK, Reaches
  <2>. QED  BY <1>1, <1>2, <1>5, PTL DEF ApiSpec
<1>7. [][Reaches]_apiVars => RequestsReachTheTracked
  BY PTL DEF RequestsReachTheTracked
<1>. HIDE DEF ReplyOK, Reaches
<1>. QED  BY <1>1, <1>4, <1>6, <1>7, PTL DEF RequestsKeepTheirWord
=============================================================================
