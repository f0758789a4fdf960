------------------------------ MODULE AlertsApi ------------------------------
(***************************************************************************)
(* The operator routes of the backend (backend/app.py, /alerts/{alert_id}/ *)
(* resolve, acknowledge, suppress, unsuppress) over the trigger engine.    *)
(* A route names a row of the alerts table; _mutate looks up the row's     *)
(* dedup key and lets the engine act on whatever alert is tracked under    *)
(* that key now.                                                           *)
(***************************************************************************)
EXTENDS TriggerEngine

CONSTANT NoReply

VARIABLE reply   \* the route just answered with 200: [op, id]

apiVars == <<vars, reply>>

Ops == {"resolve", "suppress", "unsuppress"}

ASSUME ReplyAssumption == NoReply \notin [op : Ops, id : AlertIds]

ApiTypeOK ==
  /\ TypeOK
  /\ reply \in [op : Ops, id : AlertIds] \cup {NoReply}

ApiInit == Init /\ reply = NoReply

\* Mutant of EngineCall: resolving leaves a suppressed alert alone.
EngineCallSparingMuted(op, k) ==
  \/ op = "resolve" /\ Resolve(k) /\ Cached(k).state # "SUPPRESSED"
  \/ op = "suppress" /\ Suppress(k)
  \/ op = "unsuppress" /\ Unsuppress(k)
  \/ /\ op = "resolve" /\ Cached(k) # NoAlert /\ Cached(k).state = "SUPPRESSED"
     /\ UNCHANGED vars

\* The engine call of each route; get() on an expired entry deletes it, and
\* every case in which the engine returns early leaves the state alone.
EngineCall(op, k) ==
  \/ op = "resolve" /\ Resolve(k)
  \/ op = "suppress" /\ Suppress(k)
  \/ op = "unsuppress" /\ Unsuppress(k)
  \/ Evict(k)
  \/ /\ \/ cache[k] = NoAlert
        \/ Cached(k) # NoAlert /\ op = "resolve" /\ Cached(k).state = "RESOLVED"
        \/ Cached(k) # NoAlert /\ op = "unsuppress" /\ Cached(k).state # "SUPPRESSED"
     /\ UNCHANGED vars

\* Mutant of Mutate: what the engine does not track is written to the table anyway.
MutateRowAnyway(id, op) ==
  /\ up
  /\ store[id] # NoAlert
  /\ \/ EngineCall(op, store[id].key)
     \/ /\ op = "resolve" /\ Cached(store[id].key) = NoAlert
        /\ store' = [store EXCEPT ![id] = Resolved(store[id])]
        /\ UNCHANGED <<now, up, crashes, cache, expires, nextId, nextSweep, told,
                       detected, woken>>
  /\ reply' = [op |-> op, id |-> id]

\* _mutate: 404 for an unknown row, otherwise act and answer with the row.
Mutate(id, op) ==
  /\ up
  /\ store[id] # NoAlert
  /\ EngineCall(op, store[id].key)
  /\ reply' = [op |-> op, id |-> id]

\* Everything that is not an operator's request.
Engine ==
  \/ \E k \in Keys, s \in Severities : Process(k, s)
  \/ \E k \in Keys, v \in Verdicts : SetVerdict(k, v)
  \/ SweepOnce \/ Tick \/ Crash \/ Restart

ApiNext ==
  \/ Engine /\ reply' = NoReply
  \/ \E id \in AlertIds, op \in Ops : Mutate(id, op)

ApiSpec == ApiInit /\ [][ApiNext]_apiVars

-----------------------------------------------------------------------------
\* What a request asks for, as a state of the row it names.
Obeyed(op, state) ==
  CASE op = "resolve"    -> state = "RESOLVED"
    [] op = "suppress"   -> state = "SUPPRESSED"
    [] op = "unsuppress" -> state # "SUPPRESSED"

\* A request answered with 200 reaches at most one row, that of the alert its dedup
\* key tracks by then: if that is the row it names, the row ends up as asked; if the
\* process died or the entry expired since, the named row stays as it is.
RequestsReachTheTracked ==
  [][reply' # NoReply =>
       LET a == Cached(store[reply'.id].key) IN
       /\ \A i \in AlertIds : store'[i] # store[i] => a # NoAlert /\ a.id = i
       /\ a # NoAlert /\ a.id = reply'.id => Obeyed(reply'.op, store'[reply'.id].state)]_apiVars

(* Through restarts, expired entries and second lives of a dedup key, a    *)
(* request changes no alert but the one tracked for the issue it names,    *)
(* and that one as asked if it is the row it names (_mutate).              *)
RequestsKeepTheirWord == []ApiTypeOK /\ RequestsReachTheTracked

\* An operator's decision on a row outlives everything the engine does on its own
\* except a new event: a suppressed row stays suppressed through sweeps, time and
\* duplicate events until a manager lifts or resolves it.
SuppressionSticks ==
  [][\A i \in AlertIds :
       /\ store[i] # NoAlert /\ store[i].state = "SUPPRESSED"
       /\ store'[i].state # "SUPPRESSED"
       => reply' # NoReply /\ reply'.op # "suppress"]_apiVars

-----------------------------------------------------------------------------
(* A claim of the code's documentation that the code does not keep.        *)

\* acknowledge_alert: "acknowledging resolves the alert rather than adding a parallel
\* flag that could disagree with state".  A row whose resolve or acknowledge was just
\* answered with 200 is RESOLVED.
AcknowledgeResolves ==
  reply # NoReply /\ reply.op = "resolve" => store[reply.id].state = "RESOLVED"
=============================================================================
