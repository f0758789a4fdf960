------------------------------- MODULE Occupancy ------------------------------
(***************************************************************************)
(* workforce/occupancy.py behind POST /zones/{id}/enter and /leave: who is *)
(* checked in where.  enter and leave read the worker's open rows, close   *)
(* them one patch at a time and, for enter, put a new row.  Nothing locks  *)
(* the rows: on SQLite a call never gives up the event loop, on PostgreSQL *)
(* every store call does, and two calls of one worker interleave.          *)
(***************************************************************************)
EXTENDS Tables

CONSTANTS
  OccTasks,     \* requests in flight
  OccWorkers,
  OccZoneIds,
  OccRows,      \* 1..n, the occupancy ids in the order they are drawn
  OccMaxTime    \* bound on the clock

ASSUME OccAssumption == None \notin Nat

VARIABLES
  occBackend,   \* "sqlite" or "postgres"
  occRows,      \* the zone_occupancy table
  occTask,      \* [OccTasks -> what each request is in the middle of]
  occNow        \* the wall clock, which may be set back

occVars == <<occBackend, occRows, occTask, occNow>>

OccIdle == [pc |-> "idle"]

OccInit ==
  /\ occBackend \in {"sqlite", "postgres"}
  /\ occRows = <<>>
  /\ occTask = [t \in OccTasks |-> OccIdle]
  /\ occNow = 1

OccMayRun(t) ==
  occBackend = "sqlite" => \A u \in OccTasks \ {t} : occTask[u].pc = "idle"

OccOpen(worker) ==
  {k \in DOMAIN occRows : occRows[k].worker = worker /\ occRows[k].left_at = None}

\* the first of a set of rows by arrival, either end; ties keep the table's order
OccOldest(S) == CHOOSE k \in S : \A j \in S : occRows[k].entered_at <= occRows[j].entered_at
OccLatest(S) == CHOOSE k \in S : \A j \in S : occRows[k].entered_at >= occRows[j].entered_at

\* a request starts: it is alone as long as no other one is in the middle
OccBegin(t, request) ==
  occTask' = [u \in OccTasks |->
    IF u = t THEN Changed(request, [alone |-> \A v \in OccTasks \ {t} : occTask[v].pc = "idle"])
    ELSE IF occTask[u].pc = "idle" THEN OccIdle ELSE [occTask[u] EXCEPT !.alone = FALSE]]

\* Mutants of OccToClose: rows elsewhere are forgotten; the newest stay is kept.
OccDuplicatesOnly(open, here) == IF here = {} THEN {} ELSE here \ {OccOldest(here)}
OccKeepLatest(open, here) == open \ (IF here = {} THEN {} ELSE {OccLatest(here)})

(* What enter closes: every row open elsewhere, and every duplicate of the *)
(* oldest row open here.                                                   *)
OccToClose(open, here) == open \ (IF here = {} THEN {} ELSE {OccOldest(here)})

OccEnter(t, worker, zone) ==
  LET open == OccOpen(worker)
      here == {k \in open : occRows[k].zone = zone}
  IN /\ OccMayRun(t) /\ occTask[t].pc = "idle"
     /\ OccBegin(t, [pc |-> "enter", worker |-> worker, zone |-> zone, now |-> occNow,
                     stay |-> here # {}, before |-> here,
                     close |-> OccToClose(open, here)])
     /\ UNCHANGED <<occBackend, occRows, occNow>>

(* leave: refused (409) unless the newest open row is in the zone named. *)
OccLeave(t, worker, zone) ==
  LET open == OccOpen(worker)
  IN /\ OccMayRun(t) /\ occTask[t].pc = "idle" /\ open # {}
     /\ occRows[OccLatest(open)].zone = zone
     /\ OccBegin(t, [pc |-> "leave", worker |-> worker, zone |-> zone, now |-> occNow, close |-> open])
     /\ UNCHANGED <<occBackend, occRows, occNow>>

\* Mutant of OccClosed: the clock is taken at its word.
OccClosedNow(row, now) == [left_at |-> now]

(* _close: never a negative stay. *)
OccClosed(row, now) ==
  [left_at |-> IF now >= row.entered_at THEN now ELSE row.entered_at]

OccCloseOne(t, k) ==
  /\ OccMayRun(t) /\ occTask[t].pc # "idle" /\ k \in occTask[t].close
  /\ occRows' = Patch(occRows, k, OccClosed(occRows[k], occTask[t].now))
  /\ occTask' = [occTask EXCEPT ![t].close = @ \ {k}]
  /\ UNCHANGED <<occBackend, occNow>>

OccFinishEnter(t) ==
  /\ OccMayRun(t) /\ occTask[t].pc = "enter" /\ occTask[t].close = {}
  /\ IF occTask[t].stay THEN UNCHANGED occRows
     ELSE LET k == Cardinality(DOMAIN occRows) + 1
          IN /\ k \in OccRows
             /\ occRows' = Put(occRows, k, [worker |-> occTask[t].worker, zone |-> occTask[t].zone,
                  entered_at |-> occTask[t].now, left_at |-> None], {"created_at"})
  /\ occTask' = [occTask EXCEPT ![t] = OccIdle]
  /\ UNCHANGED <<occBackend, occNow>>

OccFinishLeave(t) ==
  /\ OccMayRun(t) /\ occTask[t].pc = "leave" /\ occTask[t].close = {}
  /\ occTask' = [occTask EXCEPT ![t] = OccIdle]
  /\ UNCHANGED <<occBackend, occRows, occNow>>

OccClock(now) ==
  /\ occNow' = now
  /\ UNCHANGED <<occBackend, occRows, occTask>>

\* A restart of the backend drops the requests and leaves the rows as they are.
OccRestart ==
  /\ \E t \in OccTasks : occTask[t].pc # "idle"
  /\ occTask' = [t \in OccTasks |-> OccIdle]
  /\ UNCHANGED <<occBackend, occRows, occNow>>

OccNext ==
  \/ \E t \in OccTasks, w \in OccWorkers, z \in OccZoneIds : OccEnter(t, w, z) \/ OccLeave(t, w, z)
  \/ \E t \in OccTasks, k \in DOMAIN occRows : OccCloseOne(t, k)
  \/ \E t \in OccTasks : OccFinishEnter(t) \/ OccFinishLeave(t)
  \/ \E now \in 1..OccMaxTime : OccClock(now)
  \/ OccRestart

OccSpec == OccInit /\ [][OccNext]_occVars

-----------------------------------------------------------------------------
(* occupancy_report: for every zone, who is in it.  The risk     *)
(* score weighs this with the zone's alerts.                               *)
OccReport ==
  [z \in OccZoneIds |-> {w \in OccWorkers : \E k \in OccOpen(w) : occRows[k].zone = z}]

(* A call that ran alone leaves the worker where it says, whatever earlier *)
(* races and crashes left behind: one open row after enter, the oldest of  *)
(* those already open in that zone if there was one; none after leave.     *)
OccAloneMeansOne ==
  [][\A t \in OccTasks :
       LET task == occTask[t]
           open == {k \in DOMAIN occRows' : occRows'[k].worker = task.worker /\ occRows'[k].left_at = None}
       IN (OccFinishEnter(t) \/ OccFinishLeave(t)) /\ task.alone =>
            IF task.pc = "leave" THEN open = {}
            ELSE /\ Cardinality(open) = 1
                 /\ \A k \in open : /\ occRows'[k].zone = task.zone
                                    /\ \A j \in task.before :
                                         occRows'[k].entered_at <= occRows'[j].entered_at]_occVars

(* "one worker, one zone": on SQLite, once no call is in the middle, the   *)
(* report counts a worker in one zone at most.  PostgreSQL interleavings   *)
(* of two calls do count one twice, until the worker's next lone call.     *)
OccCountedOnce ==
  (occBackend = "sqlite" /\ \A t \in OccTasks : occTask[t].pc = "idle") =>
    \A y, z \in OccZoneIds : y # z => OccReport[y] \cap OccReport[z] = {}

(* No stay is negative, however the clock is set between arrival and the  *)
(* close, and whichever call closes it.                                   *)
OccNoNegativeStay ==
  \A k \in DOMAIN occRows : occRows[k].left_at # None => occRows[k].left_at >= occRows[k].entered_at

(* A worker is in one place at a time, and was there for a while, not for  *)
(* a negative one.                                                         *)
OccOnePlaceAtATime ==
  /\ [](OccCountedOnce /\ OccNoNegativeStay)
  /\ OccAloneMeansOne
=============================================================================
