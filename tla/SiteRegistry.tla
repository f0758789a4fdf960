----------------------------- MODULE SiteRegistry -----------------------------
(***************************************************************************)
(* What managers configure, kept in a table and in memory: zones           *)
(* (zones/service.py) and rules (rules/engine.py behind the /rules         *)
(* routes).  Both write the table first and memory after it, and remove    *)
(* from memory first; a zone is also re-cached by every read.  On SQLite   *)
(* an operation is one step of the event loop, on PostgreSQL it gives the  *)
(* loop away whenever it waits for the table.                              *)
(***************************************************************************)
EXTENDS Tables

CONSTANTS
  RegTasks,     \* requests in flight
  RegKeys,      \* zone ids, or rule ids
  RegValues,    \* what they are configured as
  RegDefaults   \* the entries an empty table is seeded with

ASSUME RegAssumption ==
  /\ \A v \in RegValues : IsRecord(v)
  /\ \A k \in DOMAIN RegDefaults : IsRecord(RegDefaults[k])

VARIABLES
  regKind,      \* "zones" or "rules"
  regBackend,   \* "sqlite" or "postgres"
  regTable,
  regLive,      \* ZoneService._cache, RuleEngine._rules
  regTask,
  regUsed       \* ids drawn: a new rule gets a fresh one

regVars == <<regKind, regBackend, regTable, regLive, regTask, regUsed>>

RegIdle == [pc |-> "idle"]

RegInit ==
  /\ regKind \in {"zones", "rules"} /\ regBackend \in {"sqlite", "postgres"}
  /\ regTable = RegDefaults /\ regLive = RegDefaults
  /\ regTask = [t \in RegTasks |-> RegIdle]
  /\ regUsed = DOMAIN RegDefaults

RegMayRun(t) == regBackend = "sqlite" => \A u \in RegTasks \ {t} : regTask[u].pc = "idle"

\* what the request is refused for: an id that exists (400), one that does not (404)
RegAccepts(op, key) ==
  CASE op = "create" -> IF regKind = "zones" THEN key \notin DOMAIN regTable ELSE key \notin regUsed
    [] op = "update" -> key \in DOMAIN (IF regKind = "zones" THEN regTable ELSE regLive)
    [] op = "delete" -> regKind = "zones" \/ key \in DOMAIN regLive
    [] op = "get"    -> regKind = "zones"

\* a request starts; deleting takes the entry out of memory at once
RegStart(t, op, key, value) ==
  /\ RegMayRun(t) /\ regTask[t].pc = "idle" /\ RegAccepts(op, key)
  /\ regLive' = IF op = "delete" THEN Delete(regLive, key) ELSE regLive
  /\ regTask' = [u \in RegTasks |->
       IF u = t THEN [pc |-> "table", op |-> op, key |-> key, value |-> value,
                      alone |-> \A v \in RegTasks \ {t} : regTask[v].pc = "idle"]
       ELSE IF regTask[u].pc = "idle" THEN RegIdle ELSE [regTask[u] EXCEPT !.alone = FALSE]]
  /\ regUsed' = IF op = "create" THEN regUsed \cup {key} ELSE regUsed
  /\ UNCHANGED <<regKind, regBackend, regTable>>

(* The table's turn: put, patch, delete or read. *)
RegStore(t) ==
  LET task == regTask[t]
  IN /\ RegMayRun(t) /\ task.pc = "table"
     /\ regTable' = CASE task.op = "create" -> Put(regTable, task.key, task.value, {})
                      [] task.op = "update" /\ regKind = "rules" -> Put(regTable, task.key, task.value, {})
                      [] task.op = "update" /\ regKind = "zones" -> Patch(regTable, task.key, task.value)
                      [] task.op = "delete" -> Delete(regTable, task.key)
                      [] task.op = "get"    -> regTable
     /\ regTask' = [regTask EXCEPT ![t] =
          IF task.op = "delete" \/ task.key \notin DOMAIN regTable' THEN RegIdle
          ELSE [task EXCEPT !.pc = "memory", !.value = regTable'[task.key]]]
     /\ UNCHANGED <<regKind, regBackend, regLive, regUsed>>

\* Mutant of RegRemembered: a zone's change waits for the next read.
RegRememberedNew(task) == IF task.key \in DOMAIN regLive THEN regLive ELSE Put(regLive, task.key, task.value, {})

RegRemembered(task) == Put(regLive, task.key, task.value, {})

(* Back from the table: memory gets what was stored or read. *)
RegRemember(t) ==
  /\ RegMayRun(t) /\ regTask[t].pc = "memory"
  /\ regLive' = RegRemembered(regTask[t])
  /\ regTask' = [regTask EXCEPT ![t] = RegIdle]
  /\ UNCHANGED <<regKind, regBackend, regTable, regUsed>>

(* A new process seeds an empty table and loads memory from it. *)
RegRestart ==
  /\ regTable' = IF regTable = <<>> THEN RegDefaults ELSE regTable
  /\ regLive' = regTable'
  /\ regTask' = [t \in RegTasks |-> RegIdle]
  /\ UNCHANGED <<regKind, regBackend, regUsed>>

RegNext ==
  \/ \E t \in RegTasks, k \in RegKeys, v \in RegValues :
       RegStart(t, "create", k, v) \/ RegStart(t, "update", k, v)
  \/ \E t \in RegTasks, k \in RegKeys, op \in {"delete", "get"} : RegStart(t, op, k, None)
  \/ \E t \in RegTasks : RegStore(t) \/ RegRemember(t)
  \/ RegRestart

RegSpec == RegInit /\ [][RegNext]_regVars

-----------------------------------------------------------------------------
(* What the rule engine and the danger-zone look-up work with is what the  *)
(* table says: always on SQLite once no request is in the middle, and on   *)
(* either backend after a write that ran alone, for the entry it named.    *)
(* On PostgreSQL a read or an update overlapping a delete leaves a deleted *)
(* zone or rule at work until the next restart.                            *)
RegAgree(key) ==
  /\ key \in DOMAIN regLive <=> key \in DOMAIN regTable
  /\ key \in DOMAIN regLive => regLive[key] = regTable[key]

RegLiveIsStored ==
  (regBackend = "sqlite" /\ \A t \in RegTasks : regTask[t].pc = "idle") => \A k \in RegKeys : RegAgree(k)

RegFollowsTable ==
  [][/\ RegLiveIsStored'
     /\ \A t \in RegTasks, k \in RegKeys :
          (/\ regTask[t].pc # "idle" /\ regTask[t].key = k /\ regTask[t].alone
           /\ regTask[t].op # "get" /\ regTask'[t].pc = "idle")
            => RegAgree(k)']_regVars
=============================================================================
