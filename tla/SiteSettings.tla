----------------------------- MODULE SiteSettings -----------------------------
(***************************************************************************)
(* From the dashboard's PPE switches to the detectors: SettingsService     *)
(* (backend/settings.py) keeps them in a table and a cache and publishes   *)
(* control.settings; the edge server (display/server.py) applies what it   *)
(* hears to its camera pipeline.  The pipeline for workers' phones is      *)
(* built on demand from the edge's own configuration.                      *)
(*                                                                         *)
(* Backend and edge are two processes, so the bus is the one on Redis      *)
(* (events/bus.py); what is published on an in-memory bus stays in the     *)
(* backend.  Not modelled: other control messages, which the edge          *)
(* remembers with the same bound.                                          *)
(***************************************************************************)
EXTENDS Tables

CONSTANTS
  SetTasks,       \* requests in flight
  SetItems,       \* the PPE items with a switch
  SetWindow,      \* how many messages the edge remembers (512)
  SetMaxQueue,    \* bound on the messages between backend and edge
  SetMaxChanges   \* bound on the changes

\* What is switched is never taken for SQL NULL.
ASSUME SetAssumption ==
  /\ None \notin [SetItems -> BOOLEAN]
  /\ {SetWindow, SetMaxQueue, SetMaxChanges} \subseteq Nat

VARIABLES
  setBackend,   \* "sqlite" or "postgres"
  setTable,     \* the persisted value, None until an operator sets one
  setCache,
  setTask,
  setQueue,     \* control.settings on its way
  setRecent,    \* RedisEventBus._listen_loop, recent: the last messages heard
  setCamera,    \* what the camera pipeline's detector tracks
  setPhones,    \* what the phones' pipeline tracks, None until it is built
  setChanges,   \* history: the number of changes asked for
  setMissed     \* history: something went wrong with the newest one

setVars == <<setBackend, setTable, setCache, setTask, setQueue, setRecent, setCamera, setPhones,
             setChanges, setMissed>>

SetIdle == [pc |-> "idle"]
SetConfigured == [i \in SetItems |-> TRUE]   \* config.yaml, on both sides

SetInit ==
  /\ setBackend \in {"sqlite", "postgres"}
  /\ setTable = None /\ setCache = SetConfigured
  /\ setTask = [t \in SetTasks |-> SetIdle]
  /\ setQueue = <<>> /\ setRecent = <<>> /\ setCamera = SetConfigured /\ setPhones = None
  /\ setChanges = 0 /\ setMissed = FALSE

SetBusy(t) == setTask[t].pc # "idle"
SetWrites(t) == setTask[t].pc \in {"table", "cache"}

\* On SQLite a request suspends for the bus only.
SetMayRun(t) == setBackend = "sqlite" => \A u \in SetTasks \ {t} : ~ SetWrites(u)

(* set_tracked_item: the whole dictionary is read from the cache, changed  *)
(* in one place and handed to set.                                         *)
SetSwitch(t, item, on) ==
  /\ SetMayRun(t) /\ ~ SetBusy(t) /\ setChanges < SetMaxChanges
  /\ setTask' = [setTask EXCEPT ![t] = [pc |-> "table", change |-> setChanges + 1,
                                        value |-> [setCache EXCEPT ![item] = on]]]
  /\ setChanges' = setChanges + 1
  /\ setMissed' = \E u \in SetTasks : SetBusy(u)
  /\ UNCHANGED <<setBackend, setTable, setCache, setQueue, setRecent, setCamera, setPhones>>

SetStored(t) ==
  /\ SetMayRun(t) /\ setTask[t].pc = "table"
  /\ setTable' = setTask[t].value
  /\ setTask' = [setTask EXCEPT ![t].pc = "cache"]
  /\ UNCHANGED <<setBackend, setCache, setQueue, setRecent, setCamera, setPhones, setChanges,
                 setMissed>>

SetCached(t) ==
  /\ SetMayRun(t) /\ setTask[t].pc = "cache"
  /\ setCache' = setTask[t].value
  /\ setTask' = [setTask EXCEPT ![t].pc = "publish"]
  /\ UNCHANGED <<setBackend, setTable, setQueue, setRecent, setCamera, setPhones, setChanges,
                 setMissed>>

SetPublished(t) ==
  /\ SetMayRun(t) /\ setTask[t].pc = "publish" /\ Len(setQueue) < SetMaxQueue
  /\ setQueue' = Append(setQueue, [value |-> setTask[t].value, change |-> setTask[t].change])
  /\ setTask' = [setTask EXCEPT ![t] = SetIdle]
  /\ UNCHANGED <<setBackend, setTable, setCache, setRecent, setCamera, setPhones, setChanges,
                 setMissed>>

\* The bus is not there: the request fails, what it stored stays.
SetPublishFails(t) ==
  /\ SetMayRun(t) /\ setTask[t].pc = "publish"
  /\ setTask' = [setTask EXCEPT ![t] = SetIdle]
  /\ setMissed' = (setMissed \/ setTask[t].change = setChanges)
  /\ UNCHANGED <<setBackend, setTable, setCache, setQueue, setRecent, setCamera, setPhones,
                 setChanges>>

\* Mutant of SetLoaded: an override is forgotten.
SetLoadedConfigured == SetConfigured

SetLoaded == IF setTable = None THEN SetConfigured ELSE setTable

\* The backend again: persisted overrides win over the configuration.
SetRestart ==
  /\ setCache' = SetLoaded
  /\ setTask' = [t \in SetTasks |-> SetIdle]
  /\ setMissed' = (setMissed \/ setCache # SetLoaded \/ \E t \in SetTasks : SetBusy(t))
  /\ UNCHANGED <<setBackend, setTable, setQueue, setRecent, setCamera, setPhones, setChanges>>

\* Mutant of SetApplied: only what was switched off is applied.
SetAppliedOff(value) == [i \in SetItems |-> setCamera[i] /\ value[i]]

\* _on_control and _apply_settings: the camera pipeline takes the whole dictionary.
SetApplied(value) == value

SetRemember(q) == IF Len(q) > SetWindow THEN Tail(q) ELSE q

(* The listener takes the next message; one equal to a message it          *)
(* remembers is taken for a second delivery of that one and dropped.       *)
SetHear ==
  /\ setQueue # <<>>
  /\ LET value == Head(setQueue).value
         heard == \E i \in DOMAIN setRecent : setRecent[i] = value
     IN  /\ setCamera' = IF heard THEN setCamera ELSE SetApplied(value)
         /\ setRecent' = IF heard THEN setRecent ELSE SetRemember(Append(setRecent, value))
         /\ setMissed' = (setMissed \/ (heard /\ Head(setQueue).change = setChanges))
  /\ setQueue' = Tail(setQueue)
  /\ UNCHANGED <<setBackend, setTable, setCache, setTask, setPhones, setChanges>>

\* Redis keeps nothing for a listener that has lost its connection.
SetLost ==
  /\ setQueue # <<>>
  /\ setQueue' = Tail(setQueue)
  /\ setMissed' = (setMissed \/ Head(setQueue).change = setChanges)
  /\ UNCHANGED <<setBackend, setTable, setCache, setTask, setRecent, setCamera, setPhones, setChanges>>

\* browser_pipeline, at the first phone
SetPhoneConnects ==
  /\ setPhones = None
  /\ setPhones' = SetConfigured
  /\ UNCHANGED <<setBackend, setTable, setCache, setTask, setQueue, setRecent, setCamera, setChanges,
                 setMissed>>

\* The edge again: both pipelines from config.yaml; what was on its way is lost.
SetEdgeRestart ==
  /\ setCamera' = SetConfigured /\ setPhones' = None
  /\ setMissed' = (setMissed \/ setQueue # <<>> \/ setCache # SetConfigured)
  /\ setQueue' = <<>> /\ setRecent' = <<>>
  /\ UNCHANGED <<setBackend, setTable, setCache, setTask, setChanges>>

SetNext ==
  \/ \E t \in SetTasks, i \in SetItems, on \in BOOLEAN : SetSwitch(t, i, on)
  \/ \E t \in SetTasks : SetStored(t) \/ SetCached(t) \/ SetPublished(t) \/ SetPublishFails(t)
  \/ SetRestart \/ SetHear \/ SetLost \/ SetPhoneConnects \/ SetEdgeRestart

SetSpec == SetInit /\ [][SetNext]_setVars

-----------------------------------------------------------------------------
SetQuiet == setQueue = <<>> /\ \A t \in SetTasks : ~ SetBusy(t)

(* Each change carries the whole dictionary, so one that arrives makes up  *)
(* for all that were missed before it: the camera tracks what the          *)
(* dashboard shows unless the newest change overlapped with another one,   *)
(* failed, was lost, or was taken for one the edge remembers.              *)
SetCameraCatchesUp == (SetQuiet /\ ~ setMissed) => setCamera = setCache

(* What a manager last switched is what a restart brings back, on SQLite;  *)
(* two switches overlapping on PostgreSQL lose one of them.                *)
SetSurvives ==
  (setBackend = "sqlite" /\ SetQuiet) =>
    setCache = IF setTable = None THEN SetConfigured ELSE setTable

(* A manager's switch survives a restart, and once one reaches the camera  *)
(* nothing is left of those that did not.                                  *)
SetSwitchArrives ==
  SetCameraCatchesUp /\ SetSurvives
=============================================================================
