------------------------------ MODULE EdgeEvents ------------------------------
(***************************************************************************)
(* What the edge does with the hazards of one frame: core/pipeline.py      *)
(* (run) for the site camera and display/server.py (_publish_hazard) for   *)
(* the phones.  Each hazard is logged, then sent where the configuration   *)
(* says (evPath), and shown on the live page; one hazard at a time, and    *)
(* the other source gets its turn at every await.  An exception aborts     *)
(* the camera's pipeline, and the rest of a phone's frame.                 *)
(***************************************************************************)
EXTENDS Tables, Integers, Sequences

CONSTANTS
  EvCategories,   \* hazard categories
  EvCooldown,     \* alerts.cooldown_s of each category
  EvMaxEvents,    \* bound on the hazards of a behaviour
  EvMaxTime       \* bound on the clock

ASSUME EvAssumption == EvCooldown \in Nat

Sources == {"camera", "phones"}

VARIABLES
  evPath,     \* "outbox": to the bus, and to the outbox of the central API; "bus": to the bus
              \* alone (no storage.central_api); "local": to the dispatcher (no bus)
  evNow,      \* time.monotonic()
  evMade,     \* [id -> category] of the hazards detected so far
  evFrame,    \* [source -> hazards of its frame still to be handled, in order]
  evStage,    \* [source -> "log", "route", "queue" or "show": what the first of them is up to]
  evRunning,  \* is the camera's pipeline (and its dispatcher) still there
  evLogged, evQueued, evPublished,   \* event store, outbox, bus
  evLast,     \* the dispatchers' _last: [source -> [category -> time]]
  evPool,     \* [source -> alerts waiting for a renderer]
  evSpoken,   \* history: the alerts that were started
  evVerdicts, \* history of dispatch(): [id, source, cat, at, admitted]
  evBroken,   \* history: the hazards of the frames the disk has cut short
  evCut       \* history: the hazards of the frames a failing bus has cut short

evVars == <<evPath, evNow, evMade, evFrame, evStage, evRunning, evLogged, evQueued,
            evPublished, evLast, evPool, evSpoken, evVerdicts, evBroken, evCut>>
evStores == <<evLogged, evQueued, evPublished>>
evAlarms == <<evLast, evPool, evSpoken, evVerdicts>>
evLost == <<evBroken, evCut>>

EvInit ==
  /\ evPath \in {"outbox", "bus", "local"}
  /\ evNow = 0 /\ evMade = <<>> /\ evRunning = TRUE
  /\ evFrame = [s \in Sources |-> <<>>] /\ evStage = [s \in Sources |-> "log"]
  /\ evLogged = {} /\ evQueued = {} /\ evPublished = {}
  /\ evLast = [s \in Sources |-> <<>>]
  /\ evPool = [s \in Sources |-> <<>>] /\ evSpoken = {} /\ evVerdicts = {}
  /\ evBroken = {} /\ evCut = {}

-----------------------------------------------------------------------------
\* The detectors' answer for the next frame of a source
EvDetect(s, hazards) ==
  /\ evFrame[s] = <<>> /\ (s = "camera" => evRunning)
  /\ Len(evMade) + Len(hazards) <= EvMaxEvents
  /\ evMade' = evMade \o hazards
  /\ evFrame' = [evFrame EXCEPT ![s] = [i \in 1 .. Len(hazards) |-> Len(evMade) + i]]
  /\ UNCHANGED <<evPath, evNow, evStage, evRunning, evStores, evAlarms, evLost>>

EvHead(s, stage) == evFrame[s] # <<>> /\ evStage[s] = stage

EvStaged(s, stage) == evStage' = [evStage EXCEPT ![s] = stage]

\* EventStore.record_event
EvLog(s) ==
  /\ EvHead(s, "log") /\ EvStaged(s, "route")
  /\ evLogged' = evLogged \cup {Head(evFrame[s])}
  /\ UNCHANGED <<evPath, evNow, evMade, evFrame, evRunning, evQueued, evPublished,
                 evAlarms, evLost>>

\* An exception leaves the frame where it is; the camera's pipeline ends,
\* and its dispatcher drops what it has not started.
EvRaised(s) ==
  /\ evFrame' = [evFrame EXCEPT ![s] = <<>>] /\ EvStaged(s, "log")
  /\ evRunning' = (evRunning /\ s # "camera")
  /\ evPool' = IF s = "camera" THEN [evPool EXCEPT ![s] = <<>>] ELSE evPool

\* record_event, the outbox, or the log file cannot be written.
EvDiskFails(s) ==
  /\ evFrame[s] # <<>> /\ evStage[s] # "route"
  /\ EvRaised(s)
  /\ evBroken' = evBroken \cup {evFrame[s][i] : i \in DOMAIN evFrame[s]}
  /\ UNCHANGED <<evPath, evNow, evMade, evStores, evLast, evSpoken, evVerdicts, evCut>>

\* PipelineEventBridge.emit
EvPublish(s) ==
  /\ EvHead(s, "route") /\ evPath # "local"
  /\ EvStaged(s, IF evPath = "outbox" THEN "queue" ELSE "show")
  /\ evPublished' = evPublished \cup {Head(evFrame[s])}
  /\ UNCHANGED <<evPath, evNow, evMade, evFrame, evRunning, evLogged, evQueued,
                 evAlarms, evLost>>

\* Without the outbox's wrapper the exception of a bus that is down goes on.
EvBusRaises(s) ==
  /\ EvHead(s, "route") /\ evPath = "bus"
  /\ EvRaised(s)
  /\ evCut' = evCut \cup {evFrame[s][i] : i \in DOMAIN evFrame[s]}
  /\ UNCHANGED <<evPath, evNow, evMade, evStores, evLast, evSpoken, evVerdicts, evBroken>>

\* Mutant of EvBusFails: a bus that is down is an error like any other.
EvBusFailsHard(s) ==
  /\ EvHead(s, "route") /\ evPath = "outbox" /\ EvRaised(s)
  /\ evCut' = evCut \cup {evFrame[s][i] : i \in DOMAIN evFrame[s]}
  /\ UNCHANGED <<evPath, evNow, evMade, evStores, evLast, evSpoken, evVerdicts, evBroken>>

\* The same with the bus down: _ForwardingBridge goes on without it.
EvBusFails(s) ==
  /\ EvHead(s, "route") /\ evPath = "outbox" /\ EvStaged(s, "queue")
  /\ UNCHANGED <<evPath, evNow, evMade, evFrame, evRunning, evStores, evAlarms, evLost>>

\* _ForwardingBridge.emit: the durable copy
EvQueue(s) ==
  /\ EvHead(s, "queue") /\ EvStaged(s, "show")
  /\ evQueued' = evQueued \cup {Head(evFrame[s])}
  /\ UNCHANGED <<evPath, evNow, evMade, evFrame, evRunning, evLogged, evPublished,
                 evAlarms, evLost>>

EvQuietFor(s, cat) ==
  IF cat \in DOMAIN evLast[s] THEN evNow - evLast[s][cat] ELSE EvCooldown

\* Mutant of EvMarked: what is refused starts the cooldown again.
EvMarkedAnyhow(s, cat, admitted) ==
  evLast' = [evLast EXCEPT ![s] =
    [c \in DOMAIN @ \cup {cat} |-> IF c = cat THEN evNow ELSE @[c]]]

\* AlertDispatcher._cooldown_ok's memory
EvMarked(s, cat, admitted) ==
  evLast' = IF ~ admitted THEN evLast
            ELSE [evLast EXCEPT ![s] =
                    [c \in DOMAIN @ \cup {cat} |-> IF c = cat THEN evNow ELSE @[c]]]

\* AlertDispatcher.dispatch
EvDispatch(s) ==
  LET id == Head(evFrame[s])
      cat == evMade[id]
      admitted == EvQuietFor(s, cat) >= EvCooldown
  IN /\ EvHead(s, "route") /\ evPath = "local" /\ EvStaged(s, "show")
     /\ EvMarked(s, cat, admitted)
     /\ evPool' = IF admitted THEN [evPool EXCEPT ![s] = Append(@, id)] ELSE evPool
     /\ evVerdicts' = evVerdicts \cup 
          {[id |-> id, source |-> s, cat |-> cat, at |-> evNow, admitted |-> admitted]}
     /\ UNCHANGED <<evPath, evNow, evMade, evFrame, evRunning, evStores, evSpoken, evLost>>

\* jsonl_append, and a line on the live page
EvShow(s) ==
  /\ EvHead(s, "show") /\ EvStaged(s, "log")
  /\ evFrame' = [evFrame EXCEPT ![s] = Tail(@)]
  /\ UNCHANGED <<evPath, evNow, evMade, evRunning, evStores, evAlarms, evLost>>

\* A thread of the pool takes it: _render ends, whatever happens.
EvRender(s) ==
  /\ evPool[s] # <<>>
  /\ evPool' = [evPool EXCEPT ![s] = Tail(@)]
  /\ evSpoken' = evSpoken \cup {Head(evPool[s])}
  /\ UNCHANGED <<evPath, evNow, evMade, evFrame, evStage, evRunning, evStores, evLast, evVerdicts, evLost>>

EvTick ==
  /\ evNow < EvMaxTime /\ evNow' = evNow + 1
  /\ UNCHANGED <<evPath, evMade, evFrame, evStage, evRunning, evStores, evAlarms, evLost>>

EvHazards == {<<c>> : c \in EvCategories} \cup (EvCategories \X EvCategories)

EvNext ==
  \/ \E s \in Sources, hazards \in EvHazards : EvDetect(s, hazards)
  \/ \E s \in Sources :
       EvLog(s) \/ EvDiskFails(s) \/ EvPublish(s) \/ EvBusFails(s) \/ EvBusRaises(s)
         \/ EvQueue(s) \/ EvDispatch(s) \/ EvShow(s) \/ EvRender(s)
  \/ EvTick

EvSpec == EvInit /\ [][EvNext]_evVars

EvInHand(id) == \E s \in Sources : evFrame[s] # <<>> /\ \E i \in DOMAIN evFrame[s] : evFrame[s][i] = id

-----------------------------------------------------------------------------
\* Where a hazard is to end up
EvDelivered(id) ==
  \/ evPath = "outbox" /\ id \in evQueued
  \/ evPath = "bus" /\ id \in evPublished
  \/ evPath = "local" /\ \E v \in evVerdicts : v.id = id

(* "bus down must not stop the durable path": with an outbox every hazard  *)
(* a detector has raised and no disk failure has cut off is in the outbox  *)
(* once its frame is done, whatever the bus did meanwhile, and the bus     *)
(* ends no frame.  With the bus alone what it did not take is lost, but    *)
(* only with the frame its exception ended: none is skipped.               *)
EvBusDownIsNoLoss ==
  /\ \A id \in DOMAIN evMade : EvInHand(id) \/ id \in evBroken \cup evCut \/ EvDelivered(id)
  /\ evPath # "bus" => evCut = {}

(* The camera goes on for as long as no disk fails under its frame, and,   *)
(* without an outbox, no bus.                                              *)
EvCameraStays == evRunning \/ evBroken # {} \/ (evPath = "bus" /\ evCut # {})

(* A local alert is muted by its category's cooldown only: not long before *)
(* every refusal the same dispatcher let one of that category through, and *)
(* that one is heard, in its turn, as long as the pipeline runs.           *)
EvSilenceIsShort ==
  /\ \A v \in evVerdicts : v.admitted \/
       \E w \in evVerdicts : w.admitted /\ w.source = v.source /\ w.cat = v.cat
                               /\ w.at <= v.at /\ v.at - w.at < EvCooldown
  /\ evRunning => \A v \in evVerdicts : v.admitted =>
                     v.id \in evSpoken \/ \E i \in DOMAIN evPool[v.source] : evPool[v.source][i] = v.id

(* No hazard is lost on its way but to a disk, or to a bus that has no     *)
(* outbox beside it; the camera's pipeline stops for nothing else; and no  *)
(* alert is kept from the worker but by a recent one of its kind.          *)
EvEveryHazardCounts ==
  EvBusDownIsNoLoss /\ EvCameraStays /\ EvSilenceIsShort
=============================================================================
