--------------------------- MODULE StoreAndForward ---------------------------
(***************************************************************************)
(* The path of an event from the edge to the backend's event log: the      *)
(* durable outbox (offline/outbox.py), the flush passes over it            *)
(* (offline/forwarder.py), the ingest route (backend/app.py POST /events), *)
(* the in-memory bus (events/bus.py) and the first step of handle_event,   *)
(* save_event (backend/service.py).                                        *)
(*                                                                         *)
(* Flush passes are run by the background loop and by POST /offline/flush; *)
(* each suspends while a request is out.  Requests and replies get lost,   *)
(* either process dies and comes back.                                     *)
(*                                                                         *)
(* Not modelled: attempts, last_error, backoff (a pass may start at any    *)
(* time), reconciled timestamps, purge_sent, other traffic on the bus.     *)
(***************************************************************************)
EXTENDS Integers, Sequences, FiniteSets

CONSTANTS
  Flushers,      \* who runs flush_once: the loop, and calls of /offline/flush
  Loop,          \* the background loop
  BatchSize,     \* batch_size
  QueueCap,      \* capacity of the bus queue (10000)
  SaveMayFail,   \* may store.save_event raise?
  MaxEvents, MaxFailures, MaxEdgeCrashes, MaxBackendCrashes   \* bounds

ASSUME ForwardAssumption ==
  /\ Loop \in Flushers
  /\ BatchSize \in Nat \ {0}
  /\ QueueCap \in Nat \ {0}
  /\ SaveMayFail \in BOOLEAN
  /\ {MaxEvents, MaxFailures, MaxEdgeCrashes, MaxBackendCrashes} \subseteq Nat

\* Events are numbered in the order in which they are submitted.
Events == 1..MaxEvents

VARIABLES
  outbox,      \* event_outbox.status, by event
  batch,       \* the rows a pass has still to send, the oldest one being out
  flight,      \* the request of a pass: none, out, or accepted by the backend
  edgeUp,
  queue,       \* InMemoryEventBus._queue
  backendUp,
  log,         \* bus_events rows
  accepted,    \* history: events answered with 202
  shed,        \* history: events a full bus dropped
  unsaved,     \* history: events whose save_event raised
  failures,    \* lost requests and replies so far (bounded)
  edgeCrashes, backendCrashes

edgeVars    == <<outbox, batch, flight, edgeUp, edgeCrashes>>
backendVars == <<queue, backendUp, log, shed, unsaved, backendCrashes>>
forwardVars == <<edgeVars, backendVars, accepted, failures>>

Message == [event : Events, topic : {"family", "all"}]

ForwardTypeOK ==
  /\ outbox \in [Events -> {"none", "pending", "sent"}]
  /\ batch \in [Flushers -> SUBSET Events]
  /\ flight \in [Flushers -> {"none", "out", "accepted"}]
  /\ queue \in Seq(Message) /\ Len(queue) <= QueueCap
  /\ {log, accepted, shed, unsaved} \subseteq SUBSET Events
  /\ {edgeUp, backendUp} \subseteq BOOLEAN
  /\ failures \in 0..MaxFailures
  /\ edgeCrashes \in 0..MaxEdgeCrashes /\ backendCrashes \in 0..MaxBackendCrashes

ForwardInit ==
  /\ outbox = [e \in Events |-> "none"]
  /\ batch = [f \in Flushers |-> {}]
  /\ flight = [f \in Flushers |-> "none"]
  /\ edgeUp = TRUE
  /\ queue = <<>>
  /\ backendUp = TRUE
  /\ log = {}
  /\ accepted = {} /\ shed = {} /\ unsaved = {}
  /\ failures = 0 /\ edgeCrashes = 0 /\ backendCrashes = 0

-----------------------------------------------------------------------------
(* The edge.                                                               *)

\* submit: enqueue the next event; a row that is already sent is never touched.
Submit(e) ==
  /\ edgeUp
  /\ outbox[e] = "none" /\ \A d \in 1..(e - 1) : outbox[d] # "none"
  /\ outbox' = [outbox EXCEPT ![e] = "pending"]
  /\ UNCHANGED <<batch, flight, edgeUp, edgeCrashes, backendVars, accepted, failures>>

\* Outbox.pending: the oldest BatchSize rows.
Pending ==
  LET rows == {e \in Events : outbox[e] = "pending"}
  IN  {e \in rows : Cardinality({d \in rows : d <= e}) <= BatchSize}

\* Rows are sent oldest first: e is the one pass f has out.
Out(f, e) == e \in batch[f] /\ \A d \in batch[f] : e <= d

\* flush_once up to its first request.  A pass over nothing leaves no trace.
StartPass(f) ==
  /\ edgeUp
  /\ batch[f] = {}
  /\ Pending # {}
  /\ batch' = [batch EXCEPT ![f] = Pending]
  /\ flight' = [flight EXCEPT ![f] = "out"]
  /\ UNCHANGED <<outbox, edgeUp, edgeCrashes, backendVars, accepted, failures>>

\* Mutants of Acknowledged: marked sent before any reply; an unknown status.
AcknowledgedOnSend(f, e) ==
  /\ edgeUp /\ flight[f] # "none" /\ Out(f, e)
  /\ outbox' = [outbox EXCEPT ![e] = "sent"]
  /\ batch' = [batch EXCEPT ![f] = @ \ {e}]
  /\ flight' = [flight EXCEPT ![f] = IF batch[f] = {e} THEN "none" ELSE "out"]
  /\ UNCHANGED <<edgeUp, edgeCrashes, backendVars, accepted, failures>>

AcknowledgedAsFlushed(f, e) ==
  /\ edgeUp /\ flight[f] = "accepted" /\ Out(f, e)
  /\ outbox' = [outbox EXCEPT ![e] = "flushed"]
  /\ batch' = [batch EXCEPT ![f] = @ \ {e}]
  /\ flight' = [flight EXCEPT ![f] = IF batch[f] = {e} THEN "none" ELSE "out"]
  /\ UNCHANGED <<edgeUp, edgeCrashes, backendVars, accepted, failures>>

\* ... and the mark forgotten.
AcknowledgedUnmarked(f, e) ==
  /\ edgeUp /\ flight[f] = "accepted" /\ Out(f, e)
  /\ batch' = [batch EXCEPT ![f] = @ \ {e}]
  /\ flight' = [flight EXCEPT ![f] = IF batch[f] = {e} THEN "none" ELSE "out"]
  /\ UNCHANGED <<outbox, edgeUp, edgeCrashes, backendVars, accepted, failures>>

\* A 2xx reply arrives: mark_sent, and on to the next row.
Acknowledged(f, e) ==
  /\ edgeUp
  /\ flight[f] = "accepted" /\ Out(f, e)
  /\ outbox' = [outbox EXCEPT ![e] = "sent"]
  /\ batch' = [batch EXCEPT ![f] = @ \ {e}]
  /\ flight' = [flight EXCEPT ![f] = IF batch[f] = {e} THEN "none" ELSE "out"]
  /\ UNCHANGED <<edgeUp, edgeCrashes, backendVars, accepted, failures>>

\* Losing a message while the backend is up uses up one failure.
Lossy == IF backendUp THEN failures < MaxFailures /\ failures' = failures + 1
                      ELSE UNCHANGED failures

\* Mutants of Failed: the pass goes on with the next row; it is never over.
FailedSkipping(f) ==
  /\ edgeUp /\ flight[f] # "none" /\ Lossy
  /\ \E e \in batch[f] :
       /\ Out(f, e)
       /\ batch' = [batch EXCEPT ![f] = @ \ {e}]
       /\ flight' = [flight EXCEPT ![f] = IF batch[f] = {e} THEN "none" ELSE "out"]
  /\ UNCHANGED <<outbox, edgeUp, edgeCrashes, backendVars, accepted>>

FailedHanging(f) ==
  /\ edgeUp /\ flight[f] # "none" /\ Lossy
  /\ flight' = [flight EXCEPT ![f] = "none"]
  /\ UNCHANGED <<outbox, batch, edgeUp, edgeCrashes, backendVars, accepted>>

\* The request or its reply is lost, or the backend is down: the pass stops.
Failed(f) ==
  /\ edgeUp
  /\ flight[f] # "none"
  /\ Lossy
  /\ batch' = [batch EXCEPT ![f] = {}]
  /\ flight' = [flight EXCEPT ![f] = "none"]
  /\ UNCHANGED <<outbox, edgeUp, edgeCrashes, backendVars, accepted>>

EdgeCrash ==
  /\ edgeUp /\ edgeCrashes < MaxEdgeCrashes
  /\ edgeUp' = FALSE
  /\ edgeCrashes' = edgeCrashes + 1
  /\ batch' = [f \in Flushers |-> {}]
  /\ flight' = [f \in Flushers |-> "none"]
  /\ UNCHANGED <<outbox, backendVars, accepted, failures>>

EdgeRestart ==
  /\ ~edgeUp
  /\ edgeUp' = TRUE
  /\ UNCHANGED <<outbox, batch, flight, edgeCrashes, backendVars, accepted, failures>>

-----------------------------------------------------------------------------
(* The backend.                                                            *)

\* InMemoryEventBus.publish: a full queue drops the message.
Offer(q, m) == IF Len(q) < QueueCap THEN Append(q, m) ELSE q

\* ingest_event: both topics of publish_event, then the 202 in any case.
Ingest(f, e) ==
  /\ backendUp
  /\ flight[f] = "out" /\ Out(f, e)
  /\ queue' = Offer(Offer(queue, [event |-> e, topic |-> "family"]),
                    [event |-> e, topic |-> "all"])
  /\ shed' = IF Len(queue) < QueueCap THEN shed ELSE shed \cup {e}
  /\ accepted' = accepted \cup {e}
  /\ flight' = [flight EXCEPT ![f] = "accepted"]
  /\ UNCHANGED <<outbox, batch, edgeUp, edgeCrashes,
                 backendUp, log, unsaved, backendCrashes, failures>>

\* Mutant of Dispatch: a save that raises ends the dispatcher with all it holds.
DispatchBreaking ==
  /\ backendUp
  /\ queue # <<>>
  /\ \/ Head(queue).topic = "all" /\ queue' = Tail(queue) /\ UNCHANGED <<log, unsaved>>
     \/ /\ Head(queue).topic # "all"
        /\ queue' = Tail(queue)
        /\ log' = log \cup {Head(queue).event} /\ UNCHANGED unsaved
     \/ /\ Head(queue).topic # "all" /\ SaveMayFail
        /\ queue' = <<>>
        /\ unsaved' = unsaved \cup {Head(queue).event} /\ UNCHANGED log
  /\ UNCHANGED <<edgeVars, backendUp, shed, backendCrashes, accepted, failures>>

\* The dispatcher hands the next message to the orchestrator, which skips the
\* events.all copy and saves the event (INSERT OR IGNORE); TriggerEngine goes on from
\* there.  When the save raises the bus logs it, and the event is gone.
Dispatch ==
  /\ backendUp
  /\ queue # <<>>
  /\ queue' = Tail(queue)
  /\ \/ Head(queue).topic = "all" /\ UNCHANGED <<log, unsaved>>
     \/ /\ Head(queue).topic # "all"
        /\ log' = log \cup {Head(queue).event} /\ UNCHANGED unsaved
     \/ /\ Head(queue).topic # "all" /\ SaveMayFail
        /\ unsaved' = unsaved \cup {Head(queue).event} /\ UNCHANGED log
  /\ UNCHANGED <<edgeVars, backendUp, shed, backendCrashes, accepted, failures>>

\* The queue dies with the process, the log does not.
BackendCrash ==
  /\ backendUp /\ backendCrashes < MaxBackendCrashes
  /\ backendUp' = FALSE
  /\ backendCrashes' = backendCrashes + 1
  /\ queue' = <<>>
  /\ UNCHANGED <<edgeVars, log, shed, unsaved, accepted, failures>>

BackendRestart ==
  /\ ~backendUp
  /\ backendUp' = TRUE
  /\ UNCHANGED <<edgeVars, queue, log, shed, unsaved, backendCrashes, accepted, failures>>

-----------------------------------------------------------------------------
ForwardNext ==
  \/ \E e \in Events : Submit(e)
  \/ \E f \in Flushers :
       \/ StartPass(f) \/ Failed(f)
       \/ \E e \in Events : Acknowledged(f, e) \/ Ingest(f, e)
  \/ EdgeCrash \/ EdgeRestart
  \/ Dispatch \/ BackendCrash \/ BackendRestart

\* What becomes of the request that pass f has out.
RequestEnds(f) == Failed(f) \/ \E e \in Events : Acknowledged(f, e) \/ Ingest(f, e)

\* The loop wakes up on a timer, requests end (httpx timeout), the dispatcher runs,
\* and crashed processes are restarted.  The network is not fair, but loses only
\* MaxFailures messages.
Fairness ==
  /\ WF_forwardVars(StartPass(Loop))
  /\ \A f \in Flushers : WF_forwardVars(RequestEnds(f))
  /\ WF_forwardVars(Dispatch)
  /\ WF_forwardVars(EdgeRestart) /\ WF_forwardVars(BackendRestart)

ForwardSpec == ForwardInit /\ [][ForwardNext]_forwardVars /\ Fairness

-----------------------------------------------------------------------------
(* Properties.                                                             *)

\* Nothing is marked sent on hope: a row is sent only if the backend accepted that
\* event, whatever was lost, and whichever pass marked it.
SentWasAccepted ==
  \A e \in Events : outbox[e] = "sent" => e \in accepted

(* The outbox and the bus hold what they may hold, and what is marked sent *)
(* was accepted.                                                           *)
OutboxIsHonest ==
  ForwardTypeOK /\ SentWasAccepted

\* What is missing from the log of a backend that never died was dropped by a full bus
\* or refused by the table.
MissingIsReported ==
  \A e \in accepted : \/ e \in log \cup shed \cup unsaved
                      \/ \E i \in DOMAIN queue : queue[i] = [event |-> e, topic |-> "family"]

\* Retries do not flood the bus: it is full only once what was recorded, lost and cut
\* off fills it, each pass posting an event once and twice only after a failure.
ShedOnlyUnderLoad ==
  shed # {} =>
    2 * (Cardinality(Flushers) * (Cardinality(accepted) + edgeCrashes) + failures) > QueueCap

(* As long as the backend lives, an accepted event is logged, on its way,  *)
(* or a loss the backend reported; and the flushing does not cause losses. *)
LossesAreExplained ==
  backendCrashes = 0 => MissingIsReported /\ ShedOnlyUnderLoad

\* Flushing preserves order across failed, overlapping and repeated passes and
\* crashes of either process: the backend first sees the events in submission order,
\* and skips none.
recorded == {e \in Events : outbox[e] # "none"}

Delivery == INSTANCE InOrderDelivery WITH Items <- Events, recorded <- recorded,
                                          arrived <- accepted

DeliversInOrder == Delivery!DeliverySpec

\* The queue drains: every submitted event is finally marked sent.
OutboxDrains == \A e \in Events : outbox[e] = "pending" ~> outbox[e] = "sent"

-----------------------------------------------------------------------------
(* A claim of the documentation that the code does not keep.                *)

\* offline/__init__.py: "An event is only marked sent after the backend acknowledges
\* it, so a crash mid-flush replays rather than loses."  A sent event ends in the log.
SentIsLogged == \A e \in Events : outbox[e] = "sent" ~> e \in log
=============================================================================
