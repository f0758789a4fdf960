----------------------------- MODULE Orchestrator -----------------------------
(***************************************************************************)
(* The event chain of the backend (backend/service.py handle_event) over   *)
(* the trigger engine, with the LLM gate (llm/verifier.py), the live push  *)
(* (broadcast/hub.py), RFI drafting and the notice of a rejection          *)
(* (notifications/service.py).                                             *)
(*                                                                         *)
(* Every event runs as a task of its own.  A task works on the alert       *)
(* process() returned to it, a copy, and suspends only while the verifier  *)
(* or the RFI drafter waits for its model: between those points it is one  *)
(* step here, and everything else happens in between.                      *)
(*                                                                         *)
(* Not modelled: the rules' conditions (which rules fire is open) and their *)
(* inspections, the dashboard notices that follow the push (Notifications  *)
(* models notify), wording, and who receives a push (Broadcast).           *)
(***************************************************************************)
EXTENDS TriggerEngine

CONSTANTS
  Tasks,             \* handle_event tasks that get past the trigger engine
  VerifierSettings,  \* values of llm.enabled: all are explored
  VisionConfigured,  \* llm.vision
  Ceiling,           \* rank of llm.suppress_max_severity
  NotifyWindow,      \* notifications.dedup_window_s
  VerifyTimeout      \* how long verify takes at most: the client timeouts of the
                     \* lookups (5 s each) and of the request (llm.timeout_s)

ASSUME GateAssumption ==
  /\ Verdicts = {"confirmed", "rejected", "disputed"}
  /\ VerifierSettings \subseteq BOOLEAN
  /\ VisionConfigured \in BOOLEAN
  /\ Ceiling \in Nat
  /\ NotifyWindow \in Nat \ {0}
  /\ VerifyTimeout \in Nat \ {0}

\* config.yaml: tens of seconds against a time to live of hours.
ASSUME VerifiedInTime == VerifyTimeout <= CacheTTL

\* A raising sink ends handle_event with an exception; that path is not explored.
ASSUME ReliableSink == ~SinkMayFail

VARIABLES
  task,       \* the handle_event tasks
  available,  \* LLMVerifier._available: has the model been looked up, with what
              \* result; "off" when there is no verifier
  model,      \* LLMVerifier._available_model
  vision,     \* LLMVerifier.vision
  quiet       \* until when the notice of each alert's rejection is deduplicated

gateVars == <<task, available, model, vision, quiet>>
allVars  == <<vars, gateVars>>

Told == {"push", "rejected"}

\* fresh: not started; lookup, fallback: verify is looking a model up; ask: its
\* request is out; waived: it returns without one; draft: inside draft; done:
\* returned; lost: died with the process.
Task == [ pc    : {"fresh", "lookup", "fallback", "ask", "waived", "draft", "done", "lost"},
          id    : AlertIds \cup {0},
          key   : Keys \cup {NoAlert},
          sev   : Severities \cup {0},
          image : BOOLEAN,         \* verify attached the alert's image
          since : Times,           \* when verify was called
          said  : SUBSET Told ]    \* history: what people were told

FreshTask == [ pc |-> "fresh", id |-> 0, key |-> NoAlert, sev |-> 0,
               image |-> FALSE, since |-> 0, said |-> {} ]

GateTypeOK ==
  /\ TypeOK
  /\ task \in [Tasks -> Task]
  /\ available \in {"off", "unknown", "yes", "no"}
  /\ model \in {"none", "main", "text"}
  /\ vision \in BOOLEAN
  /\ quiet \in [AlertIds -> Int]

GateInit ==
  /\ Init
  /\ task = [t \in Tasks |-> FreshTask]
  /\ \E on \in VerifierSettings : available = IF on THEN "unknown" ELSE "off"
  /\ model = "none"
  /\ vision = VisionConfigured
  /\ quiet = [i \in AlertIds |-> Never]

Verifying == {"lookup", "fallback", "ask", "waived"}

-----------------------------------------------------------------------------
(* What a task tells people.                                               *)

\* Mutant of Finish: a pc nobody knows.
FinishIdle(t, tsk) ==
  task' = [task EXCEPT ![t] = [tsk EXCEPT !.pc = "idle", !.image = FALSE, !.since = 0]]

\* The task returns; what verify worked on is gone.
Finish(t, tsk) ==
  task' = [task EXCEPT ![t] = [tsk EXCEPT !.pc = "done", !.image = FALSE, !.since = 0]]

\* The task waits in the drafter.
Drafts(t, tsk) ==
  task' = [task EXCEPT ![t] = [tsk EXCEPT !.pc = "draft", !.image = FALSE, !.since = 0]]

\* Mutant of TellPeople: the push waits for the drafter.
TellAfterPaperwork(t, tsk) ==
  \/ Finish(t, [tsk EXCEPT !.said = @ \cup {"push"}])
  \/ Drafts(t, tsk)

\* Steps 5 and 6 of handle_event: push to dashboards, worker and zone, then the
\* rules, of which generate_rfi suspends in the drafter.
TellPeople(t, tsk) ==
  LET pushed == [tsk EXCEPT !.said = @ \cup {"push"}] IN
  Finish(t, pushed) \/ Drafts(t, pushed)

\* _notify_rejected: a duplicate in the window is merged, which extends the window;
\* otherwise the dashboard hears of the rejection.
NotifyRejected(t) ==
  /\ quiet' = [quiet EXCEPT ![task[t].id] = now + NotifyWindow]
  /\ Finish(t, IF quiet[task[t].id] >= now THEN task[t]
               ELSE [task[t] EXCEPT !.said = @ \cup {"rejected"}])

\* Mutants of MaySuppress: a severity ceiling only; vision only; what the model was
\* shown decides, not what the verifier can see by now.
MaySuppressBlind(t) == task[t].sev <= Ceiling

MaySuppressAny(t) == vision

MaySuppressAsAsked(t) == task[t].image /\ task[t].sev <= Ceiling

\* _may_suppress, on the severity of the task's own copy of the alert.
MaySuppress(t) == vision /\ task[t].sev <= Ceiling

-----------------------------------------------------------------------------
(* The gate.                                                               *)

\* _resolve_model returns what is known as model m and vision v: with it the request
\* goes out, or verify has nobody to ask, or nobody to show the image to.
Consults(m, v, image) == IF m # "none" /\ (image => v) THEN "ask" ELSE "waived"

\* handle_event up to its first suspension.  The returned alert is cache'[k];
\* image says whether the alert's image_url names a readable file.
HandleEvent(k, s, image) ==
  /\ Process(k, s)
  /\ IF Cached(k) = NoAlert \/ Cached(k).state = "RESOLVED"
       THEN \E t \in Tasks :
              /\ task[t].pc = "fresh"
              /\ LET tsk == [ FreshTask EXCEPT !.id = cache'[k].id, !.key = k,
                                               !.sev = cache'[k].sev,
                                               !.image = vision /\ image,
                                               !.since = now ] IN
                 IF available # "off"
                   THEN task' = [task EXCEPT ![t] = [tsk EXCEPT !.pc =
                          IF available = "unknown" THEN "lookup"
                          ELSE Consults(model, vision, tsk.image)]]
                   ELSE TellPeople(t, tsk)
       ELSE UNCHANGED task
  /\ UNCHANGED <<available, model, vision, quiet>>

\* _resolve_model, the configured model: found, or try the text models.
Lookup(t) ==
  /\ up /\ task[t].pc = "lookup"
  /\ \/ /\ available' = "yes" /\ model' = "main"
        /\ task' = [task EXCEPT ![t].pc = Consults("main", vision, task[t].image)]
     \/ /\ available' = "no" /\ UNCHANGED model
        /\ task' = [task EXCEPT ![t].pc = "fallback"]
  /\ UNCHANGED <<vars, vision, quiet>>

\* ... and its fallback: a text model, without vision from here on, or none.
Fallback(t) ==
  /\ up /\ task[t].pc = "fallback"
  /\ \/ available' = "yes" /\ model' = "text" /\ vision' = FALSE
     \/ /\ model' = IF available = "yes" THEN model ELSE "none"
        /\ UNCHANGED <<available, vision>>
  /\ task' = [task EXCEPT ![t].pc = Consults(model', vision', task[t].image)]
  /\ UNCHANGED <<vars, quiet>>

\* set_verdict on whatever alert is tracked under the key now.
Stamp(k, v) ==
  IF Cached(k) = NoAlert
    THEN /\ cache' = [cache EXCEPT ![k] = NoAlert]
         /\ expires' = [expires EXCEPT ![k] = 0]
         /\ UNCHANGED <<store, told>>
    ELSE Save(k, Judged(Cached(k), v), TRUE, TRUE)

\* set_verdict and then suppress.
StampAndSuppress(k) ==
  IF Cached(k) = NoAlert THEN Stamp(k, "rejected")
  ELSE Save(k, Suppressed(Judged(Cached(k), "rejected")), TRUE, TRUE)

\* verify returns: the model confirms, or fails to answer, or was not asked (no await
\* precedes that return; as a step of its own it only lets more come in between).
Confirm(t) ==
  /\ up /\ task[t].pc \in {"ask", "waived"}
  /\ Stamp(task[t].key, "confirmed")
  /\ TellPeople(t, task[t])
  /\ UNCHANGED <<now, up, crashes, nextId, nextSweep, detected, woken>>
  /\ UNCHANGED <<available, model, vision, quiet>>

\* Mutants of Dispute: nobody is told; the flag is not persisted.
DisputeSilently(t) ==
  /\ up /\ task[t].pc = "ask"
  /\ ~MaySuppress(t)
  /\ Stamp(task[t].key, "disputed")
  /\ Finish(t, task[t])
  /\ UNCHANGED <<now, up, crashes, nextId, nextSweep, detected, woken>>
  /\ UNCHANGED <<available, model, vision, quiet>>

DisputeUnflagged(t) ==
  /\ up /\ task[t].pc = "ask"
  /\ ~MaySuppress(t)
  /\ Stamp(task[t].key, "rejected")
  /\ TellPeople(t, task[t])
  /\ UNCHANGED <<now, up, crashes, nextId, nextSweep, detected, woken>>
  /\ UNCHANGED <<available, model, vision, quiet>>

\* The model rejects and may not: the alert is escalated, tagged as disputed.
Dispute(t) ==
  /\ up /\ task[t].pc = "ask"
  /\ ~MaySuppress(t)
  /\ Stamp(task[t].key, "disputed")
  /\ TellPeople(t, task[t])
  /\ UNCHANGED <<now, up, crashes, nextId, nextSweep, detected, woken>>
  /\ UNCHANGED <<available, model, vision, quiet>>

\* The model rejects and may: the alert is suppressed and the dashboard told.
Reject(t) ==
  /\ up /\ task[t].pc = "ask"
  /\ MaySuppress(t)
  /\ StampAndSuppress(task[t].key)
  /\ NotifyRejected(t)
  /\ UNCHANGED <<now, up, crashes, nextId, nextSweep, detected, woken>>
  /\ UNCHANGED <<available, model, vision>>

\* draft returns or raises: an RFI is filed either way and the task returns.
Drafted(t) ==
  /\ up /\ task[t].pc = "draft"
  /\ Finish(t, task[t])
  /\ UNCHANGED <<vars, available, model, vision, quiet>>

-----------------------------------------------------------------------------
(* Everything else.                                                        *)

Manager ==
  /\ \E k \in Keys : Resolve(k) \/ Suppress(k) \/ Unsuppress(k) \/ Evict(k)
  /\ UNCHANGED gateVars

\* The client's timeouts end a verification before time goes past them.
Clockwork ==
  /\ \/ SweepOnce
     \/ /\ Tick
        /\ \A t \in Tasks : task[t].pc \in Verifying => now < task[t].since + VerifyTimeout
  /\ UNCHANGED gateVars

\* Tasks and caches die with the process; the new one looks the model up again.
GateCrash ==
  /\ Crash
  /\ task' = [t \in Tasks |-> IF task[t].pc \in {"fresh", "done"} THEN task[t]
                                ELSE [task[t] EXCEPT !.pc = "lost", !.image = FALSE, !.since = 0]]
  /\ quiet' = [i \in AlertIds |-> Never]
  /\ available' = IF available = "off" THEN "off" ELSE "unknown"
  /\ model' = "none"
  /\ vision' = VisionConfigured

GateRestart == Restart /\ UNCHANGED gateVars

GateStep(t) == Lookup(t) \/ Fallback(t) \/ Confirm(t) \/ Dispute(t) \/ Reject(t)

GateNext ==
  \/ \E k \in Keys, s \in Severities, image \in BOOLEAN : HandleEvent(k, s, image)
  \/ \E t \in Tasks : GateStep(t) \/ Drafted(t)
  \/ Manager \/ Clockwork \/ GateCrash \/ GateRestart

\* The calls to the model are bounded by the client's timeouts, so a task inside
\* verify comes back; nothing is assumed of the drafter.
Fairness == \A t \in Tasks : WF_allVars(GateStep(t))

GateSpec == GateInit /\ [][GateNext]_allVars /\ Fairness

-----------------------------------------------------------------------------
(* Properties.                                                             *)

Said(i, what) == \E t \in Tasks : task[t].id = i /\ what \in task[t].said

\* No handled alert ends in silence: once its task returned, people got the push,
\* or the dashboard was told of the rejection, and that only of an alert raised at
\* or below the ceiling (handle_event, steps 4 and 5).
NoSilentEnd ==
  \A t \in Tasks : task[t].pc = "done" =>
    \/ "push" \in task[t].said
    \/ task[t].sev <= Ceiling /\ Said(task[t].id, "rejected")

\* The board and the push agree: an alert that is open for everybody to see has been
\* pushed, or rejected and lifted by a manager, or is being verified.  One whose task
\* died with the process is in no cache any more: the next detection of the issue is
\* not merged into an alert nobody heard of.
OpenAlertsAreTold ==
  \A i \in AlertIds : store[i] # NoAlert /\ store[i].state \in Open =>
    \E t \in Tasks : /\ task[t].id = i
                     /\ \/ task[t].said \cap {"push", "rejected"} # {}
                        \/ task[t].pc \in Verifying
                        \/ task[t].pc = "lost" /\ \A k \in Keys :
                             cache[k] # NoAlert => cache[k].id # i

(* No alert is left in silence: neither one whose verification is over nor *)
(* one that is open and takes in the detections of its issue.              *)
NobodyIsLeftUntold ==
  NoSilentEnd /\ OpenAlertsAreTold

\* The verdict on a row is the one people acted on: a row marked rejected was
\* reported to the dashboard, a row marked confirmed or disputed was pushed.
VerdictMatchesDeed ==
  \A i \in AlertIds : store[i] # NoAlert =>
    /\ store[i].verdict = "rejected" => Said(i, "rejected")
    /\ store[i].verdict \in {"confirmed", "disputed"} => Said(i, "push")

\* A verifier that has lost its eyes (it fell back to a text model) suppresses nothing
\* any more: every state change of an alert to SUPPRESSED is then a manager's.
BlindGateNeverMutes ==
  [][~vision /\ task' # task =>
       \A i \in AlertIds : store'[i] # NoAlert /\ store'[i].state = "SUPPRESSED"
         => store[i] # NoAlert /\ store[i].state = "SUPPRESSED"]_allVars

(* The verifier's power is used as it says: verdicts are those people      *)
(* acted on, and a verifier without eyes mutes nothing.                    *)
GateIsHonest ==
  /\ [](GateTypeOK /\ VerdictMatchesDeed)
  /\ BlindGateNeverMutes

\* Telling people never queues behind paperwork: once verify returns, the push
\* happens although the RFI drafter may never answer (service.py, step 5).
WarningDoesNotWait ==
  \A t \in Tasks : task[t].pc \in Verifying
    ~> ("push" \in task[t].said \/ task[t].pc \in {"done", "lost"})

-----------------------------------------------------------------------------
(* A claim of the documentation that the code does not keep.               *)

\* README: the LLM "can never silently suppress a high-severity hazard".  The alert it
\* suppresses has no severity above the ceiling.
NeverSilencesSerious ==
  [][\A t \in Tasks : Reject(t) =>
       Cached(task[t].key) = NoAlert \/ Cached(task[t].key).sev <= Ceiling]_allVars
=============================================================================
