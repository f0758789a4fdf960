------------------------------- MODULE Broadcast ------------------------------
(***************************************************************************)
(* broadcast/hub.py over events/bus.py, with the /ws route: who hears of   *)
(* an alert.  A confirmed alert is published three times: to the           *)
(* dashboards of its zone, to the device of the worker it is about, and as *)
(* an advisory to the other devices of the zone.  Each bus message is      *)
(* handled in a task of its own, which picks its targets among the clients *)
(* connected then and sends to each.                                       *)
(***************************************************************************)
EXTENDS Tables

CONSTANTS
  BcClients,   \* 1..n, the client ids in the order they are drawn
  BcWorkers,
  BcZones,
  BcAlerts,    \* 1..n, the alerts confirmed in a behaviour
  BcQueueMax   \* the bus queue's size

ASSUME BcAssumption == BcQueueMax \in Nat /\ BcClients \subseteq Nat

VARIABLES
  bcClients,   \* the hub's table: client -> [kind, zone, worker]
  bcGone,      \* clients whose socket is dead, whether or not the hub knows
  bcQueue,     \* the bus queue
  bcSends,     \* frames on their way: <<client, message>> of delivering tasks
  bcDrawn,     \* clients that have connected so far
  bcRaised,    \* alerts confirmed: alert -> [worker, zone]
  bcHeard,     \* history: what each client received, as a set of messages
  bcDropped    \* history: messages the full queue refused

bcVars == <<bcClients, bcGone, bcQueue, bcSends, bcDrawn, bcRaised, bcHeard, bcDropped>>

BcInit ==
  /\ bcClients = <<>> /\ bcGone = {} /\ bcQueue = <<>> /\ bcSends = {}
  /\ bcDrawn = 0 /\ bcRaised = <<>> /\ bcHeard = [c \in BcClients |-> {}] /\ bcDropped = {}

\* /ws: the kind and the worker come from the token, the zone from the client
BcConnect(worker, zone) ==
  LET c == bcDrawn + 1
  IN /\ c \in BcClients
     /\ bcClients' = Changed(bcClients, [k \in {c} |->
          [kind |-> IF worker = None THEN "dashboard" ELSE "device", zone |-> zone, worker |-> worker]])
     /\ bcDrawn' = c
     /\ UNCHANGED <<bcGone, bcQueue, bcSends, bcRaised, bcHeard, bcDropped>>

\* the socket dies; the receive loop notices some time later
BcVanish(c) ==
  /\ c \in DOMAIN bcClients \ bcGone
  /\ bcGone' = bcGone \cup {c}
  /\ UNCHANGED <<bcClients, bcQueue, bcSends, bcDrawn, bcRaised, bcHeard, bcDropped>>

BcDisconnect(c) ==
  /\ c \in DOMAIN bcClients \cap bcGone
  /\ bcClients' = [k \in DOMAIN bcClients \ {c} |-> bcClients[k]]
  /\ UNCHANGED <<bcGone, bcQueue, bcSends, bcDrawn, bcRaised, bcHeard, bcDropped>>

\* step 6 of handle_event; an alert without a zone gets no advisory, one
\* without a worker no primary
BcPublished(a, worker, zone) ==
  <<[topic |-> "dashboard", alert |-> a, audience |-> "dashboard", zone |-> zone,
     worker |-> None, exclude |-> None]>>
  \o (IF worker = None THEN <<>>
      ELSE <<[topic |-> "primary", alert |-> a, audience |-> "device", zone |-> None,
              worker |-> worker, exclude |-> None]>>)
  \o (IF zone = None THEN <<>>
      ELSE <<[topic |-> "advisory", alert |-> a, audience |-> "device", zone |-> zone,
              worker |-> None, exclude |-> worker]>>)

BcRaise(a, worker, zone) ==
  LET new == BcPublished(a, worker, zone)
      fit == IF Len(new) <= BcQueueMax - Len(bcQueue) THEN Len(new) ELSE BcQueueMax - Len(bcQueue)
  IN /\ a \in BcAlerts /\ a = Cardinality(DOMAIN bcRaised) + 1
     /\ bcRaised' = Changed(bcRaised, [b \in {a} |-> [worker |-> worker, zone |-> zone]])
     /\ bcQueue' = bcQueue \o SubSeq(new, 1, fit)
     /\ bcDropped' = bcDropped \cup {new[i] : i \in fit + 1 .. Len(new)}
     /\ UNCHANGED <<bcClients, bcGone, bcSends, bcDrawn, bcHeard>>

\* Mutants of BcWants: the excluded subject is looked up by client; a device
\* that named no zone hears every zone.
BcWantsSubject(client, m) ==
  /\ m.audience = client.kind
  /\ m.worker = None \/ client.worker = m.worker
  /\ m.zone = None \/ client.zone = m.zone \/ (client.kind = "dashboard" /\ client.zone = None)
BcWantsUnzoned(client, m) ==
  /\ m.audience = client.kind
  /\ m.worker = None \/ client.worker = m.worker
  /\ m.exclude = None \/ client.worker # m.exclude
  /\ m.zone = None \/ client.zone \in {m.zone, None}

(* Client.wants: only a dashboard may span zones, and a message addressed *)
(* to a worker goes to nobody else.                                       *)
BcWants(client, m) ==
  /\ m.audience = client.kind
  /\ m.worker = None \/ client.worker = m.worker
  /\ m.exclude = None \/ client.worker # m.exclude
  /\ m.zone = None \/ client.zone = m.zone \/ (client.kind = "dashboard" /\ client.zone = None)

\* _dispatch_loop and _deliver: the targets are picked when the task starts
BcDeliver ==
  /\ bcQueue # <<>>
  /\ bcQueue' = Tail(bcQueue)
  /\ bcSends' = bcSends \cup {<<c, Head(bcQueue)>> : c \in {k \in DOMAIN bcClients : BcWants(bcClients[k], Head(bcQueue))}}
  /\ UNCHANGED <<bcClients, bcGone, bcDrawn, bcRaised, bcHeard, bcDropped>>

BcSend(c, m) ==
  /\ <<c, m>> \in bcSends /\ c \notin bcGone
  /\ bcSends' = bcSends \ {<<c, m>>}
  /\ bcHeard' = [bcHeard EXCEPT ![c] = @ \cup {m}]
  /\ UNCHANGED <<bcClients, bcGone, bcQueue, bcDrawn, bcRaised, bcDropped>>

\* Mutant of BcSendFails: a failed frame takes the message's other frames along.
BcSendFailsAll(c, m) ==
  /\ <<c, m>> \in bcSends /\ c \in bcGone
  /\ bcSends' = {s \in bcSends : s[2] # m}
  /\ bcClients' = [k \in DOMAIN bcClients \ {c} |-> bcClients[k]]
  /\ UNCHANGED <<bcGone, bcQueue, bcDrawn, bcRaised, bcHeard, bcDropped>>

\* a send that fails drops that client, the gather goes on with the others
BcSendFails(c, m) ==
  /\ <<c, m>> \in bcSends /\ c \in bcGone
  /\ bcSends' = bcSends \ {<<c, m>>}
  /\ bcClients' = [k \in DOMAIN bcClients \ {c} |-> bcClients[k]]
  /\ UNCHANGED <<bcGone, bcQueue, bcDrawn, bcRaised, bcHeard, bcDropped>>

BcSending == \E s \in bcSends : BcSend(s[1], s[2]) \/ BcSendFails(s[1], s[2])

\* Fair: the dispatcher and the sends run, a dead socket's receive loop ends.
BcProgress == BcDeliver \/ BcSending \/ \E c \in BcClients : BcDisconnect(c)

BcNext ==
  \/ \E w \in BcWorkers \cup {None}, z \in BcZones \cup {None} : BcConnect(w, z)
  \/ \E c \in BcClients : BcVanish(c)
  \/ \E a \in BcAlerts, w \in BcWorkers \cup {None}, z \in BcZones \cup {None} : BcRaise(a, w, z)
  \/ BcProgress

BcSpec == BcInit /\ [][BcNext]_bcVars

-----------------------------------------------------------------------------
BcTopics(c, a) == {m.topic : m \in {n \in bcHeard[c] : n.alert = a}}

(* Each audience hears one alert once and in its own words: nobody gets    *)
(* both the primary and the advisory, the subject never the advisory.      *)
BcOneVoice ==
  \A c \in BcClients, a \in DOMAIN bcRaised :
    /\ Cardinality(BcTopics(c, a)) <= 1
    /\ \A m \in bcHeard[c] :
         m.topic = "advisory" /\ c \in DOMAIN bcClients /\ bcRaised[m.alert].worker # None =>
           bcClients[c].worker # bcRaised[m.alert].worker

(* A device hears nothing of a zone it is not in, except what is addressed *)
(* to its own worker, wherever that alert was raised.                      *)
BcZoneScoped ==
  \A c \in DOMAIN bcClients : \A m \in bcHeard[c] :
    bcClients[c].kind = "device" =>
      \/ m.topic = "advisory" /\ bcClients[c].zone = bcRaised[m.alert].zone
      \/ m.topic = "primary" /\ bcClients[c].worker = bcRaised[m.alert].worker

(* The promise of alert_worker: a device of the worker at risk that was    *)
(* connected when the alert was raised hears it, whatever zone it gave,    *)
(* unless its socket dies or the bus was full; a dead peer does not matter. *)
BcSubjectHears ==
  \A a \in BcAlerts, c \in BcClients :
    (/\ a \in DOMAIN bcRaised /\ bcRaised[a].worker # None
     /\ c \in DOMAIN bcClients /\ bcClients[c].worker = bcRaised[a].worker
     /\ \E i \in DOMAIN bcQueue : bcQueue[i].topic = "primary" /\ bcQueue[i].alert = a)
    ~> ("primary" \in BcTopics(c, a) \/ c \in bcGone)

(* Each device hears what is meant for it, once, and the one at risk hears *)
(* it for sure.                                                            *)
BcEachHearsItsOwn ==
  /\ [](BcOneVoice /\ BcZoneScoped)
  /\ BcSubjectHears
=============================================================================
