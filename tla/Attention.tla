------------------------------- MODULE Attention -------------------------------
(***************************************************************************)
(* safety/attention.py behind core/pipeline.py: a hazard that a detector   *)
(* raises stays active for a while; every other worker in the picture has  *)
(* to look at it long enough to have noticed it, or is told about it, and  *)
(* told again.  Frames come from one camera, or from several phones that   *)
(* share one pipeline (display/server.py, browser_pipeline): each frame    *)
(* shows the people of one phone, and is judged against every hazard.      *)
(* Where somebody looks is an input.                                       *)
(***************************************************************************)
EXTENDS Tables, Integers, Sequences

CONSTANTS
  AttView,      \* [phone -> the tracks its camera may show]
  AttSubjects,  \* the tracks a detector may raise a hazard about
  AttDwell, AttUnnoticed, AttEscalate, AttTtl,
  AttGaps,      \* times that may pass between two frames
  AttMaxTime    \* bound on the clock

ASSUME AttAssumption ==
  /\ {AttDwell, AttUnnoticed, AttEscalate, AttTtl} \subseteq Nat /\ AttGaps \subseteq Nat
  /\ 0 < AttUnnoticed /\ AttUnnoticed < AttEscalate /\ AttEscalate < AttTtl

\* what is kept of a worker who has a hazard before the eyes
AttRunRecords ==
  [since : Nat, upto : Nat, gaze : Nat \cup {None}, noticed : BOOLEAN,
   told : Seq({"unnoticed", "escalated"})]

ASSUME AttNoRun == None \notin AttRunRecords

VARIABLES
  attNow,       \* the last frame's ts_monotonic
  attActive,    \* the registry: [subject of a hazard -> [id, expires]]
  attMachines,  \* _machines: [<<worker, subject, id>> -> [onset, dwell, state]]
  attEmitted,   \* _emitted: [the same keys -> "unnoticed", "escalated" or "noticed"]
  attRuns       \* since when a worker has had a hazard before the eyes without a gap

attVars == <<attNow, attActive, attMachines, attEmitted, attRuns>>

AttPhoneOf(track) == CHOOSE phone \in DOMAIN AttView : track \in AttView[phone]
AttTracks == UNION {AttView[phone] : phone \in DOMAIN AttView}
AttPairs == {p \in AttTracks \X AttSubjects : p[1] # p[2] /\ AttPhoneOf(p[1]) = AttPhoneOf(p[2])}

AttInit ==
  /\ attNow = 0
  /\ attActive = <<>> /\ attMachines = <<>> /\ attEmitted = <<>>
  /\ attRuns = [p \in AttPairs |-> None]

-----------------------------------------------------------------------------
\* Mutant of AttAdded: a hazard that is raised again gets a new id.
AttAddedAfresh(subject, now) == [id |-> now, expires |-> now + AttTtl]

\* ActiveHazardRegistry.add: the first event's id, a later expiry
AttAdded(subject, now) ==
  [id |-> IF subject \in DOMAIN attActive THEN attActive[subject].id ELSE now,
   expires |-> now + AttTtl]

AttRegistry(raised, now) ==
  LET all == [s \in DOMAIN attActive \cup raised |->
                IF s \in raised THEN AttAdded(s, now) ELSE attActive[s]]
  IN [s \in {s \in DOMAIN all : now <= all[s].expires} |-> all[s]]

\* A new machine, or HazardAttention.update's dwell
AttBefore(key, now) ==
  IF key \in DOMAIN attMachines THEN attMachines[key]
  ELSE [onset |-> now, dwell |-> None, state |-> "passive"]

\* Mutant of AttSettled: having noticed is not the end of it.
AttSettledNever(m, dwell, now) == dwell # None /\ now - dwell >= AttDwell

AttSettled(m, dwell, now) ==
  m.state = "noticed" \/ (dwell # None /\ now - dwell >= AttDwell)

AttUpdated(m, looks, now) ==
  LET dwell == IF ~ looks THEN None ELSE IF m.dwell = None THEN now ELSE m.dwell
  IN [m EXCEPT !.dwell = dwell, !.state =
        IF AttSettled(m, dwell, now) THEN "noticed"
        ELSE IF now - m.onset >= AttEscalate THEN "escalated"
        ELSE IF now - m.onset >= AttUnnoticed THEN "unnoticed"
        ELSE @]

AttSaid(key) == IF key \in DOMAIN attEmitted THEN attEmitted[key] ELSE "nothing"

\* Mutant of AttTells: every frame says it again.
AttTellsAlways(key, state) == state \in {"unnoticed", "escalated"}

\* observe: a transition is told once
AttTells(key, state) == state \in {"unnoticed", "escalated"} /\ state # AttSaid(key)

\* A history of one worker before one hazard, with the frame that continues it
AttRun(p, phone, persons, live, looks, said, now) ==
  LET run == IF attRuns[p] # None THEN attRuns[p]
             ELSE [since |-> now, upto |-> now, gaze |-> None, noticed |-> FALSE, told |-> <<>>]
      gaze == IF p \notin looks THEN None ELSE IF run.gaze = None THEN now ELSE run.gaze
  IN IF p[2] \notin live \/ (AttPhoneOf(p[1]) = phone /\ p[1] \notin persons) THEN None
     ELSE IF AttPhoneOf(p[1]) # phone THEN attRuns[p]
     ELSE [since |-> run.since, upto |-> now, gaze |-> gaze, told |-> run.told \o said[p],
           noticed |-> run.noticed \/ (gaze # None /\ now - gaze >= AttDwell)]

\* who is judged against what: nobody against a hazard of their own
AttJudged(persons, active) ==
  {k \in {<<w, s, active[s].id>> : w \in persons, s \in DOMAIN active} : k[1] # k[2]}

\* Pipeline._process from the registry on, for one frame of one phone
AttFrame(phone, persons, raised, looks, now) ==
  LET active == AttRegistry(raised, now)
      judged == AttJudged(persons, active)
      machines == [k \in judged |->
                     AttUpdated(AttBefore(k, now), <<k[1], k[2]>> \in looks, now)]
      telling == {k \in judged : AttTells(k, machines[k].state)}
      noting == {k \in judged : machines[k].state = "noticed"}
      said == [p \in AttPairs |-> IF \E k \in telling : <<k[1], k[2]>> = p
                 THEN <<machines[<<p[1], p[2], active[p[2]].id>>].state>> ELSE <<>>]
  IN /\ now <= AttMaxTime
     /\ attNow' = now
     /\ attActive' = active
     /\ attMachines' = machines
     /\ attEmitted' = [k \in (DOMAIN attEmitted \cup telling \cup noting) \cap judged |->
                         IF k \in telling \cup noting THEN machines[k].state ELSE attEmitted[k]]
     /\ attRuns' = [p \in AttPairs |->
                      AttRun(p, phone, persons, DOMAIN active, looks, said, now)]

AttNext ==
  \E phone \in DOMAIN AttView, gap \in AttGaps :
    \E persons \in SUBSET AttView[phone] :
      \E raised \in SUBSET (persons \cap AttSubjects),
         looks \in SUBSET {p \in AttPairs : p[1] \in persons} :
        AttFrame(phone, persons, raised, looks, attNow + gap)

AttSpec == AttInit /\ [][AttNext]_attVars

-----------------------------------------------------------------------------
(* "If the hazard persists unnoticed past unnoticed_after_ms it becomes    *)
(* UNNOTICED, and past escalate_after_ms it ESCALATES": a worker who has   *)
(* been in every frame of the camera with an active hazard for that long,  *)
(* and did not look at it, has been told so in the end, however often the  *)
(* hazard was raised again meanwhile.  With two phones that take turns it  *)
(* fails: each frame of one drops the machines of the other's workers.     *)
AttIgnoredIsEscalated ==
  \A p \in AttPairs :
    attRuns[p] # None =>
      (~ attRuns[p].noticed /\ attRuns[p].upto - attRuns[p].since >= AttEscalate
         => "escalated" \in {attRuns[p].told[i] : i \in DOMAIN attRuns[p].told})

(* Nobody is told twice of the same transition, nor that a hazard is       *)
(* unnoticed once it has been escalated.                                   *)
AttNagsAtMostTwice ==
  \A p \in AttPairs :
    attRuns[p] # None =>
      attRuns[p].told \in {<<>>, <<"unnoticed">>, <<"escalated">>, <<"unnoticed", "escalated">>}

(* A worker who has looked at a hazard long enough is left alone with it,  *)
(* looking or not, for as long as both stay in the picture.                *)
AttNoticedStaysQuiet ==
  [][\A p \in AttPairs :
       (attRuns[p] # None /\ attRuns'[p] # None) =>
         (attRuns[p].noticed => attRuns'[p].told = attRuns[p].told)]_attVars

(* Who ignores a hazard is told of it and in the end escalated, once each, *)
(* and who has noticed it is left alone.                                   *)
AttTellsTheUnaware ==
  /\ [](AttIgnoredIsEscalated /\ AttNagsAtMostTwice)
  /\ AttNoticedStaysQuiet
=============================================================================
