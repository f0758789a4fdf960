------------------------------ MODULE EdgeProofs ------------------------------
(***************************************************************************)
(* Theorems about the workers' phones and the sockets the edge serves      *)
(* them on, the detectors of the edge, what it does with the hazards they  *)
(* raise, and the rules of the backend, for any workers, equipment,        *)
(* hazards, frames and times.                                              *)
(***************************************************************************)
EXTENDS RuleFiring, Proximity, EdgeEvents, Inspection, PpeRules, Falls, Attention, WorkerFeeds,
        CameraStreamer, TLAPS

-----------------------------------------------------------------------------
(* Rules: one that matches fires for a subject when it has rested for it.  *)

RuleTypeOK ==
  /\ ruleEnabled \in SUBSET RuleIds
  /\ ruleNow \in Nat
  /\ ruleLast \in [DOMAIN ruleLast -> Nat] /\ DOMAIN ruleLast \subseteq RuleIds \X RuleSubjects
  /\ ruleFired \subseteq RuleIds \X RuleSubjects \X Nat

(* What the cooldown table remembers is the latest firing of each pair: it *)
(* happened, nothing fired after it, and none of the future.               *)
RuleLastIsLatest ==
  /\ \A key \in DOMAIN ruleLast : <<key[1], key[2], ruleLast[key]>> \in ruleFired
  /\ \A f \in ruleFired : /\ <<f[1], f[2]>> \in DOMAIN ruleLast
                          /\ f[3] <= ruleLast[<<f[1], f[2]>>]
                          /\ f[3] <= ruleNow

RuleInv == RuleTypeOK /\ RuleLastIsLatest /\ RuleFiresWhenRested

LEMMA RuleInitInv == RuleInit => RuleInv
BY DEF RuleInit, RuleInv, RuleTypeOK, RuleLastIsLatest, RuleFiresWhenRested,
       RuleOncePerCooldown, RuleNobodyStarves

\* Not cooling down and having rested are the same thing.
LEMMA CoolingIsNotRested ==
  ASSUME RuleInv, NEW r \in RuleIds, NEW s \in RuleSubjects
  PROVE  RuleCooling(r, s) <=> ~ RuleRested(r, s)
<1>1. CASE <<r, s>> \in DOMAIN ruleLast
  <2>1. /\ <<r, s, ruleLast[<<r, s>>]>> \in ruleFired
        /\ ruleLast[<<r, s>>] \in Nat /\ ruleNow \in Nat
    BY <1>1 DEF RuleInv, RuleLastIsLatest, RuleTypeOK
  <2>2. RuleCooling(r, s) => ~ RuleRested(r, s)
    BY <1>1, <2>1, RuleAssumption DEF RuleCooling, RuleKey, RuleRested
  <2>3. ASSUME NEW f \in ruleFired, f[1] = r, f[2] = s, ~ (ruleNow - f[3] >= RuleCooldown)
        PROVE  RuleCooling(r, s)
    <3>1. f[3] \in Nat /\ f[3] <= ruleLast[<<r, s>>]
      BY <2>3 DEF RuleInv, RuleTypeOK, RuleLastIsLatest
    <3>. QED  BY <1>1, <2>1, <2>3, <3>1, RuleAssumption DEF RuleCooling, RuleKey
  <2>. QED  BY <2>2, <2>3 DEF RuleRested
<1>2. CASE <<r, s>> \notin DOMAIN ruleLast
  BY <1>2 DEF RuleCooling, RuleKey, RuleRested, RuleInv, RuleLastIsLatest
<1>. QED  BY <1>1, <1>2

LEMMA EvaluateKeepsInv ==
  ASSUME RuleInv, NEW s \in RuleSubjects, NEW matched \in SUBSET RuleIds, RuleEvaluate(s, matched)
  PROVE  RuleInv'
<1> DEFINE fired == RuleFires(s, matched)
           keys == {<<r, s>> : r \in fired}
<1>1. fired \subseteq RuleIds
  BY DEF RuleFires
<1>2. /\ ruleLast' = [k \in DOMAIN ruleLast \cup keys |-> IF k \in keys THEN ruleNow ELSE ruleLast[k]]
      /\ ruleFired' = ruleFired \cup {<<r, s, ruleNow>> : r \in fired}
      /\ ruleEvent' = [subject |-> s, matched |-> matched, fired |-> fired,
                       due |-> {r \in ruleEnabled \cap matched : RuleRested(r, s)}]
      /\ ruleEnabled' = ruleEnabled /\ ruleNow' = ruleNow
  BY DEF RuleEvaluate, RuleKey
<1>3. \A r \in fired : RuleRested(r, s)
  BY <1>1, CoolingIsNotRested DEF RuleFires
<1>4. RuleTypeOK'
  BY <1>1, <1>2 DEF RuleInv, RuleTypeOK
<1>5. RuleLastIsLatest'
  <2>1. ASSUME NEW key \in DOMAIN ruleLast'
        PROVE  <<key[1], key[2], ruleLast'[key]>> \in ruleFired'
    <3>1. CASE key \in keys
      <4>1. PICK r \in fired : key = <<r, s>>
        BY <3>1
      <4>. QED  BY <1>2, <3>1, <4>1
    <3>2. CASE key \notin keys
      <4>1. key \in DOMAIN ruleLast /\ ruleLast'[key] = ruleLast[key]
        BY <1>2, <2>1, <3>2
      <4>. QED  BY <1>2, <4>1 DEF RuleInv, RuleLastIsLatest
    <3>. QED  BY <3>1, <3>2
  <2>2. ASSUME NEW f \in ruleFired'
        PROVE  <<f[1], f[2]>> \in DOMAIN ruleLast' /\ f[3] <= ruleLast'[<<f[1], f[2]>>] /\ f[3] <= ruleNow'
    <3>1. ruleNow \in Nat /\ ruleNow' = ruleNow
      BY <1>2 DEF RuleInv, RuleTypeOK
    <3>2. CASE f \in ruleFired
      <4>1. <<f[1], f[2]>> \in DOMAIN ruleLast /\ f[3] <= ruleLast[<<f[1], f[2]>>] /\ f[3] <= ruleNow
        BY <3>2 DEF RuleInv, RuleLastIsLatest
      <4>. QED  BY <1>2, <3>1, <4>1
    <3>3. CASE f \notin ruleFired
      <4>1. PICK r \in fired : f = <<r, s, ruleNow>>
        BY <1>2, <2>2, <3>3
      <4>. QED  BY <1>2, <3>1, <4>1
    <3>. QED  BY <3>2, <3>3
  <2>. QED  BY <2>1, <2>2 DEF RuleLastIsLatest
<1>6. RuleOncePerCooldown'
  <2> SUFFICES ASSUME NEW f \in ruleFired', NEW g \in ruleFired', f[1] = g[1], f[2] = g[2], f[3] < g[3]
               PROVE  g[3] - f[3] >= RuleCooldown
    BY DEF RuleOncePerCooldown
  <2>1. CASE f \in ruleFired /\ g \in ruleFired
    BY <2>1 DEF RuleInv, RuleFiresWhenRested, RuleOncePerCooldown
  <2>2. CASE f \in ruleFired /\ g \notin ruleFired
    <3>1. PICK r \in fired : g = <<r, s, ruleNow>>
      BY <1>2, <2>2
    <3>2. f[1] = r /\ f[2] = s
      BY <3>1
    <3>. QED  BY <1>3, <2>2, <3>1, <3>2 DEF RuleRested
  <2>3. CASE f \notin ruleFired
    <3>1. f[3] = ruleNow
      BY <1>2, <2>3
    <3>2. g[3] <= ruleNow
      BY <1>2, <1>5 DEF RuleLastIsLatest
    <3>3. g[3] \in Nat /\ ruleNow \in Nat
      BY <1>2, <1>4 DEF RuleTypeOK
    <3>. QED  BY <3>1, <3>2, <3>3
  <2>. QED  BY <2>1, <2>2, <2>3
<1>7. RuleNobodyStarves'
  <2>1. \A r \in ruleEnabled \cap matched : RuleRested(r, s) => r \in fired
    BY CoolingIsNotRested DEF RuleFires, RuleInv, RuleTypeOK
  <2>. QED  BY <1>2, <2>1 DEF RuleNobodyStarves
<1>. QED  BY <1>4, <1>5, <1>6, <1>7 DEF RuleInv, RuleFiresWhenRested

LEMMA RuleNextInv == RuleInv /\ [RuleNext]_ruleVars => RuleInv'
<1> SUFFICES ASSUME RuleInv, [RuleNext]_ruleVars
             PROVE  RuleInv'
  OBVIOUS
<1> USE DEF RuleInv, RuleTypeOK, RuleLastIsLatest, RuleFiresWhenRested, RuleOncePerCooldown, RuleNobodyStarves
<1>1. ASSUME NEW r \in RuleIds, RuleSwitch(r)
      PROVE  RuleInv'
  BY <1>1 DEF RuleSwitch
<1>2. CASE RuleRestart
  BY <1>2 DEF RuleRestart
<1>3. CASE RuleTick
  BY <1>3 DEF RuleTick
<1>4. CASE UNCHANGED ruleVars
  BY <1>4 DEF ruleVars
<1>. QED  BY <1>1, <1>2, <1>3, <1>4, EvaluateKeepsInv DEF RuleNext

\* For any number of rules, workers and cameras: within one process a matching rule
\* fires for a subject when it has rested for that subject, and never sooner.
THEOREM RulesFireWhenRested == RuleSpec => []RuleFiresWhenRested
<1>1. RuleInv => RuleFiresWhenRested
  BY DEF RuleInv
<1>. QED  BY RuleInitInv, RuleNextInv, <1>1, PTL DEF RuleSpec

-----------------------------------------------------------------------------
(* Proximity: whoever is near some equipment has been warned within the    *)
(* cooldown, and of one kind of equipment once per cooldown.               *)

(* The last report of a kind about a worker is no later than the last      *)
(* report about that worker, and no report is of the future.               *)
ProxInv ==
  /\ proxNow \in Nat
  /\ proxLast \in [DOMAIN proxLast -> Nat] /\ DOMAIN proxLast \subseteq ProxTracks \X ProxKinds
  /\ proxTold \in [DOMAIN proxTold -> Nat]
  /\ \A key \in DOMAIN proxLast : key[1] \in DOMAIN proxTold /\ proxLast[key] <= proxTold[key[1]]
  /\ \A x \in DOMAIN proxTold : proxTold[x] <= proxNow
  /\ proxNear \subseteq ProxTracks
  /\ ProxNearIsTold

LEMMA FrameKeepsInv ==
  ASSUME ProxInv, NEW equipment \in [1..2 -> ProxKinds],
         NEW near \in SUBSET (ProxTracks \X (1..2)), ProxFrame(equipment, near)
  PROVE  ProxInv'
<1> DEFINE close(x) == {i \in DOMAIN equipment : <<x, i>> \in near}
           first(x) == CHOOSE i \in close(x) : \A j \in close(x) : i <= j
           told == {x \in ProxTracks : close(x) # {} /\ ~ ProxCooling(x, equipment[first(x)])}
           keys == {ProxKey(x, equipment[first(x)]) : x \in told}
<1>1. /\ proxLast' = [k \in DOMAIN proxLast \cup keys |-> IF k \in keys THEN proxNow ELSE proxLast[k]]
      /\ proxTold' = [x \in DOMAIN proxTold \cup told |-> IF x \in told THEN proxNow ELSE proxTold[x]]
      /\ proxNear' = {x \in ProxTracks : close(x) # {}}
      /\ proxNow' = proxNow
  BY DEF ProxFrame
<1> HIDE DEF close
<1>2. ASSUME NEW x \in told
      PROVE  first(x) \in DOMAIN equipment /\ equipment[first(x)] \in ProxKinds
  <2>1. close(x) # {} /\ close(x) \subseteq 1..2
    BY DEF close
  <2>2. \E i \in close(x) : \A j \in close(x) : i <= j
    <3>1. CASE 1 \in close(x)
      BY <2>1, <3>1
    <3>2. CASE 1 \notin close(x)
      BY <2>1, <3>2
    <3>. QED  BY <3>1, <3>2
  <2>3. first(x) \in close(x)
    BY <2>2
  <2>. QED  BY <2>3 DEF close
<1>3. keys \subseteq ProxTracks \X ProxKinds /\ \A key \in keys : key[1] \in told
  BY <1>2 DEF ProxKey
<1> HIDE DEF told, keys
<1>4. told \subseteq ProxTracks /\ proxNow \in Nat
  BY DEF told, ProxInv
<1>5. ASSUME NEW key \in DOMAIN proxLast'
      PROVE  key[1] \in DOMAIN proxTold' /\ proxLast'[key] <= proxTold'[key[1]]
  BY <1>1, <1>3, <1>4 DEF ProxInv
<1>6. \A x \in DOMAIN proxTold' : proxTold'[x] <= proxNow'
  BY <1>1, <1>4 DEF ProxInv
<1>7. ProxNearIsTold'
  <2> SUFFICES ASSUME NEW x \in proxNear'
               PROVE  x \in DOMAIN proxTold' /\ proxNow' - proxTold'[x] < ProxCooldown
    BY DEF ProxNearIsTold
  <2>1. CASE x \in told
    BY <1>1, <1>4, <2>1, ProxAssumption
  <2>2. CASE x \notin told
    <3>1. ProxCooling(x, equipment[first(x)])
      BY <1>1, <2>2 DEF told
    <3> DEFINE key == <<x, equipment[first(x)]>>
    <3>2. key \in DOMAIN proxLast /\ proxNow - proxLast[key] < ProxCooldown
      BY <3>1 DEF ProxCooling, ProxKey
    <3>3. key[1] = x
      OBVIOUS
    <3> HIDE DEF key
    <3>4. x \in DOMAIN proxTold /\ proxLast[key] <= proxTold[x] /\ proxLast[key] \in Nat /\ proxTold[x] \in Nat
      BY <3>2, <3>3 DEF ProxInv
    <3>. QED  BY <1>1, <1>4, <2>2, <3>2, <3>4, ProxAssumption
  <2>. QED  BY <2>1, <2>2
<1>8. /\ proxLast' \in [DOMAIN proxLast' -> Nat] /\ DOMAIN proxLast' \subseteq ProxTracks \X ProxKinds
      /\ proxTold' \in [DOMAIN proxTold' -> Nat]
      /\ proxNear' \subseteq ProxTracks /\ proxNow' \in Nat
  BY <1>1, <1>3, <1>4 DEF ProxInv
<1>. QED  BY <1>5, <1>6, <1>7, <1>8 DEF ProxInv

LEMMA ProxNextInv == ProxInv /\ [ProxNext]_proxVars => ProxInv'
<1>1. ASSUME ProxInv, ProxTick
      PROVE  ProxInv'
  BY <1>1 DEF ProxTick, ProxInv, ProxNearIsTold
<1>2. ASSUME ProxInv, UNCHANGED proxVars
      PROVE  ProxInv'
  BY <1>2 DEF proxVars, ProxInv, ProxNearIsTold
<1>. QED  BY <1>1, <1>2, FrameKeepsInv DEF ProxNext

\* A step that reports a kind of equipment again comes a cooldown after the last.
LEMMA NoStormStep ==
  ASSUME ProxInv, [ProxNext]_proxVars, NEW key \in DOMAIN proxLast, proxLast'[key] # proxLast[key]
  PROVE  proxLast'[key] - proxLast[key] >= ProxCooldown
<1>1. PICK equipment \in [1..2 -> ProxKinds], near \in SUBSET (ProxTracks \X (1..2)) :
        ProxFrame(equipment, near)
  BY DEF ProxNext, ProxTick, proxVars
<1> DEFINE close(x) == {i \in DOMAIN equipment : <<x, i>> \in near}
           first(x) == CHOOSE i \in close(x) : \A j \in close(x) : i <= j
           told == {x \in ProxTracks : close(x) # {} /\ ~ ProxCooling(x, equipment[first(x)])}
           keys == {ProxKey(x, equipment[first(x)]) : x \in told}
<1>2. proxLast' = [k \in DOMAIN proxLast \cup keys |-> IF k \in keys THEN proxNow ELSE proxLast[k]]
  BY <1>1 DEF ProxFrame
<1>3. PICK x \in told : key = ProxKey(x, equipment[first(x)])
  BY <1>2
<1>4. ~ (proxNow - proxLast[key] < ProxCooldown)
  BY <1>3 DEF ProxCooling
<1>5. proxLast'[key] = proxNow
  BY <1>2, <1>3
<1>6. proxNow \in Nat /\ proxLast[key] \in Nat
  BY DEF ProxInv
<1>. QED  BY <1>4, <1>5, <1>6, ProxAssumption

\* For any number of workers and any cooldown: everybody in danger is warned, and of
\* one kind of equipment once per cooldown.
THEOREM WarnsInMeasure == ProxSpec => ProxWarnsInMeasure
<1>1. ProxInit => ProxInv
  BY DEF ProxInit, ProxInv, ProxNearIsTold
<1>2. ProxInv => ProxNearIsTold
  BY DEF ProxInv
<1>3. ProxInv /\ [ProxNext]_proxVars
        => [\A key \in DOMAIN proxLast :
              proxLast'[key] # proxLast[key] => proxLast'[key] - proxLast[key] >= ProxCooldown]_proxVars
  BY NoStormStep
<1>. QED  BY <1>1, <1>2, <1>3, ProxNextInv, PTL DEF ProxSpec, ProxWarnsInMeasure, ProxNoStorm

-----------------------------------------------------------------------------
(* Inspection.  That the detector looks in time is not inductive by        *)
(* itself: the frames gone by unlooked-at are at most as many as the index *)
(* is past the last multiple of frame_skip, however the mode was toggled.  *)

LEMMA Remainder ==
  ASSUME NEW k \in Nat \ {0}, NEW i \in Nat
  PROVE  i % k \in 0..(k - 1) /\ i \div k \in Int /\ i = k * (i \div k) + (i % k)
OBVIOUS

LEMMA OneDivision ==
  ASSUME NEW k \in Nat \ {0}, NEW q \in Int, NEW r \in 0..(k - 1),
         NEW a \in Int, NEW b \in 0..(k - 1), k * q + r = k * a + b
  PROVE  r = b
<1>1. k * (q - a) = b - r
  OBVIOUS
<1>2. CASE q - a >= 1
  <2>1. k * (q - a) >= k
    BY <1>2
  <2>. QED  BY <1>1, <2>1
<1>3. CASE q - a <= -1
  <2>1. k * (q - a) <= -k
    BY <1>3
  <2>. QED  BY <1>1, <2>1
<1>4. CASE q = a
  BY <1>4
<1>. QED  BY <1>2, <1>3, <1>4

\* The remainder of the next number is one more, or 0.
LEMMA NextRemainder ==
  ASSUME NEW k \in Nat \ {0}, NEW i \in Nat, (i + 1) % k # 0
  PROVE  (i + 1) % k = (i % k) + 1
<1> DEFINE q == i \div k
           r == i % k
           a == (i + 1) \div k
           b == (i + 1) % k
<1>1. /\ r \in 0..(k - 1) /\ q \in Int /\ i = k * q + r
      /\ b \in 0..(k - 1) /\ a \in Int /\ i + 1 = k * a + b
  BY Remainder
<1>2. b # 0
  OBVIOUS
<1> HIDE DEF q, r, a, b
<1>3. b - 1 \in 0..(k - 1) /\ k * q + r = k * a + (b - 1)
  BY <1>1, <1>2
<1>4. r = b - 1
  BY <1>1, <1>3, OneDivision
<1>5. b = r + 1
  BY <1>1, <1>4
<1>. QED  BY <1>5 DEF b, r

InsInv ==
  /\ insIndex \in Nat /\ insUnseen \in Nat
  /\ insUnseen <= insIndex % InsSkip
  /\ InsOverlayIsTrue

LEMMA InsNextInv == InsInv /\ [InsNext]_insVars => InsInv'
<1> SUFFICES ASSUME InsInv, [InsNext]_insVars
             PROVE  InsInv'
  OBVIOUS
<1> USE InsAssumption DEF InsInv
<1>0. insIndex % InsSkip \in Nat
  BY Remainder
<1>1. ASSUME NEW on \in BOOLEAN, InsSet(on)
      PROVE  InsInv'
  <2>1. insIndex' = insIndex /\ insSeen' = insSeen /\ insUnseen' \in {insUnseen, 0}
    BY <1>1 DEF InsSet
  <2>2. InsOverlayIsTrue'
    BY <1>1 DEF InsSet, InsOverlay, InsOverlayIsTrue
  <2>. QED  BY <1>0, <2>1, <2>2
<1>2. ASSUME NEW defects \in SUBSET Defects, NEW fails \in BOOLEAN, InsUpdate(defects, fails)
      PROVE  InsInv'
  <2>1. InsOverlayIsTrue'
    BY <1>2 DEF InsUpdate, InsOverlayIsTrue
  <2>2. CASE ~ (insEnabled /\ insModel)
    <3>1. insIndex' = insIndex /\ insUnseen' = 0
      BY <1>2, <2>2 DEF InsUpdate
    <3>. QED  BY <1>0, <2>1, <3>1
  <2>3. CASE insEnabled /\ insModel
    <3>1. /\ insIndex' = insIndex + 1
          /\ insUnseen' = IF (insIndex + 1) % InsSkip = 0 THEN 0 ELSE insUnseen + 1
      BY <1>2, <2>3 DEF InsUpdate, InsLooks
    <3>2. (insIndex + 1) % InsSkip \in Nat
      BY Remainder
    <3>3. (insIndex + 1) % InsSkip # 0 => (insIndex + 1) % InsSkip = (insIndex % InsSkip) + 1
      BY NextRemainder
    <3>4. insUnseen' \in Nat /\ insUnseen' <= (insIndex + 1) % InsSkip
      BY <1>0, <3>1, <3>2, <3>3
    <3>. QED  BY <2>1, <3>1, <3>4
  <2>. QED  BY <2>2, <2>3
<1>3. CASE UNCHANGED insVars
  BY <1>3 DEF insVars, InsOverlayIsTrue
<1>. QED  BY <1>1, <1>2, <1>3 DEF InsNext

\* For any stride, classes and cells: while inspection mode is on every stride of frames
\* has one the model looked at, and the overlay shows what it saw there.
THEOREM InspectionSeesAndShows == InsSpec => []InsSeesAndShows
<1>1. InsInit => InsInv
  BY InsAssumption, Remainder DEF InsInit, InsInv, InsOverlayIsTrue
<1>2. InsInv => InsSeesAndShows
  <2> SUFFICES ASSUME InsInv
               PROVE  insUnseen < InsSkip
    BY DEF InsInv, InsSeesAndShows, InsLooksInTime
  <2>1. insIndex % InsSkip \in 0..(InsSkip - 1)
    BY Remainder, InsAssumption DEF InsInv
  <2>. QED  BY <2>1, InsAssumption DEF InsInv
<1>. QED  BY <1>1, <1>2, InsNextInv, PTL DEF InsSpec

-----------------------------------------------------------------------------
(* The hazards of the edge.  Between two steps a hazard that was routed is *)
(* still the head of its frame: EvInv says what its stage stands for.  The *)
(* dispatchers' memory is the time of an alert they let through.           *)

EvShapes ==
  /\ evPath \in {"outbox", "bus", "local"}
  /\ evNow \in Nat /\ evMade \in Seq(EvCategories)
  /\ evFrame \in [Sources -> Seq(Nat)] /\ evPool \in [Sources -> Seq(Nat)]
  /\ DOMAIN evStage = Sources /\ DOMAIN evLast = Sources

\* An empty frame is at its first stage, what is to be queued has an outbox, and what is
\* to be shown has been delivered.
EvStagesMean ==
  \A s \in Sources :
    /\ evFrame[s] = <<>> => evStage[s] = "log"
    /\ evStage[s] = "queue" => evPath = "outbox"
    /\ evStage[s] = "show" => EvDelivered(Head(evFrame[s]))

\* What a dispatcher remembers of a category is when it last let one through.
EvLastIsAdmitted ==
  /\ \A v \in evVerdicts : v.at \in Nat /\ v.at <= evNow /\ v.source \in Sources
  /\ \A s \in Sources : \A c \in DOMAIN evLast[s] :
       \E w \in evVerdicts : w.admitted /\ w.source = s /\ w.cat = c /\ w.at = evLast[s][c]

EvInv == EvShapes /\ EvStagesMean /\ EvLastIsAdmitted /\ EvEveryHazardCounts

\* A step that leaves the alarms alone, and does not stop the clock, keeps their half.
LEMMA AlarmsStay ==
  ASSUME EvInv, UNCHANGED evAlarms, evNow' \in Nat, evNow' >= evNow, evRunning' => evRunning
  PROVE  EvLastIsAdmitted' /\ EvSilenceIsShort'
<1> USE DEF EvInv, EvShapes, EvEveryHazardCounts, evAlarms
<1>1. EvLastIsAdmitted'
  BY DEF EvLastIsAdmitted
<1>2. EvSilenceIsShort'
  BY DEF EvSilenceIsShort
<1>. QED  BY <1>1, <1>2

LEMMA EvDetectKeeps ==
  ASSUME EvInv, NEW s \in Sources, NEW hazards \in EvHazards, EvDetect(s, hazards)
  PROVE  EvInv'
<1> USE DEF EvInv, EvShapes
<1> DEFINE ids == [i \in 1 .. Len(hazards) |-> Len(evMade) + i]
<1>1. hazards \in Seq(EvCategories) /\ Len(hazards) \in Nat \ {0}
  <2>1. ASSUME NEW c \in EvCategories, hazards = <<c>>
        PROVE  hazards \in Seq(EvCategories) /\ Len(hazards) \in Nat \ {0}
    BY <2>1
  <2>2. ASSUME NEW c \in EvCategories, NEW d \in EvCategories, hazards = <<c, d>>
        PROVE  hazards \in Seq(EvCategories) /\ Len(hazards) \in Nat \ {0}
    BY <2>2
  <2>3. \/ \E c \in EvCategories : hazards = <<c>>
        \/ \E c \in EvCategories, d \in EvCategories : hazards = <<c, d>>
    BY DEF EvHazards
  <2>. QED  BY <2>1, <2>2, <2>3
<1>2. /\ evMade' = evMade \o hazards /\ evFrame' = [evFrame EXCEPT ![s] = ids]
      /\ evFrame[s] = <<>> /\ UNCHANGED <<evPath, evNow, evStage, evRunning, evStores, evAlarms, evLost>>
  BY <1>1 DEF EvDetect
<1>3. ids \in Seq(Nat) /\ Len(ids) = Len(hazards) /\ Len(evMade) \in Nat
  BY <1>1
<1>4. EvShapes'
  BY <1>1, <1>2, <1>3 DEF evAlarms
<1>5. EvStagesMean'
  BY <1>1, <1>2, <1>3 DEF EvStagesMean, EvDelivered, evStores, evAlarms
<1>6. EvLastIsAdmitted' /\ EvSilenceIsShort'
  BY <1>2, AlarmsStay
<1>7. EvBusDownIsNoLoss'
  <2> SUFFICES ASSUME NEW id \in DOMAIN evMade'
               PROVE  EvInHand(id)' \/ id \in evBroken \cup evCut \/ EvDelivered(id)
    BY <1>2 DEF EvEveryHazardCounts, EvBusDownIsNoLoss, EvDelivered, evStores, evAlarms, evLost
  <2>1. CASE id \in DOMAIN evMade
    <3>1. ASSUME NEW u \in Sources, NEW i \in DOMAIN evFrame[u], evFrame[u][i] = id
          PROVE  EvInHand(id)'
      <4>1. evFrame[u] # <<>> /\ evFrame'[u] = evFrame[u]
        BY <1>2, <3>1
      <4>. QED  BY <3>1, <4>1 DEF EvInHand
    <3>. QED  BY <2>1, <3>1 DEF EvEveryHazardCounts, EvBusDownIsNoLoss, EvInHand
  <2>2. CASE id \notin DOMAIN evMade
    <3>1. id - Len(evMade) \in 1 .. Len(hazards) /\ id = Len(evMade) + (id - Len(evMade))
      BY <1>1, <1>2, <1>3, <2>2
    <3>2. ids[id - Len(evMade)] = id /\ id - Len(evMade) \in DOMAIN ids
      BY <3>1
    <3>3. evFrame'[s] = ids
      BY <1>2
    <3>4. ids # <<>>
      BY <1>1, <1>3
    <3>. QED  BY <3>2, <3>3, <3>4 DEF EvInHand
  <2>. QED  BY <2>1, <2>2
<1>8. EvCameraStays'
  BY <1>2 DEF EvEveryHazardCounts, EvCameraStays, evLost
<1>. QED  BY <1>4, <1>5, <1>6, <1>7, <1>8 DEF EvEveryHazardCounts

\* A step of the head of a frame to its next stage keeps what is in hand.
LEMMA StagesKeep ==
  ASSUME EvInv, NEW s \in Sources, NEW stage, evFrame[s] # <<>>, EvStaged(s, stage),
         UNCHANGED <<evPath, evNow, evMade, evFrame, evRunning, evLost>>,
         \A id : EvDelivered(id) => EvDelivered(id)',
         stage = "queue" => evPath = "outbox",
         stage = "show" => EvDelivered(Head(evFrame[s]))'
  PROVE  EvStagesMean' /\ EvBusDownIsNoLoss' /\ EvCameraStays'
<1> USE DEF EvInv, EvShapes
<1>1. EvStagesMean'
  <2> SUFFICES ASSUME NEW u \in Sources
               PROVE  /\ evFrame[u] = <<>> => evStage'[u] = "log"
                      /\ evStage'[u] = "queue" => evPath = "outbox"
                      /\ evStage'[u] = "show" => EvDelivered(Head(evFrame[u]))'
    BY DEF EvStagesMean, EvDelivered
  <2>1. CASE u = s
    BY <2>1 DEF EvStaged
  <2>2. CASE u # s
    BY <2>2 DEF EvStaged, EvStagesMean
  <2>. QED  BY <2>1, <2>2
<1>2. EvBusDownIsNoLoss'
  BY DEF EvEveryHazardCounts, EvBusDownIsNoLoss, EvInHand, evLost
<1>3. EvCameraStays'
  BY DEF EvEveryHazardCounts, EvCameraStays, evLost
<1>. QED  BY <1>1, <1>2, <1>3

LEMMA EvStageStepsKeep ==
  ASSUME EvInv, NEW s \in Sources, EvLog(s) \/ EvPublish(s) \/ EvBusFails(s) \/ EvQueue(s)
  PROVE  EvInv'
<1>1. /\ evFrame[s] # <<>>
      /\ UNCHANGED <<evPath, evNow, evMade, evFrame, evRunning, evLost, evAlarms>>
      /\ evQueued \subseteq evQueued' /\ evPublished \subseteq evPublished'
  BY DEF EvLog, EvPublish, EvBusFails, EvQueue, EvHead, evStores
<1>2. EvLastIsAdmitted' /\ EvSilenceIsShort'
  BY <1>1, AlarmsStay DEF EvInv, EvShapes
<1>3. DOMAIN evStage' = Sources
  BY DEF EvInv, EvShapes, EvLog, EvPublish, EvBusFails, EvQueue, EvStaged
<1>4. EvShapes'
  BY <1>1, <1>3 DEF EvInv, EvShapes, evAlarms
<1>5. \A id : EvDelivered(id) => EvDelivered(id)'
  BY <1>1 DEF EvDelivered, evAlarms
<1>6. PICK stage :
        /\ EvStaged(s, stage)
        /\ stage = "queue" => evPath = "outbox"
        /\ stage = "show" => EvDelivered(Head(evFrame[s]))'
  <2>1. CASE EvLog(s)
    BY <2>1 DEF EvLog
  <2>2. CASE EvBusFails(s)
    BY <2>2 DEF EvBusFails
  <2>3. CASE EvQueue(s)
    <3>1. evPath' = "outbox" /\ Head(evFrame'[s]) \in evQueued'
      BY <1>1, <2>3 DEF EvQueue, EvHead, EvInv, EvStagesMean
    <3>2. EvDelivered(Head(evFrame[s]))'
      BY <1>1, <3>1 DEF EvDelivered
    <3>. QED  BY <2>3, <3>2 DEF EvQueue
  <2>4. CASE EvPublish(s)
    <3>1. Head(evFrame'[s]) \in evPublished' /\ evPath # "local"
      BY <1>1, <2>4 DEF EvPublish
    <3>2. CASE evPath = "outbox"
      BY <2>4, <3>2 DEF EvPublish
    <3>3. CASE evPath = "bus"
      <4>1. EvDelivered(Head(evFrame[s]))'
        BY <1>1, <3>1, <3>3 DEF EvDelivered
      <4>. QED  BY <2>4, <3>3, <4>1 DEF EvPublish
    <3>. QED  BY <3>1, <3>2, <3>3 DEF EvInv, EvShapes
  <2>. QED  BY <2>1, <2>2, <2>3, <2>4
<1>. QED  BY <1>1, <1>2, <1>4, <1>5, <1>6, StagesKeep DEF EvInv, EvEveryHazardCounts

\* An exception ends the frame: what was in it counts as cut short.
LEMMA EvRaisedKeeps ==
  ASSUME EvInv, NEW s \in Sources, evFrame[s] # <<>>, EvDiskFails(s) \/ EvBusRaises(s)
  PROVE  EvInv'
<1> USE DEF EvInv, EvShapes
<1> DEFINE frame == {evFrame[s][i] : i \in DOMAIN evFrame[s]}
<1>1. /\ evFrame' = [evFrame EXCEPT ![s] = <<>>] /\ evStage' = [evStage EXCEPT ![s] = "log"]
      /\ evRunning' = (evRunning /\ s # "camera")
      /\ evPool' = IF s = "camera" THEN [evPool EXCEPT ![s] = <<>>] ELSE evPool
      /\ evBroken \subseteq evBroken' /\ evCut \subseteq evCut'
      /\ evBroken' \cup evCut' = evBroken \cup evCut \cup frame
      /\ evPath # "bus" => evBroken' = evBroken \cup frame /\ evCut' = evCut
      /\ UNCHANGED <<evPath, evNow, evMade, evStores, evLast, evSpoken, evVerdicts>>
  BY DEF EvDiskFails, EvBusRaises, EvRaised, EvStaged
<1>2. EvShapes'
  BY <1>1
<1>3. EvStagesMean'
  BY <1>1 DEF EvStagesMean, EvDelivered, evStores
<1>4. EvLastIsAdmitted'
  BY <1>1 DEF EvLastIsAdmitted
<1>5. EvSilenceIsShort'
  <2>1. evRunning' => s # "camera" /\ evRunning
    BY <1>1
  <2>2. s # "camera" => evPool' = evPool
    BY <1>1
  <2>. QED  BY <1>1, <2>1, <2>2 DEF EvEveryHazardCounts, EvSilenceIsShort
<1>6. EvBusDownIsNoLoss'
  <2> SUFFICES ASSUME NEW id \in DOMAIN evMade
               PROVE  EvInHand(id)' \/ id \in evBroken' \cup evCut' \/ EvDelivered(id)
    BY <1>1 DEF EvEveryHazardCounts, EvBusDownIsNoLoss, EvDelivered, evStores
  <2>1. CASE id \in evBroken \cup evCut \/ EvDelivered(id)
    BY <1>1, <2>1
  <2>2. ASSUME NEW u \in Sources, evFrame[u] # <<>>, NEW i \in DOMAIN evFrame[u], evFrame[u][i] = id
        PROVE  EvInHand(id)' \/ id \in evBroken' \cup evCut'
    <3>1. CASE u = s
      BY <1>1, <2>2, <3>1
    <3>2. CASE u # s
      <4>1. evFrame'[u] = evFrame[u]
        BY <1>1, <3>2
      <4>. QED  BY <2>2, <4>1 DEF EvInHand
    <3>. QED  BY <3>1, <3>2
  <2>. QED  BY <2>1, <2>2 DEF EvEveryHazardCounts, EvBusDownIsNoLoss, EvInHand
<1>7. EvCameraStays'
  <2>1. evFrame[s][1] \in frame
    <3>1. 1 \in DOMAIN evFrame[s]
      OBVIOUS
    <3>. QED  BY <3>1
  <2>2. CASE evPath = "bus"
    BY <1>1, <2>1, <2>2 DEF EvCameraStays
  <2>3. CASE evPath # "bus"
    BY <1>1, <2>1, <2>3 DEF EvCameraStays
  <2>. QED  BY <2>2, <2>3
<1>. QED  BY <1>2, <1>3, <1>4, <1>5, <1>6, <1>7 DEF EvEveryHazardCounts

LEMMA EvDispatchKeeps ==
  ASSUME EvInv, NEW s \in Sources, EvDispatch(s)
  PROVE  EvInv'
<1> USE DEF EvInv, EvShapes
<1> DEFINE id == Head(evFrame[s])
           cat == evMade[id]
           admitted == EvQuietFor(s, cat) >= EvCooldown
           verdict == [id |-> id, source |-> s, cat |-> cat, at |-> evNow, admitted |-> admitted]
<1>1. /\ evFrame[s] # <<>> /\ EvStaged(s, "show") /\ evPath = "local"
      /\ evLast' = IF ~ admitted THEN evLast
                   ELSE [evLast EXCEPT ![s] = [c \in DOMAIN evLast[s] \cup {cat} |->
                                                 IF c = cat THEN evNow ELSE evLast[s][c]]]
      /\ evPool' = IF admitted THEN [evPool EXCEPT ![s] = Append(@, id)] ELSE evPool
      /\ evVerdicts' = evVerdicts \cup {verdict}
      /\ UNCHANGED <<evPath, evNow, evMade, evFrame, evRunning, evStores, evSpoken, evLost>>
  BY DEF EvDispatch, EvHead, EvMarked
<1>2. ASSUME ~ admitted
      PROVE  cat \in DOMAIN evLast[s] /\ evNow - evLast[s][cat] < EvCooldown
  <2>1. cat \in DOMAIN evLast[s]
    BY <1>2, EvAssumption DEF EvQuietFor
  <2>2. evLast[s][cat] \in Nat
    BY <2>1 DEF EvLastIsAdmitted
  <2>. QED  BY <1>2, <2>1, <2>2, EvAssumption DEF EvQuietFor
<1> HIDE DEF cat, admitted
<1>3. /\ verdict.id = id /\ verdict.source = s /\ verdict.cat = cat
      /\ verdict.at = evNow /\ verdict.admitted = admitted
  OBVIOUS
<1> HIDE DEF verdict
<1>4. id \in Nat
  BY <1>1
<1> HIDE DEF id
<1>5. EvShapes'
  BY <1>1, <1>4 DEF EvStaged
<1>6. EvStagesMean' /\ EvBusDownIsNoLoss' /\ EvCameraStays'
  <2>1. \A i : EvDelivered(i) => EvDelivered(i)'
    BY <1>1 DEF EvDelivered, evStores
  <2>2. EvDelivered(Head(evFrame[s]))'
    BY <1>1, <1>3 DEF EvDelivered, id
  <2>. QED  BY <1>1, <2>1, <2>2, StagesKeep
<1>7. EvLastIsAdmitted'
  <2>1. \A v \in evVerdicts' : v.at \in Nat /\ v.at <= evNow /\ v.source \in Sources
    BY <1>1, <1>3 DEF EvLastIsAdmitted
  <2>2. ASSUME NEW u \in Sources, NEW c \in DOMAIN evLast'[u]
        PROVE  \E w \in evVerdicts' : w.admitted /\ w.source = u /\ w.cat = c /\ w.at = evLast'[u][c]
    <3>1. CASE admitted /\ u = s /\ c = cat
      <4>1. evLast'[s][cat] = evNow
        BY <1>1, <3>1
      <4>. QED  BY <1>1, <1>3, <3>1, <4>1
    <3>2. CASE ~ (admitted /\ u = s /\ c = cat)
      <4>1. c \in DOMAIN evLast[u] /\ evLast'[u][c] = evLast[u][c]
        BY <1>1, <2>2, <3>2
      <4>2. PICK w \in evVerdicts : w.admitted /\ w.source = u /\ w.cat = c /\ w.at = evLast[u][c]
        BY <4>1 DEF EvLastIsAdmitted
      <4>3. w \in evVerdicts' /\ w.at = evLast'[u][c]
        BY <1>1, <4>1, <4>2
      <4>. QED  BY <4>2, <4>3
    <3>. QED  BY <3>1, <3>2
  <2>. QED  BY <1>1, <2>1, <2>2 DEF EvLastIsAdmitted
<1>8. EvSilenceIsShort'
  <2>1. ASSUME NEW v \in evVerdicts', ~ v.admitted
        PROVE  \E w \in evVerdicts' : w.admitted /\ w.source = v.source /\ w.cat = v.cat
                                        /\ w.at <= v.at /\ v.at - w.at < EvCooldown
    <3>1. CASE v \in evVerdicts
      BY <1>1, <2>1, <3>1 DEF EvEveryHazardCounts, EvSilenceIsShort
    <3>2. CASE v = verdict
      <4>1. cat \in DOMAIN evLast[s] /\ evNow - evLast[s][cat] < EvCooldown
        BY <1>2, <1>3, <2>1, <3>2
      <4>2. PICK w \in evVerdicts : w.admitted /\ w.source = s /\ w.cat = cat /\ w.at = evLast[s][cat]
        BY <4>1 DEF EvLastIsAdmitted
      <4>3. w.at <= evNow
        BY DEF EvLastIsAdmitted
      <4>. QED  BY <1>1, <1>3, <3>2, <4>1, <4>2, <4>3
    <3>. QED  BY <1>1, <2>1, <3>1, <3>2
  <2>2. ASSUME evRunning', NEW v \in evVerdicts', v.admitted
        PROVE  v.id \in evSpoken' \/ \E i \in DOMAIN evPool'[v.source] : evPool'[v.source][i] = v.id
    <3>1. CASE v \in evVerdicts
      <4>1. ASSUME NEW i \in DOMAIN evPool[v.source], evPool[v.source][i] = v.id
            PROVE  i \in DOMAIN evPool'[v.source] /\ evPool'[v.source][i] = v.id
        <5>1. v.source \in Sources
          BY <3>1 DEF EvLastIsAdmitted
        <5>2. CASE v.source = s /\ admitted
          BY <1>1, <1>4, <4>1, <5>1, <5>2
        <5>3. CASE ~ (v.source = s /\ admitted)
          BY <1>1, <4>1, <5>1, <5>3
        <5>. QED  BY <5>2, <5>3
      <4>. QED  BY <1>1, <2>2, <3>1, <4>1 DEF EvEveryHazardCounts, EvSilenceIsShort
    <3>2. CASE v = verdict
      <4>1. admitted /\ evPool' = [evPool EXCEPT ![s] = Append(@, id)]
        BY <1>1, <1>3, <2>2, <3>2
      <4>2. evPool'[s] = Append(evPool[s], id) /\ evPool[s] \in Seq(Nat)
        BY <4>1
      <4>3. /\ Len(evPool[s]) + 1 \in DOMAIN evPool'[s]
            /\ evPool'[s][Len(evPool[s]) + 1] = id
        BY <1>4, <4>2
      <4>. QED  BY <1>3, <3>2, <4>3
    <3>. QED  BY <1>1, <3>1, <3>2
  <2>. QED  BY <2>1, <2>2 DEF EvSilenceIsShort
<1>. QED  BY <1>5, <1>6, <1>7, <1>8 DEF EvEveryHazardCounts

LEMMA EvShowKeeps ==
  ASSUME EvInv, NEW s \in Sources, EvShow(s)
  PROVE  EvInv'
<1> USE DEF EvInv, EvShapes
<1>1. /\ evFrame[s] # <<>> /\ evStage[s] = "show"
      /\ evStage' = [evStage EXCEPT ![s] = "log"]
      /\ evFrame' = [evFrame EXCEPT ![s] = Tail(@)]
      /\ UNCHANGED <<evPath, evNow, evMade, evRunning, evStores, evAlarms, evLost>>
  BY DEF EvShow, EvHead, EvStaged
<1>2. Tail(evFrame[s]) \in Seq(Nat)
  BY <1>1
<1>3. EvShapes'
  BY <1>1, <1>2 DEF evAlarms
<1>4. EvStagesMean'
  BY <1>1 DEF EvStagesMean, EvDelivered, evStores, evAlarms
<1>5. EvLastIsAdmitted' /\ EvSilenceIsShort'
  BY <1>1, AlarmsStay
<1>6. EvBusDownIsNoLoss'
  <2> SUFFICES ASSUME NEW id \in DOMAIN evMade
               PROVE  EvInHand(id)' \/ id \in evBroken \cup evCut \/ EvDelivered(id)
    BY <1>1 DEF EvEveryHazardCounts, EvBusDownIsNoLoss, EvDelivered, evStores, evAlarms, evLost
  <2>1. ASSUME NEW u \in Sources, evFrame[u] # <<>>, NEW i \in DOMAIN evFrame[u], evFrame[u][i] = id
        PROVE  EvInHand(id)' \/ EvDelivered(id)
    <3>1. CASE u # s
      <4>1. evFrame'[u] = evFrame[u]
        BY <1>1, <3>1
      <4>. QED  BY <2>1, <4>1 DEF EvInHand
    <3>2. CASE u = s /\ i = 1
      BY <1>1, <2>1, <3>2 DEF EvStagesMean
    <3>3. CASE u = s /\ i # 1
      <4>1. i - 1 \in DOMAIN Tail(evFrame[s]) /\ Tail(evFrame[s])[i - 1] = id
        BY <1>1, <2>1, <3>3
      <4>2. Tail(evFrame[s]) # <<>> /\ evFrame'[s] = Tail(evFrame[s])
        BY <1>1, <4>1
      <4>. QED  BY <4>1, <4>2 DEF EvInHand
    <3>. QED  BY <3>1, <3>2, <3>3
  <2>. QED  BY <2>1 DEF EvEveryHazardCounts, EvBusDownIsNoLoss, EvInHand
<1>7. EvCameraStays'
  BY <1>1 DEF EvEveryHazardCounts, EvCameraStays, evLost
<1>. QED  BY <1>3, <1>4, <1>5, <1>6, <1>7 DEF EvEveryHazardCounts

LEMMA EvRenderKeeps ==
  ASSUME EvInv, NEW s \in Sources, EvRender(s)
  PROVE  EvInv'
<1> USE DEF EvInv, EvShapes
<1>1. /\ evPool[s] # <<>> /\ evPool' = [evPool EXCEPT ![s] = Tail(@)]
      /\ evSpoken' = evSpoken \cup {Head(evPool[s])}
      /\ UNCHANGED <<evPath, evNow, evMade, evFrame, evStage, evRunning, evStores, evLast,
                     evVerdicts, evLost>>
  BY DEF EvRender
<1>2. Tail(evPool[s]) \in Seq(Nat)
  BY <1>1
<1>3. EvShapes'
  BY <1>1, <1>2
<1>4. EvStagesMean' /\ EvLastIsAdmitted' /\ EvBusDownIsNoLoss' /\ EvCameraStays'
  <2>1. EvStagesMean'
    BY <1>1 DEF EvStagesMean, EvDelivered, evStores
  <2>2. EvLastIsAdmitted'
    BY <1>1 DEF EvLastIsAdmitted
  <2>3. EvBusDownIsNoLoss' /\ EvCameraStays'
    BY <1>1 DEF EvEveryHazardCounts, EvBusDownIsNoLoss, EvInHand, EvCameraStays, EvDelivered,
                evStores, evLost
  <2>. QED  BY <2>1, <2>2, <2>3
<1>5. EvSilenceIsShort'
  <2>1. ASSUME evRunning', NEW v \in evVerdicts, v.admitted
        PROVE  v.id \in evSpoken' \/ \E i \in DOMAIN evPool'[v.source] : evPool'[v.source][i] = v.id
    <3>1. v.source \in Sources
      BY DEF EvLastIsAdmitted
    <3>2. ASSUME NEW i \in DOMAIN evPool[v.source], evPool[v.source][i] = v.id
          PROVE  v.id \in evSpoken' \/ \E j \in DOMAIN evPool'[v.source] : evPool'[v.source][j] = v.id
      <4>1. CASE v.source # s
        BY <1>1, <3>1, <3>2, <4>1
      <4>2. CASE v.source = s /\ i = 1
        BY <1>1, <3>2, <4>2
      <4>3. CASE v.source = s /\ i # 1
        <5>1. i - 1 \in DOMAIN Tail(evPool[s]) /\ Tail(evPool[s])[i - 1] = v.id
          BY <1>1, <3>2, <4>3
        <5>. QED  BY <1>1, <4>3, <5>1
      <4>. QED  BY <4>1, <4>2, <4>3
    <3>. QED  BY <1>1, <2>1, <3>2 DEF EvEveryHazardCounts, EvSilenceIsShort
  <2>. QED  BY <1>1, <2>1 DEF EvEveryHazardCounts, EvSilenceIsShort
<1>. QED  BY <1>3, <1>4, <1>5 DEF EvEveryHazardCounts

LEMMA EvNextInv == EvInv /\ [EvNext]_evVars => EvInv'
<1> SUFFICES ASSUME EvInv, [EvNext]_evVars
             PROVE  EvInv'
  OBVIOUS
<1>1. CASE EvTick \/ UNCHANGED evVars
  <2>1. /\ UNCHANGED <<evPath, evMade, evFrame, evStage, evRunning, evStores, evAlarms, evLost>>
        /\ evNow' \in Nat /\ evNow' >= evNow
    BY <1>1 DEF EvTick, evVars, evStores, evAlarms, evLost, EvInv, EvShapes
  <2>2. EvShapes' /\ EvStagesMean' /\ EvBusDownIsNoLoss' /\ EvCameraStays'
    BY <2>1 DEF EvInv, EvShapes, EvStagesMean, EvEveryHazardCounts, EvBusDownIsNoLoss, EvInHand,
                EvCameraStays, EvDelivered, evStores, evAlarms, evLost
  <2>3. EvLastIsAdmitted' /\ EvSilenceIsShort'
    BY <2>1, AlarmsStay
  <2>. QED  BY <2>2, <2>3 DEF EvInv, EvEveryHazardCounts
<1>2. \A s \in Sources : EvDiskFails(s) \/ EvBusRaises(s) => evFrame[s] # <<>>
  BY DEF EvDiskFails, EvBusRaises, EvHead
<1>. QED
  BY <1>1, <1>2, EvDetectKeeps, EvStageStepsKeep, EvRaisedKeeps, EvDispatchKeeps, EvShowKeeps,
     EvRenderKeeps
  DEF EvNext

\* For any cooldown, frames and failures: whatever the bus did, a hazard that no disk
\* failure cut off is in the outbox or still in hand where there is one; with the bus
\* alone it may be cut off by the bus, with its frame; the camera stops for nothing else;
\* and what a dispatcher keeps quiet follows an alert it let through within the cooldown.
THEOREM EveryHazardAlwaysCounts == EvSpec => []EvEveryHazardCounts
<1>1. EvInit => EvInv
  BY DEF EvInit, EvInv, EvShapes, EvStagesMean, EvLastIsAdmitted, EvEveryHazardCounts,
         EvBusDownIsNoLoss, EvCameraStays, EvSilenceIsShort
<1>2. EvInv => EvEveryHazardCounts
  BY DEF EvInv
<1>. QED  BY <1>1, <1>2, EvNextInv, PTL DEF EvSpec

-----------------------------------------------------------------------------
(* Protective equipment.  The cooldown of the checker is kept per worker   *)
(* and item, so what it remembers is when anybody last heard of it.        *)

PpeInv ==
  /\ ppeNow \in Nat
  /\ ppeLast = ppeTold /\ \A p \in DOMAIN ppeTold : ppeTold[p] \in Nat
  /\ PpeStaysOn

LEMMA PpeNextInv == PpeInv /\ [PpeNext]_ppeVars => PpeInv'
<1> USE DEF PpeInv, PpeStaysOn
<1> SUFFICES ASSUME PpeInv, [PpeNext]_ppeVars
             PROVE  PpeInv'
  OBVIOUS
<1>1. ASSUME NEW named \in SUBSET (PpeItems \cup {PpeUnknown}), NEW on \in SUBSET named,
             PpeSetTracked(named, on)
      PROVE  PpeInv'
  <2>1. on \cap PpeItems = on \ {PpeUnknown}
    BY PpeAssumption
  <2>2. named \cap PpeItems = {} <=> named \subseteq {PpeUnknown}
    BY PpeAssumption
  <2>. QED  BY <1>1, <2>1, <2>2 DEF PpeSetTracked, PpeSelection
<1>2. ASSUME NEW people, NEW boxes, PpeFrame(boxes, people, ppeNow + 1)
      PROVE  PpeInv'
  <2>1. /\ ppeNow + 1 \in Nat
        /\ UNCHANGED <<ppeTracked, ppeWanted>> /\ ppeNow' = ppeNow + 1
    BY <1>2 DEF PpeFrame
  <2>2. PICK told :
          /\ ppeTold' = [p \in DOMAIN ppeTold \cup told |->
                          IF p \in told THEN ppeNow + 1 ELSE ppeTold[p]]
          /\ ppeLast' = [p \in DOMAIN ppeLast \cup {q : q \in told} |->
                          IF p \in {q : q \in told} THEN ppeNow + 1 ELSE ppeLast[p]]
    BY <1>2 DEF PpeFrame, PpeKey
  <2>3. {q : q \in told} = told
    OBVIOUS
  <2>. QED  BY <2>1, <2>2, <2>3
<1>3. CASE PpeFrameFails
  BY <1>3 DEF PpeFrameFails
<1>4. CASE UNCHANGED ppeVars
  BY <1>4 DEF ppeVars
<1>. QED  BY <1>1, <1>2, <1>3, <1>4 DEF PpeNext

\* What the model cannot show on a worker is missing there; what it can show it shows.
LEMMA PpeFrameTells ==
  ASSUME PpeInv, NEW people,
         NEW boxes \in SUBSET PpeBoxes(people),
         PpeFrame(boxes, people, ppeNow + 1)
  PROVE  /\ people # {} => \A b \in boxes : (~ b.ok /\ b.item \in ppeTracked) =>
              /\ <<b.whose, b.item>> \in DOMAIN ppeTold'
              /\ ppeNow' - ppeTold'[<<b.whose, b.item>>] < PpeCooldown
         /\ \A p \in DOMAIN ppeTold' :
              (p \notin DOMAIN ppeTold \/ ppeTold'[p] # ppeTold[p]) =>
                \/ \E b \in boxes : b.whose = p[1] /\ b.item = p[2] /\ ~ b.ok
                \/ /\ PpeLabel(p[2], FALSE) \notin ppeClasses
                   /\ ~ \E b \in boxes : b.item = p[2] /\ p[1] \in b.on
<1> DEFINE able == ppeClasses # None /\ ppeClasses # {} /\ people # {}
           found == IF able THEN PpeExplicit(boxes) \cup PpeInferred(boxes, people) ELSE {}
           told == {p \in found : ~ PpeCooling(p, ppeNow + 1)}
<1>1. /\ ppeNow' = ppeNow + 1 /\ ppeNow \in Nat
      /\ ppeTold' = [p \in DOMAIN ppeTold \cup told |-> IF p \in told THEN ppeNow + 1 ELSE ppeTold[p]]
      /\ \A b \in boxes : PpeLabel(b.item, b.ok) \in ppeClasses
      /\ ppeClasses = None => boxes = {}
  BY DEF PpeFrame, PpeInv
<1>2. ASSUME people # {}, NEW b \in boxes, ~ b.ok, b.item \in ppeTracked
      PROVE  /\ <<b.whose, b.item>> \in DOMAIN ppeTold'
             /\ ppeNow' - ppeTold'[<<b.whose, b.item>>] < PpeCooldown
  <2> DEFINE p == <<b.whose, b.item>>
  <2>1. p \in found
    BY <1>1, <1>2 DEF PpeExplicit
  <2>2. CASE PpeCooling(p, ppeNow + 1)
    <3> HIDE DEF found, p
    <3>1. /\ p \in DOMAIN ppeTold /\ ppeTold[p] \in Nat
          /\ (ppeNow + 1) - ppeTold[p] < PpeCooldown
      BY <2>2 DEF PpeCooling, PpeKey, PpeInv
    <3>2. p \notin told
      BY <2>2
    <3> HIDE DEF told
    <3>3. p \in DOMAIN ppeTold' /\ ppeTold'[p] = ppeTold[p]
      BY <3>1, <3>2, <1>1
    <3>4. ppeNow' - ppeTold'[p] < PpeCooldown
      BY <3>1, <3>3, <1>1, PpeAssumption
    <3>. QED  BY <3>3, <3>4 DEF p
  <2>3. CASE ~ PpeCooling(p, ppeNow + 1)
    <3>1. p \in told
      BY <2>1, <2>3
    <3> HIDE DEF told
    <3>2. ppeTold'[p] = ppeNow' /\ p \in DOMAIN ppeTold'
      BY <3>1, <1>1
    <3>. QED  BY <3>2, <1>1, PpeAssumption
  <2>. QED  BY <2>2, <2>3
<1>3. ASSUME NEW p \in DOMAIN ppeTold', p \notin DOMAIN ppeTold \/ ppeTold'[p] # ppeTold[p]
      PROVE  \/ \E b \in boxes : b.whose = p[1] /\ b.item = p[2] /\ ~ b.ok
             \/ /\ PpeLabel(p[2], FALSE) \notin ppeClasses
                /\ ~ \E b \in boxes : b.item = p[2] /\ p[1] \in b.on
  <2>1. p \in found
    <3>1. p \in told
      <4> HIDE DEF told
      <4>. QED  BY <1>1, <1>3
    <3>. QED  BY <3>1
  <2>2. CASE p \in PpeExplicit(boxes)
    <3>1. PICK b \in boxes : ~ b.ok /\ p = <<b.whose, b.item>>
      BY <2>2 DEF PpeExplicit
    <3>. QED  BY <3>1
  <2>3. CASE p \in PpeInferred(boxes, people)
    <3>1. /\ PpeLabel(p[2], FALSE) \notin ppeClasses
          /\ ~ \E b \in boxes : b.item = p[2] /\ b.ok /\ p[1] \in b.on
      BY <2>3 DEF PpeInferred, PpeAbsenceCounts
    <3>2. ASSUME NEW b \in boxes, p[1] \in b.on, b.item = p[2]
          PROVE  FALSE
      <4>1. b.ok = FALSE
        BY <3>1, <3>2 DEF PpeBoxes
      <4>. QED  BY <4>1, <3>1, <3>2, <1>1
    <3>. QED  BY <3>1, <3>2
  <2>. QED  BY <2>1, <2>2, <2>3
<1> HIDE DEF told
<1>. QED  BY <1>2, <1>3

LEMMA PpeStep ==
  ASSUME PpeInv, [PpeNext]_ppeVars
  PROVE  /\ (ppeNow' # ppeNow /\ ppePeople' # {}) =>
               \A b \in ppeBoxes' : (~ b.ok /\ b.item \in ppeTracked) =>
                 (<<b.whose, b.item>> \in DOMAIN ppeTold'
                    /\ ppeNow' - ppeTold'[<<b.whose, b.item>>] < PpeCooldown)
         /\ \A p \in DOMAIN ppeTold' :
              (p \notin DOMAIN ppeTold \/ ppeTold'[p] # ppeTold[p]) =>
                \/ \E b \in ppeBoxes' : b.whose = p[1] /\ b.item = p[2] /\ ~ b.ok
                \/ /\ PpeLabel(p[2], FALSE) \notin ppeClasses
                   /\ ~ \E b \in ppeBoxes' : b.item = p[2] /\ p[1] \in b.on
<1>1. CASE ppeNow' = ppeNow /\ ppeTold' = ppeTold
  BY <1>1
<1>2. ASSUME NEW people,
             NEW boxes \in SUBSET PpeBoxes(people),
             PpeFrame(boxes, people, ppeNow + 1)
      PROVE  ppeBoxes' = boxes /\ ppePeople' = people
  BY <1>2 DEF PpeFrame
<1>. QED  BY <1>1, <1>2, PpeFrameTells DEF PpeNext, PpeSetTracked, PpeFrameFails, ppeVars

\* For any items, workers and checkpoint: what is tracked and missing is told, with
\* evidence, and what is tracked is what somebody asked for.
THEOREM MissingIsAlwaysTold == PpeSpec => PpeTellsWhatIsMissing
<1>1. PpeInit => PpeInv
  BY DEF PpeInit, PpeInv, PpeStaysOn
<1>2. PpeInv => PpeStaysOn
  BY DEF PpeInv
<1>. QED  BY <1>1, <1>2, PpeNextInv, PpeStep, PTL
          DEF PpeSpec, PpeTellsWhatIsMissing, PpeMissingIsTold, PpeReportsHaveEvidence

-----------------------------------------------------------------------------
(* Falls.  Whoever has a cooldown left has a sample at least as new as the *)
(* last report, so the sample that is too old when a worker is forgotten   *)
(* makes that report too old as well.                                      *)

FallSamples == [t : Nat, y : FallHeights, tilted : BOOLEAN]
FallLatest(samples) == samples[Len(samples)].t

FallShapes ==
  /\ fallNow \in Nat
  /\ DOMAIN fallHistory \subseteq FallTracks \cap DOMAIN fallSeen
  /\ DOMAIN fallLast \cup fallRisk \subseteq DOMAIN fallHistory
  /\ \A x \in DOMAIN fallSeen : fallSeen[x] \in Nat /\ fallSeen[x] <= fallNow
  /\ \A x \in DOMAIN fallHistory :
       /\ fallHistory[x] \in Seq(FallSamples) /\ fallHistory[x] # <<>>
       /\ FallLatest(fallHistory[x]) <= fallSeen[x]

\* A cooldown is of the last report; who was told of and has none is forgotten.
FallLastMeans ==
  /\ \A x \in DOMAIN fallReports : fallReports[x] \in Nat
  /\ \A x \in DOMAIN fallLast :
       /\ x \in DOMAIN fallReports /\ fallReports[x] = fallLast[x]
       /\ fallLast[x] <= FallLatest(fallHistory[x])
  /\ \A x \in DOMAIN fallReports \ DOMAIN fallLast :
       x \in fallAway /\ fallNow - fallReports[x] > FallForget

FallInv == FallShapes /\ FallLastMeans /\ FallForgetsTheGone

LEMMA LatestIsTime ==
  ASSUME NEW samples \in Seq(FallSamples), samples # <<>>
  PROVE  FallLatest(samples) \in Nat
<1>1. Len(samples) \in DOMAIN samples
  OBVIOUS
<1>2. samples[Len(samples)] \in FallSamples
  BY <1>1
<1>. QED  BY <1>2 DEF FallSamples, FallLatest

\* The window of a worker never loses the sample just taken.
LEMMA AppendedIsLatest ==
  ASSUME NEW past \in Seq(FallSamples), NEW sample \in FallSamples,
         NEW track, FallPast(track) = past
  PROVE  LET new == FallAppended(track, sample)
         IN new \in Seq(FallSamples) /\ new # <<>> /\ FallLatest(new) = sample.t
<1> DEFINE all == Append(past, sample)
<1>1. /\ all \in Seq(FallSamples) /\ Len(all) = Len(past) + 1 /\ Len(past) \in Nat
      /\ all[Len(all)] = sample
  OBVIOUS
<1>2. CASE Len(all) > FallBuffer
  <2>1. FallAppended(track, sample) = Tail(all)
    BY <1>2 DEF FallAppended
  <2>2. /\ Tail(all) \in Seq(FallSamples) /\ Len(Tail(all)) = Len(past) /\ Len(past) >= 1
        /\ Tail(all)[Len(past)] = all[Len(past) + 1]
    <3> HIDE DEF all
    <3>. QED  BY <1>1, <1>2, FallAssumption
  <2>. QED  BY <2>1, <2>2, <1>1 DEF FallLatest
<1>3. CASE ~ (Len(all) > FallBuffer)
  <2>1. FallAppended(track, sample) = all
    BY <1>3 DEF FallAppended
  <2>. QED  BY <2>1, <1>1 DEF FallLatest
<1>. QED  BY <1>2, <1>3

\* One frame: the invariant holds after it, and the reports it makes are apart.
LEMMA FallFrameKeeps ==
  ASSUME FallInv, NEW gap \in FallGaps, NEW inPicture \in SUBSET FallTracks,
         NEW shown \in [inPicture -> FallTorsos], FallFrame(shown, fallNow + gap)
  PROVE  /\ FallInv'
         /\ \A x \in DOMAIN fallReports : fallReports'[x] # fallReports[x] =>
              \/ fallReports'[x] - fallReports[x] >= FallCooldown
              \/ x \in fallAway /\ fallReports'[x] - fallReports[x] > FallForget
<1> DEFINE now == fallNow + gap
           clear == {x \in DOMAIN shown : shown[x] # None}
           history == [x \in DOMAIN fallHistory \cup clear |->
                         IF x \in clear THEN FallAppended(x, [t |-> now, y |-> shown[x].y,
                                                              tilted |-> shown[x].tilted])
                         ELSE fallHistory[x]]
           reported == {x \in clear : FallDetected(history[x]) /\ ~ FallCooling(x, now)}
           last == [x \in DOMAIN fallLast \cup reported |->
                      IF x \in reported THEN now ELSE fallLast[x]]
           gone == FallForgotten(history, DOMAIN shown, now)
<1>1. /\ fallNow \in Nat /\ gap \in Nat /\ now \in Nat /\ now >= fallNow
      /\ FallCooldown \in Nat /\ FallForget \in Nat
  BY FallAssumption DEF FallInv, FallShapes
<1>2. clear \subseteq inPicture /\ DOMAIN shown = inPicture /\ reported \subseteq clear
  OBVIOUS
<1>3. ASSUME NEW x \in DOMAIN history
      PROVE  /\ history[x] \in Seq(FallSamples) /\ history[x] # <<>>
             /\ FallLatest(history[x]) \in Nat
             /\ x \in clear => FallLatest(history[x]) = now
             /\ x \notin clear => x \in DOMAIN fallHistory /\ history[x] = fallHistory[x]
  <2>1. CASE x \in clear
    <3> DEFINE sample == [t |-> now, y |-> shown[x].y, tilted |-> shown[x].tilted]
    <3>1. shown[x] \in [y : FallHeights, tilted : BOOLEAN]
      BY <2>1 DEF FallTorsos
    <3>2. sample \in FallSamples /\ sample.t = now
      BY <3>1, <1>1 DEF FallSamples
    <3>3. FallPast(x) \in Seq(FallSamples)
      BY DEF FallPast, FallInv, FallShapes
    <3>4. history[x] = FallAppended(x, sample)
      BY <2>1
    <3> HIDE DEF sample, history
    <3>. QED  BY <3>2, <3>3, <3>4, <2>1, <1>1, AppendedIsLatest
  <2>2. CASE x \notin clear
    <3>1. x \in DOMAIN fallHistory /\ history[x] = fallHistory[x]
      BY <2>2
    <3> HIDE DEF history
    <3>2. history[x] \in Seq(FallSamples) /\ history[x] # <<>>
      BY <3>1 DEF FallInv, FallShapes
    <3>3. FallLatest(history[x]) \in Nat
      BY <3>2, LatestIsTime
    <3>. QED  BY <3>1, <3>2, <3>3, <2>2
  <2>. QED  BY <2>1, <2>2
<1>4. DOMAIN history = DOMAIN fallHistory \cup clear
  OBVIOUS
<1>5. gone = {x \in DOMAIN history \ inPicture : now - FallLatest(history[x]) > FallForget}
  BY <1>2 DEF FallForgotten, FallLatest
<1>6. \A x \in reported : x \in clear /\ (x \in DOMAIN fallLast => now - fallLast[x] >= FallCooldown)
  <2> SUFFICES ASSUME NEW x \in reported, x \in DOMAIN fallLast
               PROVE  now - fallLast[x] >= FallCooldown
    BY <1>2
  <2>1. fallLast[x] \in Nat
    BY DEF FallInv, FallLastMeans
  <2>. QED  BY <2>1, <1>1 DEF FallCooling
<1>7. /\ fallNow' = now
      /\ fallHistory' = [x \in DOMAIN history \ gone |-> history[x]]
      /\ fallLast' = [x \in DOMAIN last \ gone |-> last[x]]
      /\ fallRisk' = (fallRisk \cup clear) \ gone
      /\ fallReports' = [x \in DOMAIN fallReports \cup reported |->
                           IF x \in reported THEN now ELSE fallReports[x]]
      /\ fallAway' = (fallAway \cup (FallTracks \ inPicture)) \ reported
      /\ fallSeen' = [x \in DOMAIN fallSeen \cup inPicture |->
                        IF x \in inPicture THEN now ELSE fallSeen[x]]
  BY <1>2 DEF FallFrame
<1>8. /\ DOMAIN last = DOMAIN fallLast \cup reported
      /\ \A x \in reported : last[x] = now
      /\ \A x \in DOMAIN fallLast \ reported : last[x] = fallLast[x]
  <2> HIDE DEF reported
  <2>. QED  OBVIOUS
<1> HIDE DEF now, clear, history, reported, last, gone
<1> USE DEF FallInv
<1>9. FallShapes'
  <2>1. DOMAIN fallHistory' = DOMAIN history \ gone
        /\ DOMAIN fallSeen' = DOMAIN fallSeen \cup inPicture
    BY <1>7
  <2>2. DOMAIN fallHistory' \subseteq FallTracks \cap DOMAIN fallSeen'
    BY <2>1, <1>2, <1>4 DEF FallShapes
  <2>3. DOMAIN fallLast' \cup fallRisk' \subseteq DOMAIN fallHistory'
    BY <2>1, <1>7, <1>8, <1>2, <1>4 DEF FallShapes
  <2>4. \A x \in DOMAIN fallSeen' : fallSeen'[x] \in Nat /\ fallSeen'[x] <= fallNow'
    BY <1>7, <1>1 DEF FallShapes
  <2>5. ASSUME NEW x \in DOMAIN fallHistory'
        PROVE  /\ fallHistory'[x] \in Seq(FallSamples) /\ fallHistory'[x] # <<>>
               /\ FallLatest(fallHistory'[x]) <= fallSeen'[x]
    <3>1. x \in DOMAIN history /\ fallHistory'[x] = history[x]
      BY <2>1, <1>7
    <3>2. CASE x \in clear
      BY <3>1, <3>2, <1>2, <1>3, <1>7, <1>1
    <3>3. CASE x \notin clear
      <4>1. FallLatest(fallHistory[x]) <= fallSeen[x] /\ fallSeen[x] \in Nat /\ x \in DOMAIN fallSeen
            /\ history[x] = fallHistory[x] /\ FallLatest(history[x]) \in Nat
        BY <3>1, <3>3, <1>3 DEF FallShapes
      <4>2. fallSeen'[x] = fallSeen[x] \/ fallSeen'[x] = now
        BY <4>1, <1>7
      <4>3. CASE fallSeen'[x] = fallSeen[x]
        BY <4>1, <4>3, <3>1, <1>3
      <4>4. FallLatest(fallHistory[x]) <= now
        BY <4>1, <1>1, <3>3, <1>3, <3>1 DEF FallShapes
      <4>. QED  BY <4>1, <4>2, <4>3, <4>4, <3>1, <1>3
    <3>. QED  BY <3>2, <3>3
  <2>. QED  BY <2>2, <2>3, <2>4, <2>5, <1>1, <1>7 DEF FallShapes
<1>10. ASSUME NEW x \in DOMAIN fallReports, x \notin DOMAIN fallLast
       PROVE  x \in fallAway /\ now - fallReports[x] > FallForget /\ fallReports[x] \in Nat
  BY <1>1, <1>10 DEF FallLastMeans
<1>11. ASSUME NEW x \in DOMAIN fallLast
       PROVE  /\ x \in DOMAIN fallReports /\ fallReports[x] = fallLast[x] /\ fallLast[x] \in Nat
              /\ x \in DOMAIN history /\ fallLast[x] <= FallLatest(history[x])
              /\ fallLast[x] <= fallNow
              /\ x \in inPicture \/ x \in FallTracks \ inPicture
  <2>1. /\ x \in DOMAIN fallReports /\ fallReports[x] = fallLast[x] /\ fallLast[x] \in Nat
        /\ x \in DOMAIN fallHistory /\ fallLast[x] <= FallLatest(fallHistory[x])
        /\ x \in FallTracks
    BY <1>11 DEF FallLastMeans, FallShapes
  <2>2. /\ FallLatest(fallHistory[x]) <= fallSeen[x] /\ fallSeen[x] <= fallNow /\ fallSeen[x] \in Nat
        /\ FallLatest(fallHistory[x]) \in Nat
    BY <2>1, LatestIsTime DEF FallShapes
  <2>3. fallLast[x] <= fallNow
    BY <2>1, <2>2, <1>1
  <2>. QED  BY <2>1, <2>2, <2>3, <1>3, <1>4, <1>1
<1>12. FallLastMeans'
  <2>1. \A x \in DOMAIN fallReports' : fallReports'[x] \in Nat
    BY <1>7, <1>1 DEF FallLastMeans
  <2>2. ASSUME NEW x \in DOMAIN fallLast'
        PROVE  /\ x \in DOMAIN fallReports' /\ fallReports'[x] = fallLast'[x]
               /\ fallLast'[x] <= FallLatest(fallHistory'[x])
    <3>1. /\ x \in DOMAIN last /\ x \notin gone /\ fallLast'[x] = last[x]
      BY <1>7
    <3>2. CASE x \in reported
      <4>1. last[x] = now /\ x \in clear /\ x \in DOMAIN history
        BY <3>2, <1>2, <1>4, <1>8
      <4>2. fallHistory'[x] = history[x] /\ FallLatest(history[x]) = now
        BY <4>1, <3>1, <1>3, <1>7
      <4>. QED  BY <4>1, <4>2, <3>1, <3>2, <1>1, <1>7
    <3>3. CASE x \notin reported
      <4>1. x \in DOMAIN fallLast /\ last[x] = fallLast[x]
        BY <3>1, <3>3, <1>8
      <4>2. fallHistory'[x] = history[x]
        BY <4>1, <3>1, <1>11, <1>7
      <4>. QED  BY <4>1, <4>2, <3>1, <3>3, <1>11, <1>7
    <3>. QED  BY <3>2, <3>3
  <2>3. ASSUME NEW x \in DOMAIN fallReports' \ DOMAIN fallLast'
        PROVE  x \in fallAway' /\ fallNow' - fallReports'[x] > FallForget
    <3>1. x \notin reported
      <4>1. x \in reported => x \in DOMAIN last /\ x \in inPicture
        BY <1>2, <1>8
      <4>. QED  BY <4>1, <1>5, <1>7
    <3>2. x \in DOMAIN fallReports /\ fallReports'[x] = fallReports[x]
      BY <3>1, <1>7
    <3>3. CASE x \in DOMAIN fallLast
      <4>1. x \in gone
        BY <3>3, <1>7, <1>8
      <4>2. x \in DOMAIN history \ inPicture /\ now - FallLatest(history[x]) > FallForget
        BY <4>1, <1>5
      <4>3. now - fallReports[x] > FallForget
        BY <4>2, <3>3, <1>11, <1>1, <1>3
      <4>. QED  BY <4>2, <4>3, <3>1, <3>2, <3>3, <1>11, <1>7
    <3>4. CASE x \notin DOMAIN fallLast
      BY <3>1, <3>2, <3>4, <1>10, <1>7
    <3>. QED  BY <3>3, <3>4
  <2>. QED  BY <2>1, <2>2, <2>3 DEF FallLastMeans
<1>13. FallForgetsTheGone'
  <2> SUFFICES ASSUME NEW x \in DOMAIN fallSeen', fallNow' - fallSeen'[x] > FallForget
               PROVE  x \notin DOMAIN fallHistory'
    BY <1>9 DEF FallForgetsTheGone, FallShapes
  <2>1. x \notin inPicture /\ x \in DOMAIN fallSeen /\ fallSeen'[x] = fallSeen[x]
    BY <1>1, <1>7
  <2>2. CASE x \in DOMAIN history
    <3>1. x \notin clear
      BY <2>1, <1>2
    <3>2. FallLatest(history[x]) <= fallSeen[x] /\ fallSeen[x] \in Nat /\ FallLatest(history[x]) \in Nat
      BY <3>1, <2>1, <2>2, <1>3 DEF FallShapes
    <3>3. x \in gone
      BY <3>2, <2>1, <2>2, <1>1, <1>5, <1>7
    <3>. QED  BY <3>3, <1>7
  <2>. QED  BY <2>2, <1>7
<1>14. ASSUME NEW x \in DOMAIN fallReports, fallReports'[x] # fallReports[x]
       PROVE  \/ fallReports'[x] - fallReports[x] >= FallCooldown
              \/ x \in fallAway /\ fallReports'[x] - fallReports[x] > FallForget
  <2>1. x \in reported /\ fallReports'[x] = now
    BY <1>14, <1>7
  <2>. QED  BY <2>1, <1>6, <1>10, <1>11
<1>. QED  BY <1>9, <1>12, <1>13, <1>14

\* For any workers, buffers and times: who is gone is forgotten, and two reports of one
\* worker are a cooldown apart while the worker stays in the picture; after an absence
\* they are only the forget time apart.
THEOREM FallsRememberTheSeen == FallSpec => FallRemembersTheSeen
<1>1. FallInit => FallInv
  BY DEF FallInit, FallInv, FallShapes, FallLastMeans, FallForgetsTheGone
<1>2. FallInv /\ [FallNext]_fallVars => FallInv'
  <2>1. FallInv /\ FallNext => FallInv'
    BY FallFrameKeeps DEF FallNext
  <2>2. FallInv /\ UNCHANGED fallVars => FallInv'
    BY DEF FallInv, FallShapes, FallLastMeans, FallForgetsTheGone, fallVars
  <2>. QED  BY <2>1, <2>2
<1>3. FallInv /\ [FallNext]_fallVars =>
        \A x \in DOMAIN fallReports : fallReports'[x] # fallReports[x] =>
          \/ fallReports'[x] - fallReports[x] >= FallCooldown
          \/ x \in fallAway /\ fallReports'[x] - fallReports[x] > FallForget
  BY FallFrameKeeps DEF FallNext, fallVars
<1>4. FallInv => FallForgetsTheGone
  BY DEF FallInv
<1>. QED  BY <1>1, <1>2, <1>3, <1>4, PTL DEF FallSpec, FallRemembersTheSeen, FallReportsAreApart

-----------------------------------------------------------------------------
(* Attention.  With one phone every frame continues the machines of all    *)
(* who are in it, so a machine and what was emitted of it say exactly how  *)
(* long its worker has had the hazard before the eyes and what was told.   *)

AttState(run) ==
  IF run.noticed THEN "noticed"
  ELSE IF run.upto - run.since >= AttEscalate THEN "escalated"
  ELSE IF run.upto - run.since >= AttUnnoticed THEN "unnoticed"
  ELSE "passive"

\* What a worker has heard by the time the machine is in a state.
AttTold(state) ==
  CASE state = "passive" -> {<<>>}
    [] state = "unnoticed" -> {<<"unnoticed">>}
    [] state = "escalated" -> {<<"escalated">>, <<"unnoticed", "escalated">>}
    [] OTHER -> {<<>>, <<"unnoticed">>, <<"escalated">>, <<"unnoticed", "escalated">>}

AttMachineOf(run) == [onset |-> run.since, dwell |-> run.gaze, state |-> AttState(run)]
AttSaidOf(run) == IF AttState(run) = "passive" THEN "nothing" ELSE AttState(run)

AttKey(p) == <<p[1], p[2], attActive[p[2]].id>>

AttInv(phone) ==
  /\ attNow \in Nat
  /\ DOMAIN attActive \subseteq AttView[phone] \cap AttSubjects
  /\ DOMAIN attEmitted \subseteq DOMAIN attMachines
  /\ \A k \in DOMAIN attMachines :
       /\ k[2] \in DOMAIN attActive /\ k = AttKey(<<k[1], k[2]>>)
       /\ <<k[1], k[2]>> \in AttPairs /\ attRuns[<<k[1], k[2]>>] # None
  /\ \A p \in AttPairs : attRuns[p] # None =>
       /\ attRuns[p] \in AttRunRecords /\ attRuns[p].told \in AttTold(AttState(attRuns[p]))
       /\ attRuns[p].upto = attNow
       /\ p[2] \in DOMAIN attActive /\ AttKey(p) \in DOMAIN attMachines
       /\ attMachines[AttKey(p)] = AttMachineOf(attRuns[p])
       /\ AttSaid(AttKey(p)) = AttSaidOf(attRuns[p])

LEMMA UnnoticedThenEscalated == <<"unnoticed">> \o <<"escalated">> = <<"unnoticed", "escalated">>
<1> DEFINE s == <<"unnoticed">> \o <<"escalated">>
<1> DEFINE both == {"unnoticed", "escalated"}
<1>1. <<"unnoticed">> \in Seq(both) /\ <<"escalated">> \in Seq(both)
  OBVIOUS
<1>2. s \in Seq(both) /\ Len(s) = 2
  BY <1>1
<1>3. s[1] = "unnoticed" /\ s[2] = "escalated"
  BY <1>1
<1> HIDE DEF s
<1>4. s = <<"unnoticed", "escalated">>
  BY <1>2, <1>3
<1>. QED  BY <1>4 DEF s

LEMMA ToldOf ==
  /\ AttTold("passive") = {<<>>} /\ AttTold("unnoticed") = {<<"unnoticed">>}
  /\ AttTold("escalated") = {<<"escalated">>, <<"unnoticed", "escalated">>}
BY DEF AttTold

\* What a frame makes of a run: how long it is looked at, what is told, the run it leaves.
AttGazeNow(run, looks, now) ==
  IF ~ looks THEN None ELSE IF run.gaze = None THEN now ELSE run.gaze

AttNews(run, state) ==
  IF state \in {"unnoticed", "escalated"} /\ state # AttSaidOf(run) THEN <<state>> ELSE <<>>

AttContinued(run, looks, now) ==
  LET gaze == AttGazeNow(run, looks, now)
  IN [since |-> run.since, upto |-> now, gaze |-> gaze,
      told |-> run.told \o AttNews(run, AttUpdated(AttMachineOf(run), looks, now).state),
      noticed |-> run.noticed \/ (gaze # None /\ now - gaze >= AttDwell)]

\* A frame that continues a run takes the machine of the run where the run is.
LEMMA MachineFollows ==
  ASSUME NEW run \in AttRunRecords, run.told \in AttTold(AttState(run)),
         NEW now \in Nat, run.upto <= now, NEW looks \in BOOLEAN
  PROVE  LET next == AttContinued(run, looks, now)
         IN /\ next \in AttRunRecords /\ next.told \in AttTold(AttState(next)) /\ next.upto = now
            /\ AttUpdated(AttMachineOf(run), looks, now) = AttMachineOf(next)
            /\ run.noticed => next.told = run.told
            /\ AttState(next) = "passive" => AttState(run) = "passive"
<1> DEFINE gaze == AttGazeNow(run, looks, now)
           new == AttUpdated(AttMachineOf(run), looks, now)
           said == AttNews(run, new.state)
           next == AttContinued(run, looks, now)
<1>1. /\ run.since \in Nat /\ run.upto \in Nat /\ run.gaze \in Nat \cup {None} /\ run.noticed \in BOOLEAN
      /\ run.told \in Seq({"unnoticed", "escalated"})
      /\ {AttDwell, AttUnnoticed, AttEscalate} \subseteq Nat
  BY AttAssumption DEF AttRunRecords
<1>2. /\ next.since = run.since /\ next.upto = now /\ next.gaze = gaze /\ next.told = run.told \o said
      /\ next.noticed = (run.noticed \/ (gaze # None /\ now - gaze >= AttDwell))
      /\ next = [since |-> run.since, upto |-> now, gaze |-> gaze, told |-> run.told \o said,
                 noticed |-> run.noticed \/ (gaze # None /\ now - gaze >= AttDwell)]
  BY DEF AttContinued
<1>3. /\ AttState(run) = "noticed" <=> run.noticed
      /\ AttState(run) \in {"noticed", "escalated", "unnoticed", "passive"}
      /\ ~ run.noticed => /\ AttState(run) = "escalated" <=> run.upto - run.since >= AttEscalate
                          /\ AttState(run) = "passive" <=> run.upto - run.since < AttUnnoticed
  BY <1>1, AttAssumption DEF AttState
<1>4. new = [onset |-> run.since, dwell |-> gaze, state |->
               IF run.noticed \/ (gaze # None /\ now - gaze >= AttDwell) THEN "noticed"
               ELSE IF now - run.since >= AttEscalate THEN "escalated"
               ELSE IF now - run.since >= AttUnnoticed THEN "unnoticed"
               ELSE AttState(run)]
  <2> DEFINE m == AttMachineOf(run)
  <2>1. m.onset = run.since /\ m.dwell = run.gaze /\ m.state = AttState(run)
        /\ DOMAIN m = {"onset", "dwell", "state"}
    BY DEF AttMachineOf
  <2> HIDE DEF m
  <2>2. new = [m EXCEPT !.dwell = gaze, !.state =
                 IF AttSettled(m, gaze, now) THEN "noticed"
                 ELSE IF now - m.onset >= AttEscalate THEN "escalated"
                 ELSE IF now - m.onset >= AttUnnoticed THEN "unnoticed"
                 ELSE m.state]
    BY <2>1 DEF AttUpdated, AttGazeNow, m
  <2>3. AttSettled(m, gaze, now) <=> run.noticed \/ (gaze # None /\ now - gaze >= AttDwell)
    BY <2>1, <1>3 DEF AttSettled
  <2> HIDE DEF new, gaze
  <2>. QED  BY <2>1, <2>2, <2>3
<1>said. said = IF new.state \in {"unnoticed", "escalated"} /\ new.state # AttSaidOf(run)
             THEN <<new.state>> ELSE <<>>
  BY DEF AttNews
<1> HIDE DEF next, new, said
<1>5. new = AttMachineOf(next) /\ new.state = AttState(next)
  <2>1. ~ (now - run.since >= AttEscalate) /\ ~ (now - run.since >= AttUnnoticed) /\ ~ run.noticed
          => AttState(run) = "passive"
    BY <1>1, <1>3
  <2>2. AttState(next) = (IF run.noticed \/ (gaze # None /\ now - gaze >= AttDwell) THEN "noticed"
               ELSE IF now - run.since >= AttEscalate THEN "escalated"
               ELSE IF now - run.since >= AttUnnoticed THEN "unnoticed"
               ELSE AttState(run))
    BY <2>1, <1>2 DEF AttState
  <2>. QED  BY <2>2, <1>2, <1>4 DEF AttMachineOf
<1>6. run.noticed => new.state = "noticed" /\ said = <<>>
  BY <1>said, <1>4
<1>7. run.told \o <<>> = run.told
  BY <1>1
<1>8. next.told \in AttTold(AttState(next))
  <2>1. CASE AttState(next) = "noticed"
    <3>1. next.told = run.told
      BY <2>1, <1>said, <1>2, <1>5, <1>7
    <3>. QED  BY <2>1, <3>1, <1>1, <1>3 DEF AttTold
  <2>2. CASE AttState(next) = AttState(run)
    <3>1. next.told = run.told
      BY <2>2, <1>said, <1>2, <1>5, <1>7 DEF AttSaidOf
    <3>. QED  BY <2>2, <3>1, <1>1
  <2>3. CASE AttState(run) = "passive" /\ AttState(next) \in {"unnoticed", "escalated"}
    <3>1. run.told = <<>> /\ said = <<AttState(next)>>
      BY <2>3, <1>said, <1>5 DEF AttTold, AttSaidOf
    <3>2. next.told = <<AttState(next)>>
      BY <3>1, <2>3, <1>2
    <3>. QED  BY <2>3, <3>2, ToldOf, <1>2
  <2>4. CASE AttState(run) = "unnoticed" /\ AttState(next) = "escalated"
    <3>1. run.told = <<"unnoticed">> /\ said = <<"escalated">>
      BY <2>4, <1>said, <1>5 DEF AttTold, AttSaidOf
    <3>2. next.told = <<"unnoticed", "escalated">>
      BY <3>1, <1>2, UnnoticedThenEscalated
    <3>. QED  BY <2>4, <3>2, ToldOf
  <2>5. \/ AttState(next) \in {"noticed", AttState(run)}
        \/ AttState(run) = "passive" /\ AttState(next) \in {"unnoticed", "escalated"}
        \/ AttState(run) = "unnoticed" /\ AttState(next) = "escalated"
    <3>1. ~ next.noticed => ~ run.noticed /\ now - run.since >= run.upto - run.since
      BY <1>1, <1>2
    <3>. QED  BY <3>1, <1>1, <1>2, <1>3, AttAssumption DEF AttState
  <2>. QED  BY <2>1, <2>2, <2>3, <2>4, <2>5
<1>9. next \in AttRunRecords
  <2> DEFINE both == {"unnoticed", "escalated"}
  <2>1. said \in Seq(both)
    <3>1. CASE new.state \in both
      <4> DEFINE state == new.state
      <4>1. state \in both
        BY <3>1
      <4>2. said = <<state>> \/ said = <<>>
        BY <1>said
      <4> HIDE DEF state
      <4>3. <<state>> \in Seq(both) /\ <<>> \in Seq(both)
        BY <4>1
      <4>. QED  BY <4>2, <4>3
    <3>2. CASE new.state \notin both
      BY <3>2, <1>said
    <3>. QED  BY <3>1, <3>2
  <2>2. next.told \in Seq(both)
    BY <2>1, <1>1, <1>2
  <2>3. gaze \in Nat \cup {None} /\ (run.noticed \/ (gaze # None /\ now - gaze >= AttDwell)) \in BOOLEAN
    BY <1>1 DEF AttGazeNow
  <2>. QED  BY <2>2, <2>3, <1>1, <1>2 DEF AttRunRecords
<1>10. run.noticed => next.told = run.told
  BY <1>2, <1>6, <1>7
<1>11. AttState(next) = "passive" => AttState(run) = "passive"
  BY <1>1, <1>2, AttAssumption DEF AttState
<1>. QED  BY <1>2, <1>5, <1>8, <1>9, <1>10, <1>11 DEF next, new

\* One frame of the only phone: the invariant holds after it, and nobody who has
\* noticed a hazard is told of it.
LEMMA AttFrameKeeps ==
  ASSUME NEW phone, DOMAIN AttView = {phone}, AttInv(phone),
         NEW gap \in AttGaps, NEW persons \in SUBSET AttView[phone],
         NEW raised \in SUBSET (persons \cap AttSubjects), NEW looks,
         AttFrame(phone, persons, raised, looks, attNow + gap)
  PROVE  /\ AttInv(phone)'
         /\ \A p \in AttPairs : (attRuns[p] # None /\ attRuns'[p] # None) =>
              (attRuns[p].noticed => attRuns'[p].told = attRuns[p].told)
<1> DEFINE now == attNow + gap
           active == AttRegistry(raised, now)
           judged == AttJudged(persons, active)
           machines == [k \in judged |-> AttUpdated(AttBefore(k, now), <<k[1], k[2]>> \in looks, now)]
           telling == {k \in judged : AttTells(k, machines[k].state)}
           noting == {k \in judged : machines[k].state = "noticed"}
           said == [p \in AttPairs |-> IF \E k \in telling : <<k[1], k[2]>> = p
                      THEN <<machines[<<p[1], p[2], active[p[2]].id>>].state>> ELSE <<>>]
<1>runs. attRuns' = [p \in AttPairs |->
                    AttRun(p, phone, persons, DOMAIN active, looks, said, now)]
  BY DEF AttFrame
<1>1. attNow' = now /\ attActive' = active /\ attMachines' = machines
  BY DEF AttFrame
<1>emitted. attEmitted' = [k \in (DOMAIN attEmitted \cup telling \cup noting) \cap judged |->
                        IF k \in telling \cup noting THEN machines[k].state ELSE attEmitted[k]]
  BY DEF AttFrame
<1>2. now \in Nat /\ attNow \in Nat /\ attNow <= now
  BY AttAssumption DEF AttInv
\* Who is in a picture at all is in one of this phone.
<1>3. \A w \in AttView[phone] : AttPhoneOf(w) = phone /\ w \in AttTracks
  BY DEF AttPhoneOf, AttTracks
<1>4. /\ DOMAIN active \subseteq AttView[phone] \cap AttSubjects
      /\ \A s \in DOMAIN active \cap DOMAIN attActive : active[s].id = attActive[s].id
  <2>1. DOMAIN active \subseteq DOMAIN attActive \cup raised
    BY DEF AttRegistry
  <2>2. \A s \in DOMAIN active \cap DOMAIN attActive : active[s].id = attActive[s].id
    BY DEF AttRegistry, AttAdded
  <2>. QED  BY <2>1, <2>2 DEF AttInv
<1> HIDE DEF active, now
<1>5. \A k \in judged : /\ k[1] \in persons /\ k[2] \in DOMAIN active /\ k[1] # k[2]
                        /\ k = <<k[1], k[2], active[k[2]].id>>
  BY DEF AttJudged
<1>6. \A w \in persons, s \in DOMAIN active : w # s => <<w, s, active[s].id>> \in judged
  BY DEF AttJudged
<1>7. \A k \in judged : machines[k] = AttUpdated(AttBefore(k, now), <<k[1], k[2]>> \in looks, now)
  OBVIOUS
<1>8. DOMAIN machines = judged
  OBVIOUS
<1> HIDE DEF judged, machines
<1>9. ASSUME NEW p \in AttPairs
      PROVE  /\ p[1] \in AttView[phone] /\ p[1] # p[2] /\ AttPhoneOf(p[1]) = phone /\ p = <<p[1], p[2]>>
  BY <1>3 DEF AttPairs, AttTracks
<1> DEFINE inFrame(p) == p[1] \in persons /\ p[2] \in DOMAIN active
           key(p) == <<p[1], p[2], active[p[2]].id>>
           fresh == [since |-> now, upto |-> now, gaze |-> None, noticed |-> FALSE, told |-> <<>>]
           run(p) == IF attRuns[p] # None THEN attRuns[p] ELSE fresh
<1>10. ASSUME NEW p \in AttPairs, ~ inFrame(p)
       PROVE  attRuns'[p] = None
  BY <1>runs, <1>9, <1>10 DEF AttRun
<1>11. /\ fresh \in AttRunRecords /\ fresh.told = <<>> /\ fresh.upto = now
       /\ AttState(fresh) = "passive" /\ AttSaidOf(fresh) = "nothing"
       /\ AttMachineOf(fresh) = [onset |-> now, dwell |-> None, state |-> "passive"]
  <2>1. fresh.noticed = FALSE /\ fresh.upto = now /\ fresh.since = now /\ fresh.gaze = None
        /\ fresh.told = <<>>
    OBVIOUS
  <2>2. fresh \in AttRunRecords
    BY <1>2 DEF AttRunRecords
  <2> HIDE DEF fresh
  <2>3. AttState(fresh) = "passive"
    BY <2>1, <1>2, AttAssumption DEF AttState
  <2>. QED  BY <2>1, <2>2, <2>3 DEF AttSaidOf, AttMachineOf
<1> HIDE DEF fresh
\* A run goes on under the key its machine has; a new one has no machine yet.
<1>12. ASSUME NEW p \in AttPairs, inFrame(p)
       PROVE  /\ run(p) \in AttRunRecords /\ run(p).told \in AttTold(AttState(run(p)))
              /\ run(p).upto <= now
              /\ AttBefore(key(p), now) = AttMachineOf(run(p)) /\ AttSaid(key(p)) = AttSaidOf(run(p))
  <2>1. CASE attRuns[p] # None
    <3>1. /\ attRuns[p] \in AttRunRecords /\ attRuns[p].told \in AttTold(AttState(attRuns[p]))
          /\ attRuns[p].upto = attNow
          /\ p[2] \in DOMAIN attActive /\ AttKey(p) \in DOMAIN attMachines
          /\ attMachines[AttKey(p)] = AttMachineOf(attRuns[p])
          /\ AttSaid(AttKey(p)) = AttSaidOf(attRuns[p])
      BY <2>1 DEF AttInv
    <3>2. key(p) = AttKey(p)
      BY <3>1, <1>4, <1>12 DEF AttKey
    <3>. QED  BY <2>1, <3>1, <3>2, <1>2 DEF AttBefore
  <2>2. CASE attRuns[p] = None
    <3>1. key(p)[1] = p[1] /\ key(p)[2] = p[2] /\ p = <<p[1], p[2]>>
      BY <1>9
    <3>2. key(p) \notin DOMAIN attMachines
      <4> HIDE DEF key
      <4>. QED  BY <2>2, <3>1 DEF AttInv
    <3>3. key(p) \notin DOMAIN attEmitted
      BY <3>2 DEF AttInv
    <3>. QED  BY <2>2, <3>2, <3>3, <1>2, <1>11, ToldOf DEF AttBefore, AttSaid
  <2>. QED  BY <2>1, <2>2
<1> HIDE DEF run
<1>13. ASSUME NEW p \in AttPairs, inFrame(p)
       PROVE  /\ key(p) \in judged
              /\ machines[key(p)] = AttUpdated(AttMachineOf(run(p)), p \in looks, now)
              /\ said[p] = IF machines[key(p)].state \in {"unnoticed", "escalated"}
                               /\ machines[key(p)].state # AttSaidOf(run(p))
                           THEN <<machines[key(p)].state>> ELSE <<>>
  <2>1. key(p) \in judged /\ key(p)[1] = p[1] /\ key(p)[2] = p[2] /\ p = <<p[1], p[2]>>
    BY <1>6, <1>9, <1>13
  <2>2. machines[key(p)] = AttUpdated(AttMachineOf(run(p)), p \in looks, now)
    <3>1. machines[key(p)] = AttUpdated(AttBefore(key(p), now), <<key(p)[1], key(p)[2]>> \in looks, now)
      BY <2>1, <1>7
    <3>2. <<key(p)[1], key(p)[2]>> = p
      BY <2>1
    <3>. QED  BY <3>1, <3>2, <1>12, <1>13
  <2>3. (\E k \in telling : <<k[1], k[2]>> = p) <=> key(p) \in telling
    <3>1. ASSUME NEW k \in telling, <<k[1], k[2]>> = p
          PROVE  k = key(p)
      BY <3>1, <1>5, <2>1
    <3>. QED  BY <3>1, <2>1
  <2>4. said[p] = IF key(p) \in telling THEN <<machines[key(p)].state>> ELSE <<>>
    BY <2>3
  <2>5. key(p) \in telling <=> /\ machines[key(p)].state \in {"unnoticed", "escalated"}
                               /\ machines[key(p)].state # AttSaidOf(run(p))
    BY <2>1, <1>12, <1>13 DEF AttTells
  <2>. QED  BY <2>1, <2>2, <2>4, <2>5
<1>14. ASSUME NEW p \in AttPairs, inFrame(p)
       PROVE  /\ attRuns'[p] \in AttRunRecords /\ attRuns'[p].told \in AttTold(AttState(attRuns'[p]))
              /\ attRuns'[p].upto = now
              /\ machines[key(p)] = AttMachineOf(attRuns'[p])
              /\ run(p).noticed => attRuns'[p].told = run(p).told
              /\ AttState(attRuns'[p]) = "passive" => AttState(run(p)) = "passive"
  <2> DEFINE looking == p \in looks
             next == AttContinued(run(p), looking, now)
  <2>1. attRuns'[p] = next
    <3>1. attRuns'[p] = AttRun(p, phone, persons, DOMAIN active, looks, said, now)
      BY <1>runs
    <3>2. said[p] = AttNews(run(p), AttUpdated(AttMachineOf(run(p)), looking, now).state)
      BY <1>13, <1>14 DEF AttNews
    <3> HIDE DEF said
    <3>. QED  BY <3>1, <3>2, <1>9, <1>14 DEF AttRun, run, fresh, AttContinued, AttGazeNow
  <2>2. looking \in BOOLEAN
    OBVIOUS
  <2>3. machines[key(p)] = AttUpdated(AttMachineOf(run(p)), looking, now)
    BY <1>13, <1>14
  <2> HIDE DEF said, looking, key
  <2>4. PICK r : r = run(p)
    OBVIOUS
  <2>5. /\ next \in AttRunRecords /\ next.told \in AttTold(AttState(next)) /\ next.upto = now
        /\ AttUpdated(AttMachineOf(r), looking, now) = AttMachineOf(next)
        /\ r.noticed => next.told = r.told
        /\ AttState(next) = "passive" => AttState(r) = "passive"
    BY <2>2, <2>4, <1>2, <1>12, <1>14, MachineFollows
  <2>. QED  BY <2>1, <2>3, <2>4, <2>5
<1> HIDE DEF said
<1>15. ASSUME NEW p \in AttPairs, inFrame(p)
       PROVE  AttSaidOf(attRuns'[p])
                = IF key(p) \in DOMAIN attEmitted' THEN attEmitted'[key(p)] ELSE "nothing"
  <2> DEFINE k == key(p)
             state == machines[key(p)].state
  <2>1. k \in judged /\ state = AttState(attRuns'[p])
    <3>1. machines[k] = AttMachineOf(attRuns'[p]) /\ k \in judged
      BY <1>13, <1>14, <1>15
    <3> HIDE DEF k
    <3>. QED  BY <3>1 DEF AttMachineOf, k
  <2>2. /\ AttSaid(k) = AttSaidOf(run(p))
        /\ AttState(attRuns'[p]) = "passive" => AttState(run(p)) = "passive"
    BY <1>12, <1>14, <1>15
  <2>3. /\ k \in DOMAIN attEmitted' <=> k \in DOMAIN attEmitted \/ k \in telling \/ k \in noting
        /\ k \in telling \cup noting => attEmitted'[k] = state
        /\ k \in DOMAIN attEmitted /\ k \notin telling \cup noting => attEmitted'[k] = attEmitted[k]
    <3> HIDE DEF k, telling, noting
    <3>1. DOMAIN attEmitted' = (DOMAIN attEmitted \cup telling \cup noting) \cap judged
      BY <1>emitted
    <3>. QED  BY <3>1, <2>1, <1>emitted DEF k
  <2>4. /\ k \in telling <=> state \in {"unnoticed", "escalated"} /\ state # AttSaid(k)
        /\ k \in noting <=> state = "noticed"
    <3> HIDE DEF k
    <3>. QED  BY <2>1 DEF AttTells, k
  <2>5. state \in {"noticed", "escalated", "unnoticed", "passive"}
    BY <2>1 DEF AttState
  <2> HIDE DEF k, state, telling, noting
  <2>6. AttSaidOf(attRuns'[p]) = IF state = "passive" THEN "nothing" ELSE state
    BY <2>1 DEF AttSaidOf
  <2>7. CASE k \in telling \cup noting
    BY <2>3, <2>4, <2>6, <2>7 DEF k
  <2>8. CASE k \notin telling \cup noting /\ state = "passive"
    BY <2>1, <2>2, <2>3, <2>6, <2>8 DEF k, AttSaid, AttSaidOf
  <2>9. CASE k \notin telling \cup noting /\ state # "passive"
    BY <2>3, <2>4, <2>5, <2>6, <2>9 DEF k, AttSaid
  <2>. QED  BY <2>7, <2>8, <2>9
<1> HIDE DEF telling, noting
<1>16. \A p \in AttPairs : attRuns'[p] # None => inFrame(p)
  BY <1>10
<1>17. AttInv(phone)'
  <2>1. attNow' \in Nat /\ DOMAIN attActive' \subseteq AttView[phone] \cap AttSubjects
    BY <1>1, <1>2, <1>4
  <2>2. DOMAIN attEmitted' \subseteq DOMAIN attMachines'
    BY <1>1, <1>8, <1>emitted
  <2>3. ASSUME NEW k \in DOMAIN attMachines'
        PROVE  /\ k[2] \in DOMAIN attActive' /\ k = AttKey(<<k[1], k[2]>>)'
               /\ <<k[1], k[2]>> \in AttPairs /\ attRuns'[<<k[1], k[2]>>] # None
    <3>1. k \in judged
      BY <1>1, <1>8
    <3>2. /\ k[1] \in persons /\ k[2] \in DOMAIN active /\ k[1] # k[2]
          /\ k = <<k[1], k[2], active[k[2]].id>>
      BY <3>1, <1>5
    <3>3. PICK w, s : w = k[1] /\ s = k[2]
      OBVIOUS
    <3>4. w \in AttTracks /\ s \in AttSubjects /\ AttPhoneOf(w) = phone /\ AttPhoneOf(s) = phone
      BY <3>2, <3>3, <1>3, <1>4
    <3>5. <<w, s>> \in AttPairs
      BY <3>2, <3>3, <3>4 DEF AttPairs
    <3>6. attRuns'[<<w, s>>] \in AttRunRecords
      BY <3>2, <3>3, <3>5, <1>14
    <3>7. k = AttKey(<<w, s>>)'
      BY <3>2, <3>3, <1>1 DEF AttKey
    <3>. QED  BY <3>2, <3>3, <3>5, <3>6, <3>7, <1>1, AttNoRun DEF AttRunRecords
  <2>4. ASSUME NEW p \in AttPairs, attRuns'[p] # None
        PROVE  /\ attRuns'[p] \in AttRunRecords /\ attRuns'[p].told \in AttTold(AttState(attRuns'[p]))
               /\ attRuns'[p].upto = attNow'
               /\ p[2] \in DOMAIN attActive' /\ AttKey(p)' \in DOMAIN attMachines'
               /\ attMachines'[AttKey(p)'] = AttMachineOf(attRuns'[p])
               /\ AttSaid(AttKey(p))' = AttSaidOf(attRuns'[p])
    <3>1. inFrame(p)
      BY <2>4, <1>16
    <3>2. AttKey(p)' = key(p)
      BY <1>1 DEF AttKey
    <3>3. AttSaid(AttKey(p))' = IF key(p) \in DOMAIN attEmitted' THEN attEmitted'[key(p)] ELSE "nothing"
      BY <3>2 DEF AttSaid
    <3> HIDE DEF key
    <3>. QED  BY <3>1, <3>2, <3>3, <1>1, <1>8, <1>13, <1>14, <1>15
  <2>. QED  BY <2>1, <2>2, <2>3, <2>4 DEF AttInv
<1>18. ASSUME NEW p \in AttPairs, attRuns[p] # None, attRuns'[p] # None, attRuns[p].noticed
       PROVE  attRuns'[p].told = attRuns[p].told
  BY <1>18, <1>14, <1>16 DEF run
<1>. QED  BY <1>17, <1>18

\* For any workers and times, one phone: who ignores a hazard long enough is told and in
\* the end escalated, once each, and who has noticed it is left alone.
THEOREM TheUnawareAreTold ==
  ASSUME NEW CONSTANT phone, DOMAIN AttView = {phone}
  PROVE  AttSpec => AttTellsTheUnaware
<1>1. AttInit => AttInv(phone)
  BY DEF AttInit, AttInv
<1>2. AttInv(phone) /\ [AttNext]_attVars =>
        /\ AttInv(phone)'
        /\ \A p \in AttPairs : (attRuns[p] # None /\ attRuns'[p] # None) =>
             (attRuns[p].noticed => attRuns'[p].told = attRuns[p].told)
  <2> SUFFICES ASSUME AttInv(phone), [AttNext]_attVars
               PROVE  /\ AttInv(phone)'
                      /\ \A p \in AttPairs : (attRuns[p] # None /\ attRuns'[p] # None) =>
                           (attRuns[p].noticed => attRuns'[p].told = attRuns[p].told)
    OBVIOUS
  <2>1. CASE AttNext
    BY <2>1, AttFrameKeeps DEF AttNext
  <2>2. CASE UNCHANGED attVars
    BY <2>2 DEF attVars, AttInv, AttKey, AttSaid
  <2>. QED  BY <2>1, <2>2
<1>3. AttInv(phone) => AttIgnoredIsEscalated /\ AttNagsAtMostTwice
  <2> SUFFICES ASSUME AttInv(phone), NEW p \in AttPairs, attRuns[p] # None
               PROVE  /\ ~ attRuns[p].noticed /\ attRuns[p].upto - attRuns[p].since >= AttEscalate
                           => "escalated" \in {attRuns[p].told[i] : i \in DOMAIN attRuns[p].told}
                      /\ attRuns[p].told \in {<<>>, <<"unnoticed">>, <<"escalated">>,
                                              <<"unnoticed", "escalated">>}
    BY DEF AttIgnoredIsEscalated, AttNagsAtMostTwice
  <2>1. attRuns[p].told \in AttTold(AttState(attRuns[p]))
    BY DEF AttInv
  <2>2. attRuns[p].told \in {<<>>, <<"unnoticed">>, <<"escalated">>, <<"unnoticed", "escalated">>}
    BY <2>1 DEF AttTold
  <2>3. ASSUME ~ attRuns[p].noticed, attRuns[p].upto - attRuns[p].since >= AttEscalate
        PROVE  "escalated" \in {attRuns[p].told[i] : i \in DOMAIN attRuns[p].told}
    <3>1. attRuns[p].told \in {<<"escalated">>, <<"unnoticed", "escalated">>}
      BY <2>1, <2>3, ToldOf DEF AttState
    <3>2. CASE attRuns[p].told = <<"escalated">>
      <4>1. 1 \in DOMAIN attRuns[p].told /\ attRuns[p].told[1] = "escalated"
        BY <3>2
      <4>. QED  BY <4>1
    <3>3. CASE attRuns[p].told = <<"unnoticed", "escalated">>
      <4>1. 2 \in DOMAIN attRuns[p].told /\ attRuns[p].told[2] = "escalated"
        BY <3>3
      <4>. QED  BY <4>1
    <3>. QED  BY <3>1, <3>2, <3>3
  <2>. QED  BY <2>2, <2>3
<1>. QED  BY <1>1, <1>2, <1>3, PTL DEF AttSpec, AttTellsTheUnaware, AttNoticedStaysQuiet

-----------------------------------------------------------------------------
(* A worker's phone: WorkerFeeds, the server's end of its sockets, and     *)
(* CameraStreamer, the phone's.                                            *)

LEMMA NoFeedIsNoFrame == NoFeed \in Nat /\ NoFeed \notin 0..MaxFrames
BY LinkAssumption DEF NoFeed

\* The phones' steps keep the types of what they share with the server.
LEMMA LinkTyped ==
  ASSUME LinkTypeOK, LinkNext
  PROVE  LinkTypeOK'
<1> USE LinkAssumption DEF LinkTypeOK, Frames
<1>1. PICK c \in Conns : Connect(c) \/ Send(c) \/ HangUp(c) \/ Lose(c)
  BY DEF LinkNext
<1>2. CASE Connect(c)
  BY <1>2 DEF Connect, Unused
<1>3. CASE Send(c)
  <2>1. captured' \in Frames
    BY <1>3 DEF Send
  <2>2. Append(wire[c], captured') \in Seq(Frames)
    BY <2>1
  <2>. QED  BY <1>3, <2>1, <2>2 DEF Send
<1>4. CASE HangUp(c)
  BY <1>4 DEF HangUp
<1>5. CASE Lose(c)
  BY <1>5 DEF Lose
<1>. QED  BY <1>1, <1>2, <1>3, <1>4, <1>5

\* What the handler of a socket does to the types of the server's state.
LEMMA HandlerTyped ==
  ASSUME TypeOK, NEW c \in Conns, Handler(c) \/ Accept(c), UNCHANGED linkVars
  PROVE  TypeOK'
<1> USE LinkAssumption, NoFeedIsNoFrame
    DEF TypeOK, LinkTypeOK, linkVars, Serving, Goto, Replied
<1>1. CASE Accept(c)      BY <1>1 DEF Accept
<1>2. CASE Refuse(c)      BY <1>2 DEF Refuse
<1>3. CASE Open(c)        BY <1>3 DEF Open
<1>4. CASE Take(c)        BY <1>4 DEF Take
<1>5. CASE Drained(c)     BY <1>5 DEF Drained
<1>6. CASE Undecodable(c) BY <1>6 DEF Undecodable
<1>7. CASE Decoded(c)     BY <1>7 DEF Decoded
<1>8. CASE Infer(c)       BY <1>8 DEF Infer
<1>9. CASE Inferred(c)    BY <1>9 DEF Inferred
<1>10. CASE InferenceFails(c) BY <1>10 DEF InferenceFails
<1>11. CASE Publish(c)    BY <1>11 DEF Publish
<1>12. CASE Reply(c)      BY <1>12 DEF Reply
<1>13. CASE Close(c)      BY <1>13 DEF Close
<1>. QED
  BY <1>1, <1>2, <1>3, <1>4, <1>5, <1>6, <1>7, <1>8, <1>9, <1>10, <1>11,
     <1>12, <1>13 DEF Handler

\* The oldest frame of a wire is a frame, and so is the rest of the wire.
LEMMA WireHead ==
  ASSUME LinkTypeOK, NEW c \in Conns, wire[c] # << >>
  PROVE  Head(wire[c]) \in Frames /\ Tail(wire[c]) \in Seq(Frames)
BY DEF LinkTypeOK

LEMMA ReaderTyped ==
  ASSUME TypeOK, NEW c \in Conns, ReaderStep(c)
  PROVE  TypeOK'
<1> USE LinkAssumption DEF TypeOK, LinkTypeOK, Frames
<1>1. CASE Receive(c) /\ wire' = [wire EXCEPT ![c] = Tail(@)]
  <2>1. Head(wire[c]) \in Frames /\ Tail(wire[c]) \in Seq(Frames)
    BY <1>1, WireHead DEF Receive
  <2>2. wire' \in [Conns -> Seq(Frames)]
    BY <1>1, <2>1
  <2>3. {slot', received'} \subseteq [Conns -> 0..MaxFrames]
    BY <1>1, <2>1 DEF Receive, PutFrame
  <2>. QED  BY <1>1, <2>2, <2>3 DEF Receive, ReaderStep
<1>2. CASE ReaderEnds(c) /\ UNCHANGED wire
  BY <1>2 DEF ReaderEnds, ReaderStep
<1>. QED  BY <1>1, <1>2 DEF ReaderStep, Reader

\* Every variable of the server keeps its type.
THEOREM FeedsTypeCorrect == Spec => []TypeOK
<1>1. Init => TypeOK
  BY LinkAssumption, NoFeedIsNoFrame
  DEF Init, LinkInit, TypeOK, LinkTypeOK, Serving, NoFeed
<1>2. TypeOK /\ [Next]_vars => TypeOK'
  <2> SUFFICES ASSUME TypeOK, [Next]_vars
               PROVE  TypeOK'
    OBVIOUS
  <2>1. CASE LinkNext /\ UNCHANGED serverVars
    <3>1. LinkTypeOK'
      BY <2>1, LinkTyped DEF TypeOK
    <3>. QED  BY <2>1, <3>1 DEF TypeOK, serverVars
  <2>2. ASSUME NEW c \in Conns,
               (Accept(c) /\ UNCHANGED linkVars) \/ HandlerStep(c)
        PROVE  TypeOK'
    BY <2>2, HandlerTyped DEF HandlerStep
  <2>3. ASSUME NEW c \in Conns, ReaderStep(c)
        PROVE  TypeOK'
    BY <2>3, ReaderTyped
  <2>4. CASE UNCHANGED vars
    BY <2>4 DEF vars, linkVars, serverVars, TypeOK, LinkTypeOK
  <2>. QED  BY <2>1, <2>2, <2>3, <2>4 DEF Next
<1>. QED  BY <1>1, <1>2, PTL DEF Spec

----------------------------------------------------------------------------
(* NoGhostFeed is inductive on top of the types: only Close and Refuse     *)
(* leave Serving, Close takes the feed along, and a socket that is refused *)
(* was not serving.                                                        *)

LEMMA StaysServing ==
  ASSUME TypeOK, NoGhostFeed, feed' = feed, NEW c \in Conns, NEW s \in Serving,
         pc' = [pc EXCEPT ![c] = s]
  PROVE  NoGhostFeed'
<1> SUFFICES ASSUME feed # NoFeed
             PROVE  \E d \in Conns : pc'[d] \in Serving
  BY DEF NoGhostFeed, NoFeed
<1>. QED  BY DEF TypeOK

LEMMA HandlerKeepsNoGhost ==
  ASSUME TypeOK, NoGhostFeed, NEW c \in Conns, Accept(c) \/ Handler(c)
  PROVE  NoGhostFeed'
<1> USE DEF Goto, Replied
<1>1. {"waiting", "decoding", "queued", "inferring", "encoding", "replying",
       "closing"} \subseteq Serving
  BY DEF Serving
<1>2. ASSUME feed' = feed, NEW s, pc' = [pc EXCEPT ![c] = s],
             pc[c] \notin Serving
      PROVE  NoGhostFeed'
  <2> SUFFICES ASSUME feed # NoFeed
               PROVE  \E d \in Conns : pc'[d] \in Serving
    BY <1>2 DEF NoGhostFeed, NoFeed
  <2>1. PICK d \in Conns : pc[d] \in Serving
    BY DEF NoGhostFeed
  <2>. QED  BY <1>2, <2>1 DEF TypeOK
<1>3. CASE Accept(c)      BY <1>2, <1>3 DEF Accept, Serving
<1>4. CASE Refuse(c)      BY <1>2, <1>4 DEF Refuse, Serving
<1>5. CASE Open(c)
  BY <1>1, <1>5 DEF Open, NoGhostFeed, TypeOK
<1>6. CASE Take(c)        BY <1>1, <1>6, StaysServing DEF Take
<1>7. CASE Drained(c)     BY <1>1, <1>7, StaysServing DEF Drained
<1>8. CASE Undecodable(c) BY <1>1, <1>8, StaysServing DEF Undecodable
<1>9. CASE Decoded(c)     BY <1>1, <1>9, StaysServing DEF Decoded
<1>10. CASE Infer(c)      BY <1>1, <1>10, StaysServing DEF Infer
<1>11. CASE Inferred(c)   BY <1>1, <1>11, StaysServing DEF Inferred
<1>12. CASE InferenceFails(c)
  BY <1>1, <1>12, StaysServing DEF InferenceFails
<1>13. CASE Publish(c)
  BY <1>1, <1>13 DEF Publish, NoGhostFeed, TypeOK
<1>14. CASE Reply(c)      BY <1>1, <1>14, StaysServing DEF Reply
<1>15. CASE Close(c)      BY <1>15 DEF Close, NoGhostFeed, NoFeed
<1>. QED
  BY <1>3, <1>4, <1>5, <1>6, <1>7, <1>8, <1>9, <1>10, <1>11, <1>12, <1>13,
     <1>14, <1>15 DEF Handler

\* A worker in the registry has a socket that is being served.
THEOREM FeedsHaveSockets == Spec => []NoGhostFeed
<1>1. Init => NoGhostFeed
  BY DEF Init, NoGhostFeed
<1>2. TypeOK /\ NoGhostFeed /\ [Next]_vars => NoGhostFeed'
  <2> SUFFICES ASSUME TypeOK, NoGhostFeed, [Next]_vars
               PROVE  NoGhostFeed'
    OBVIOUS
  <2>1. CASE UNCHANGED <<pc, feed>>
    BY <2>1 DEF NoGhostFeed, NoFeed
  <2>2. ASSUME NEW c \in Conns, ReaderStep(c)
        PROVE  UNCHANGED <<pc, feed>>
    BY <2>2 DEF ReaderStep, Reader, Receive, ReaderEnds
  <2>3. ASSUME NEW c \in Conns, Accept(c) \/ HandlerStep(c)
        PROVE  NoGhostFeed'
    BY <2>3, HandlerKeepsNoGhost DEF HandlerStep
  <2>. QED  BY <2>1, <2>2, <2>3 DEF Next, vars, serverVars
<1>. QED  BY <1>1, <1>2, FeedsTypeCorrect, PTL DEF Spec

----------------------------------------------------------------------------
(* LatestFrameWins: only Receive and Take touch what it speaks of; the     *)
(* frames of a wire are not 0, which stands for the empty slot.            *)

\* Every socket's handler gets the newest frame that arrived on it.
THEOREM FreshestFrameFirst == Spec => []LatestFrameWins
<1>1. Init => LatestFrameWins
  BY DEF Init, LatestFrameWins
<1>2. TypeOK /\ LatestFrameWins /\ [Next]_vars => LatestFrameWins'
  <2> SUFFICES ASSUME TypeOK, LatestFrameWins, [Next]_vars
               PROVE  LatestFrameWins'
    OBVIOUS
  <2>1. CASE UNCHANGED <<slot, received, taken>>
    BY <2>1 DEF LatestFrameWins
  <2>2. ASSUME NEW c \in Conns, Receive(c)
        PROVE  LatestFrameWins'
    <3>1. Head(wire[c]) \in Frames
      BY <2>2, WireHead DEF Receive, TypeOK
    <3>2. Head(wire[c]) # 0
      BY <3>1 DEF Frames
    <3>. QED  BY <2>2, <3>2 DEF Receive, PutFrame, LatestFrameWins, TypeOK
  <2>3. ASSUME NEW c \in Conns, Take(c)
        PROVE  LatestFrameWins'
    BY <2>3 DEF Take, LatestFrameWins, TypeOK
  <2>4. ASSUME NEW c \in Conns,
               Accept(c) \/ ReaderEnds(c) \/ Handler(c), ~Take(c)
        PROVE  UNCHANGED <<slot, received, taken>>
    BY <2>4 DEF Accept, ReaderEnds, Handler, Refuse, Open, Drained,
         Undecodable, Decoded, Infer, Inferred, InferenceFails, Publish,
         Reply, Close
  <2>. QED
    BY <2>1, <2>2, <2>3, <2>4
    DEF Next, ReaderStep, Reader, HandlerStep, vars, serverVars
<1>. QED  BY <1>1, <1>2, FeedsTypeCorrect, PTL DEF Spec

(* Every worker in the registry has a socket that is being served, for any *)
(* number of sockets and frames.                                           *)
THEOREM FeedsAlwaysServed == Spec => []FeedIsServed
BY FeedsTypeCorrect, FeedsHaveSockets, PTL DEF FeedIsServed

----------------------------------------------------------------------------
(* The camera.  CameraObeys is not inductive: that a stop sticks rests on  *)
(* what resumeFromBackground reads (_wantOn), and that there is one socket *)
(* on a streamer whose open and whose start are one call at a time.        *)

StopIsMeant == askedBy = "stop" => ~wantOn

OneStart ==
  sturdy => /\ opening = IF starting THEN 1 ELSE 0
            /\ ~(streaming /\ starting)

CameraInv == StopIsMeant /\ OneStart /\ StopSticks /\ OneSocketAtATime

LEMMA TeardownTyped ==
  ASSUME CameraTypeOK, Teardown
  PROVE  LinkTypeOK' /\ channel' = NoConn /\ sturdy' = sturdy
<1> USE LinkAssumption DEF CameraTypeOK
<1>1. CASE channel # NoConn /\ HangUp(channel)
  <2>1. channel \in Conns
    BY <1>1
  <2>. QED  BY <1>1, <2>1, LinkTyped DEF LinkNext, Teardown
<1>2. CASE UNCHANGED linkVars
  BY <1>2 DEF linkVars, LinkTypeOK, Teardown
<1>. QED  BY <1>1, <1>2 DEF Teardown

\* After a teardown of a phone with one socket no socket is open.
LEMMA TeardownCloses ==
  ASSUME CameraTypeOK, OneSocketAtATime, sturdy, Teardown
  PROVE  \A c \in Conns : link'[c] # "open"
BY LinkAssumption DEF CameraTypeOK, LinkTypeOK, OneSocketAtATime, Teardown, HangUp, linkVars

LEMMA CameraTyped ==
  ASSUME CameraTypeOK, [CameraNext]_cameraVars
  PROVE  CameraTypeOK'
<1> USE LinkAssumption DEF CameraTypeOK
<1>1. ASSUME NEW c \in Conns, CameraOpens(c)
      PROVE  CameraTypeOK'
  <2>1. LinkTypeOK' /\ opening' \in Nat /\ imaging' \subseteq Conns /\ channel' \in Conns
    BY <1>1, LinkTyped DEF CameraOpens, LinkNext
  <2>2. {streaming', starting', wantOn', signedIn', sturdy'} \subseteq BOOLEAN
    BY <1>1 DEF CameraOpens
  <2>. QED  BY <1>1, <2>1, <2>2 DEF CameraOpens
<1>2. ASSUME NEW c \in Conns, ImagesFlow(c)
      PROVE  CameraTypeOK'
  BY <1>2 DEF ImagesFlow, linkVars, LinkTypeOK
<1>3. ASSUME NEW c \in Conns, ImagesFail(c)
      PROVE  CameraTypeOK'
  BY <1>3, TeardownTyped DEF ImagesFail
<1>4. ASSUME NEW c \in Conns, LinkLost(c)
      PROVE  CameraTypeOK'
  BY <1>4, LinkTyped DEF LinkLost, LinkNext
<1>5. CASE CameraFails
  <2>1. LinkTypeOK' /\ opening' \in Nat /\ channel' = NoConn /\ sturdy' = sturdy
    BY <1>5, TeardownTyped DEF CameraFails
  <2>2. {streaming', starting', wantOn', signedIn', sturdy'} \subseteq BOOLEAN
    BY <1>5, <2>1 DEF CameraFails
  <2>. QED  BY <1>5, <2>1, <2>2 DEF CameraFails
<1>6. CASE TapResume \/ SessionChanges \/ ResumeApp
  <2>1. LinkTypeOK' /\ opening' \in Nat
    BY <1>6 DEF TapResume, SessionChanges, ResumeApp, Start, linkVars, LinkTypeOK
  <2>2. {streaming', starting', wantOn', signedIn', sturdy'} \subseteq BOOLEAN
    BY <1>6 DEF TapResume, SessionChanges, ResumeApp, Start
  <2>. QED  BY <1>6, <2>1, <2>2 DEF TapResume, SessionChanges, ResumeApp, Start
<1>7. CASE TapStop \/ SignOut
  BY <1>7, TeardownTyped DEF TapStop, SignOut, Stop
<1>8. CASE SignInBusy
  BY <1>8 DEF SignInBusy, linkVars, LinkTypeOK
<1>9. CASE Pause
  BY <1>9, TeardownTyped DEF Pause
<1>10. CASE Capture
  BY <1>10, LinkTyped DEF Capture, LinkNext
<1>11. CASE UNCHANGED cameraVars
  BY <1>11 DEF cameraVars, linkVars, LinkTypeOK
<1>. QED
  BY <1>1, <1>2, <1>3, <1>4, <1>5, <1>6, <1>7, <1>8, <1>9, <1>10, <1>11 DEF CameraNext

LEMMA CameraSteps ==
  ASSUME CameraTypeOK, CameraInv, [CameraNext]_cameraVars
  PROVE  CameraInv'
<1> USE LinkAssumption
    DEF CameraTypeOK, LinkTypeOK, CameraInv, StopIsMeant, OneStart, StopSticks, OneSocketAtATime
<1>1. ASSUME NEW c \in Conns, CameraOpens(c)
      PROVE  CameraInv'
  BY <1>1 DEF CameraOpens, Connect, Unused
<1>2. ASSUME NEW c \in Conns, ImagesFlow(c)
      PROVE  CameraInv'
  BY <1>2 DEF ImagesFlow, linkVars
<1>3. ASSUME NEW c \in Conns, ImagesFail(c)
      PROVE  CameraInv'
  BY <1>3 DEF ImagesFail, Teardown
<1>4. ASSUME NEW c \in Conns, LinkLost(c)
      PROVE  CameraInv'
  BY <1>4 DEF LinkLost, Lose
<1>5. CASE CameraFails
  BY <1>5, TeardownCloses, TeardownTyped DEF CameraFails
<1>6. CASE TapResume \/ SessionChanges \/ ResumeApp
  BY <1>6 DEF TapResume, SessionChanges, ResumeApp, Start, linkVars
<1>7. CASE TapStop \/ SignOut
  BY <1>7, TeardownCloses, TeardownTyped DEF TapStop, SignOut, Stop
<1>8. CASE SignInBusy
  BY <1>8 DEF SignInBusy, linkVars
<1>9. CASE Pause
  BY <1>9, TeardownCloses, TeardownTyped DEF Pause
<1>10. CASE Capture
  BY <1>10 DEF Capture, Send
<1>11. CASE UNCHANGED cameraVars
  BY <1>11 DEF cameraVars, linkVars
<1>. QED
  BY <1>1, <1>2, <1>3, <1>4, <1>5, <1>6, <1>7, <1>8, <1>9, <1>10, <1>11 DEF CameraNext

\* On a phone whose opened camera always streams, for any number of pauses, resumes,
\* slow openings, lost links and sign-ins: what was stopped stays so until the worker or
\* the session starts it again, and the phone has at most the socket it streams through.
THEOREM CameraAlwaysObeys == CameraSpec => []CameraObeys
<1>1. CameraInit => CameraTypeOK /\ CameraInv
  <2> SUFFICES ASSUME CameraInit
               PROVE  CameraTypeOK /\ CameraInv
    OBVIOUS
  <2>1. LinkTypeOK
    BY LinkAssumption DEF CameraInit, LinkInit, LinkTypeOK
  <2>2. {streaming, starting, wantOn, signedIn, sturdy} \subseteq BOOLEAN
    BY DEF CameraInit
  <2>3. CameraTypeOK
    BY <2>1, <2>2 DEF CameraInit, CameraTypeOK
  <2>4. CameraInv
    BY DEF CameraInit, LinkInit, CameraInv, StopIsMeant, OneStart, StopSticks, OneSocketAtATime
  <2>. QED  BY <2>3, <2>4
<1>2. CameraTypeOK /\ CameraInv /\ [CameraNext]_cameraVars => (CameraTypeOK /\ CameraInv)'
  BY CameraTyped, CameraSteps
<1>3. CameraTypeOK /\ CameraInv => CameraObeys
  BY DEF CameraInv, CameraObeys
<1>. QED  BY <1>1, <1>2, <1>3, PTL DEF CameraSpec

=============================================================================
