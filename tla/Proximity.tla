------------------------------- MODULE Proximity -------------------------------
(***************************************************************************)
(* safety/proximity.py: workers too close to a machine or a vehicle.  For  *)
(* each worker the first piece of equipment in reach, in the order the     *)
(* detector lists them, decides: it is reported, or cooling down, and the  *)
(* others are not looked at.  Distances are an input.                      *)
(***************************************************************************)
EXTENDS Tables, Integers, Sequences

CONSTANTS
  ProxTracks,
  ProxCooldown,
  ProxMaxTime    \* bound on the clock

ASSUME ProxAssumption == ProxCooldown \in Nat \ {0} /\ ProxMaxTime \in Nat

VARIABLES
  proxNow,
  proxLast,      \* _last: [<<track, kind>> -> the time of its last report]
  proxTold,      \* [track -> the time of the last report about it]
  proxNear       \* the tracks the last frame shows near something

proxVars == <<proxNow, proxLast, proxTold, proxNear>>

ProxKinds == {"machinery", "vehicle"}

ProxInit == proxNow = 0 /\ proxLast = <<>> /\ proxTold = <<>> /\ proxNear = {}

\* Mutant of ProxKey: a cooldown holds for a kind of equipment.
ProxKeyOfKind(track, kind) == kind
ProxKey(track, kind) == <<track, kind>>

\* Mutant of ProxCooling: the end of the cooldown is off by one.
ProxCoolingShort(track, kind) ==
  ProxKey(track, kind) \in DOMAIN proxLast /\ proxNow - proxLast[ProxKey(track, kind)] < ProxCooldown - 1

ProxCooling(track, kind) ==
  ProxKey(track, kind) \in DOMAIN proxLast /\ proxNow - proxLast[ProxKey(track, kind)] < ProxCooldown

\* update: equipment as the detector lists it, and who is near which of it
ProxFrame(equipment, near) ==
  LET close(x) == {i \in DOMAIN equipment : <<x, i>> \in near}
      first(x) == CHOOSE i \in close(x) : \A j \in close(x) : i <= j
      told == {x \in ProxTracks : close(x) # {} /\ ~ ProxCooling(x, equipment[first(x)])}
      keys == {ProxKey(x, equipment[first(x)]) : x \in told}
  IN /\ proxLast' = [k \in DOMAIN proxLast \cup keys |-> IF k \in keys THEN proxNow ELSE proxLast[k]]
     /\ proxTold' = [x \in DOMAIN proxTold \cup told |-> IF x \in told THEN proxNow ELSE proxTold[x]]
     /\ proxNear' = {x \in ProxTracks : close(x) # {}}
     /\ UNCHANGED proxNow

ProxTick ==
  /\ proxNow < ProxMaxTime
  /\ proxNow' = proxNow + 1
  /\ proxNear' = {}
  /\ UNCHANGED <<proxLast, proxTold>>

ProxNext ==
  \/ \E equipment \in [1..2 -> ProxKinds] : \E near \in SUBSET (ProxTracks \X (1..2)) :
       ProxFrame(equipment, near)
  \/ ProxTick

ProxSpec == ProxInit /\ [][ProxNext]_proxVars

-----------------------------------------------------------------------------
(* Nobody stays in danger untold: whoever the last frame shows near some   *)
(* equipment was warned within the last cooldown, whatever the others and  *)
(* the other equipment are doing.                                          *)
ProxNearIsTold ==
  \A x \in proxNear : x \in DOMAIN proxTold /\ proxNow - proxTold[x] < ProxCooldown

(* A worker is warned of one kind of equipment once per cooldown, so at    *)
(* most once per kind within a cooldown in all.                            *)
ProxNoStorm ==
  [][\A key \in DOMAIN proxLast :
       proxLast'[key] # proxLast[key] => proxLast'[key] - proxLast[key] >= ProxCooldown]_proxVars

(* Everybody in danger is warned, and nobody in a storm.                   *)
ProxWarnsInMeasure ==
  /\ []ProxNearIsTold
  /\ ProxNoStorm
=============================================================================
