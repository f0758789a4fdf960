-------------------------------- MODULE MCSite --------------------------------
(***************************************************************************)
(* The services that keep the site's records and settings, the edge's      *)
(* detectors and what it does with their events, and the camera of a       *)
(* worker's phone, for TLC.  They share no state, so interleaving them     *)
(* shows nothing more: each behaviour exercises one of them, chosen at the *)
(* start.                                                                  *)
(***************************************************************************)
EXTENDS DocStore, Accounts, Occupancy, SiteRegistry, RuleFiring, SiteSettings, Captures, Weights,
        Attention, Falls, Proximity, PpeRules, EdgeEvents, Inspection, CameraStreamer

CONSTANTS t1, t2, Services

VARIABLE service

recordVars == <<docVars, accVars, occVars, regVars>>
keepingVars == <<ruleVars, setVars, capVars, wtsVars>>
detectorVars == <<attVars, fallVars, proxVars, ppeVars>>
edgeVars == <<evVars, insVars, cameraVars>>
vars == <<service, recordVars, keepingVars, detectorVars, edgeVars>>

Tasks == {t1, t2}

Seed == <<[name |-> "manager", worker |-> None, role |-> "site_manager", password |-> "p1"]>>
Defaults == [k \in {"a"} |-> [value |-> 1]]
Values == {[value |-> v] : v \in {1, 2}}
Sessions == [s \in {"morning", "noon"} |-> IF s = "morning" THEN "train" ELSE "val"]
OnePhone == [p \in {"p1"} |-> {"a", "b"}]

Init ==
  /\ service \in Services
  \* the others stay as they start: one start of each is enough
  /\ DocInit /\ (service # "store" => docBackend = "sqlite")
  /\ OccInit /\ (service # "occupancy" => occBackend = "sqlite")
  /\ RegInit /\ (service # "registry" => regBackend = "sqlite" /\ regKind = "zones")
  /\ SetInit /\ (service # "settings" => setBackend = "sqlite")
  /\ WtsInit /\ (service # "weights" => wtsDest = None)
  /\ PpeInit /\ (service # "ppe" => ppeClasses = None /\ ppeTracked = {})
  /\ EvInit /\ (service # "events" => evPath = "outbox")
  /\ InsInit /\ (service # "inspection" => insModel /\ insEnabled)
  /\ CameraInit /\ (service # "camera" => sturdy)
  /\ AccInit /\ RuleInit /\ CapInit /\ AttInit /\ FallInit /\ ProxInit

Next ==
  /\ UNCHANGED service
  /\ \/ service = "store" /\ DocNext(2) /\ UNCHANGED <<accVars, occVars, regVars, keepingVars, detectorVars, edgeVars>>
     \/ service = "accounts" /\ AccNext /\ UNCHANGED <<docVars, occVars, regVars, keepingVars, detectorVars, edgeVars>>
     \/ service = "occupancy" /\ OccNext /\ UNCHANGED <<docVars, accVars, regVars, keepingVars, detectorVars, edgeVars>>
     \/ service = "registry" /\ RegNext /\ UNCHANGED <<docVars, accVars, occVars, keepingVars, detectorVars, edgeVars>>
     \/ service = "rules" /\ RuleNext /\ UNCHANGED <<setVars, capVars, wtsVars, recordVars, detectorVars, edgeVars>>
     \/ service = "settings" /\ SetNext /\ UNCHANGED <<ruleVars, capVars, wtsVars, recordVars, detectorVars, edgeVars>>
     \/ service = "captures" /\ CapNext /\ UNCHANGED <<ruleVars, setVars, wtsVars, recordVars, detectorVars, edgeVars>>
     \/ service = "weights" /\ WtsNext /\ UNCHANGED <<ruleVars, setVars, capVars, recordVars, detectorVars, edgeVars>>
     \/ service = "attention" /\ AttNext /\ UNCHANGED <<fallVars, proxVars, ppeVars, recordVars, keepingVars, edgeVars>>
     \/ service = "falls" /\ FallNext /\ UNCHANGED <<attVars, proxVars, ppeVars, recordVars, keepingVars, edgeVars>>
     \/ service = "proximity" /\ ProxNext /\ UNCHANGED <<attVars, fallVars, ppeVars, recordVars, keepingVars, edgeVars>>
     \/ service = "ppe" /\ PpeNext /\ UNCHANGED <<attVars, fallVars, proxVars, recordVars, keepingVars, edgeVars>>
     \/ service = "events" /\ EvNext /\ UNCHANGED <<insVars, cameraVars, recordVars, keepingVars, detectorVars>>
     \/ service = "inspection" /\ InsNext /\ UNCHANGED <<evVars, cameraVars, recordVars, keepingVars, detectorVars>>
     \/ service = "camera" /\ CameraNext /\ UNCHANGED <<evVars, insVars, recordVars, keepingVars, detectorVars>>

Spec == Init /\ [][Next]_vars

Symmetry == Permutations(Tasks)
=============================================================================
