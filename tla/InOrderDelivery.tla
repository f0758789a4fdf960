--------------------------- MODULE InOrderDelivery ---------------------------
(***************************************************************************)
(* What store-and-forward promises the central API: events, numbered as    *)
(* they were recorded, arrive in that order and none is skipped.  Repeated *)
(* arrivals of an event are not counted here.                              *)
(***************************************************************************)
EXTENDS Naturals

CONSTANT Items

VARIABLES recorded, arrived   \* sets of items

deliveryVars == <<recorded, arrived>>

DeliveryInit == recorded = {} /\ arrived = {}

Record(i) ==
  /\ \A j \in recorded : j < i
  /\ recorded' = recorded \cup {i}
  /\ UNCHANGED arrived

Arrive(i) ==
  /\ i \in recorded \ arrived
  /\ \A j \in recorded \ arrived : i <= j
  /\ arrived' = arrived \cup {i}
  /\ UNCHANGED recorded

DeliverySpec ==
  DeliveryInit /\ [][\E i \in Items : Record(i) \/ Arrive(i)]_deliveryVars
=============================================================================
