------------------------------ MODULE MCAlertsApi ------------------------------
(* Small instances of AlertsApi for TLC. *)
EXTENDS AlertsApi

CONSTANTS k1, rejected

OneKey     == {k1}
MediumOnly == {2}
OneVerdict == {rejected}
=============================================================================
