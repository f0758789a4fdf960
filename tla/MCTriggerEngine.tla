--------------------------- MODULE MCTriggerEngine ---------------------------
(* Small instances of TriggerEngine for TLC: one dedup key. *)
EXTENDS TriggerEngine

CONSTANTS k1, rejected

OneKey        == {k1}
MediumAndCrit == {2, 4}
OneVerdict    == {rejected}
=============================================================================
