---------------------------- MODULE MCOrchestrator ----------------------------
(* Small instances of Orchestrator for TLC. *)
EXTENDS Orchestrator

CONSTANTS k1, t1, t2

OneKey        == {k1}
AnySetting    == {TRUE, FALSE}
Enabled       == {TRUE}
MediumAndHigh == {2, 3}
MediumAndCrit == {2, 4}
GateVerdicts  == {"confirmed", "rejected", "disputed"}
TwoTasks      == {t1, t2}
=============================================================================
