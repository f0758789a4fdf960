-------------------------- MODULE MCStoreAndForward --------------------------
(* Small instances of StoreAndForward for TLC. *)
EXTENDS StoreAndForward

LoopOnly      == {"loop"}
LoopAndManual == {"loop", "manual"}
=============================================================================
