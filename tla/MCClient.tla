------------------------------ MODULE MCClient ------------------------------
(* Small instances of Client for TLC. *)
EXTENDS Client

MCAllFaults == FaultKinds
=============================================================================
