------------------------------ MODULE MCDirect ------------------------------
(* Small instances of Direct for TLC. *)
EXTENDS Direct, TLC

MCOneRound == {1}
MCNoFaults == {}
MCSignal == {"signal"}
=============================================================================
