------------------------------ MODULE MCChain -------------------------------
(* Small instances of Chain for TLC. *)
EXTENDS Chain, TLC

MCSignal == {"signal"}
=============================================================================
