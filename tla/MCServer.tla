------------------------------ MODULE MCServer ------------------------------
(* Small instances of Server for TLC. *)
EXTENDS Server

\* ReplyDecision of examples/server/main.go asks for one round per job; the
\* echo server of docs/EXAMPLES.md (`return attempt == 0`) asks for two.
MCOneOrTwoRounds == {1, 2}

MCAllFaults == FaultKinds
=============================================================================
