------------------------------ MODULE MCRouting ------------------------------
(* Two callers and two sinks.  A draw of 0 or 1 chooses the first sink, a   *)
(* greater one the second: the last sink also takes what the probabilities  *)
(* leave over.                                                              *)
EXTENDS Routing

CONSTANTS c1, c2

MCCallers == {c1, c2}
MCWeights == <<1, 2>>
=============================================================================
