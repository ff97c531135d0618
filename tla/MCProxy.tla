------------------------------ MODULE MCProxy -------------------------------
(* A small instance of Proxy for TLC. *)
EXTENDS Proxy, TLC

CONSTANTS c1, c2, s1, s2, s3

MCConnOf == (s1 :> c1) @@ (s2 :> c1) @@ (s3 :> c2)

MCFaults == FaultKinds \ {"streamLimit"}

\* s1 and s2 are interchangeable.
MCSymmetry == Permutations({s1, s2})
=============================================================================
