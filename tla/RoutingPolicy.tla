---------------------------- MODULE RoutingPolicy ----------------------------
(***************************************************************************)
(* What the routing policies of pkg/routing have in common: the parameters *)
(* a proxy is given, and the draw of a sink from the probabilities, which  *)
(* probability.go and probabilityLatency.go write out alike.               *)
(***************************************************************************)
EXTENDS Mavg, SequencesExt

CONSTANTS
  Weights,      \* the probabilities p, as a sequence of parts of Scale
  Scale,        \* what rand.Float64() < 1 is: a draw from 0..Scale-1
  TimeWindow,   \* timewindow, twind, twindow: the capacity of a moving average
  Bodies,       \* lengths of message bodies
  MaxLoad       \* bound: no call is made in a window that has seen so much

ASSUME RoutingPolicyAssumption ==
  /\ Weights \in Seq(Nat) /\ Weights # <<>>
  /\ Scale \in Nat \ {0} /\ TimeWindow \in Nat \ {0}
  /\ Bodies \subseteq Nat /\ MaxLoad \in Nat

Sinks == 1..Len(Weights)
Zeros == [i \in Sinks |-> 0]
Total(f) == FoldFunction(+, 0, f)

Cumulated(i) == FoldSeq(+, 0, SubSeq(Weights, 1, i))

(* The loop stops at the first sink whose cumulated probability reaches    *)
(* the draw, or at the last sink.                                          *)
Chosen(draw) ==
  CHOOSE i \in Sinks :
    /\ i = Len(Weights) \/ Cumulated(i) >= draw
    /\ \A j \in 1..(i-1) : Cumulated(j) < draw

(* A ring is well formed: its indices stay inside its slice.               *)
RingOK(x) ==
  /\ x.vec \in Seq(Nat) /\ Len(x.vec) <= x.size
  /\ x.begin \in 0..(x.size - 1) /\ x.end \in 0..x.size
=============================================================================
