-------------------------------- MODULE Delay --------------------------------
(***************************************************************************)
(* Delay injection, pkg/util/util.go: InitDelay turns the parameters of a  *)
(* distribution into numbers once, Delay draws one for every call, turns   *)
(* it into a time.Duration and sleeps.                                     *)
(*                                                                         *)
(* Durations are in ticks, of which a second has Second; time.Duration is  *)
(* an int64 that counts nanoseconds, so a tick is a nanosecond in the code *)
(* and Second is 10^9 = time.Second.  Floating-point numbers are taken as  *)
(* exact, and drawn at the resolution of a tick, to which Delay cuts them. *)
(***************************************************************************)
EXTENDS Integers

CONSTANTS
  Second,       \* time.Second
  MaxDuration,  \* the largest int64
  Params,       \* durations found in configuration files
  MaxDraw       \* bound on the draws of an exponential distribution

VARIABLES
  distribution,  \* the result of InitDelay, with the parameters it was given
  slept          \* how long the last call of Delay slept; -1 before the first

vars == <<distribution, slept>>

Uniform(min, max) ==
  [kind |-> "uniform", params |-> <<min, max>>, Min |-> min \div Second, Max |-> max \div Second]
Exponential(avg) == [kind |-> "exponential", params |-> <<avg>>]
Constant(d) == [kind |-> "constant", params |-> <<d>>]
Nil == [kind |-> "no delay", params |-> <<>>]

Init == distribution = Nil /\ slept = -1

(* Parameters that make no sense give an error and a nil distribution.     *)
InitDelay ==
  /\ slept = -1
  /\ distribution' \in
       {Uniform(min, max) : <<min, max>> \in {p \in Params \X Params : p[1] < p[2]}}
         \cup {Exponential(avg) : avg \in Params \ {0}}
         \cup {Constant(d) : d \in Params}
         \cup {Nil}
  /\ UNCHANGED slept

(* What Rand may return, in ticks after Modf.                              *)
Draws ==
  IF distribution.kind = "exponential" THEN 0..MaxDraw
  ELSE IF distribution.Min = distribution.Max THEN {distribution.Min * Second}
  ELSE (distribution.Min * Second)..(distribution.Max * Second - 1)

(* The draw is in ticks already when it is multiplied by Second again.  A  *)
(* float64 past the range of int64 is converted, on amd64, to the least    *)
(* int64, and Sleep returns at once from a negative duration.              *)
Sleep(d) == IF d * Second > MaxDuration THEN 0 ELSE d * Second

Delay ==
  /\ slept' \in CASE distribution.kind = "no delay" -> {0}
                  [] distribution.kind = "constant" -> {distribution.params[1]}
                  [] OTHER -> {Sleep(d) : d \in Draws}
  /\ UNCHANGED distribution

Next == InitDelay \/ Delay

Spec == Init /\ [][Next]_vars

-----------------------------------------------------------------------------
(* "Random delay between 10-100ms" for InitDelay("uniform", {"10ms",       *)
(* "100ms"}), says docs/UTILITIES.md:191; "uniform: Random between         *)
(* min/max", docs/API.md:329.  A delay drawn uniformly is within the       *)
(* interval configured (util.go:233-236, 297-299).                         *)
UniformWithinInterval ==
  distribution.kind = "uniform" /\ slept >= 0 =>
    slept \in distribution.params[1]..distribution.params[2]
=============================================================================
