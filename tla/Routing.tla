------------------------------- MODULE Routing -------------------------------
(***************************************************************************)
(* The routing policy of a proxy.  The function given to InitProxy         *)
(* installs the pair ForwardDecision, ForwardSetLastResponse of one of     *)
(* fixed.go, probability.go and probabilityLatency.go, and the proxy calls *)
(* that pair from then on.  The weighted and the latency policy keep the   *)
(* same counters and averages under different names; they share them here. *)
(***************************************************************************)
EXTENDS RoutingPolicy

CONSTANTS
  Callers,      \* goroutines of the proxy that serve requests
  Nobody,       \* holds no mutex
  MaxDelayed,   \* bound on what the latency policy carries in one window
  MaxTotal      \* bound on what the fixed policy counts in all

ASSUME RoutingAssumption ==
  /\ Nobody \notin Callers /\ IsFiniteSet(Callers)
  /\ MaxDelayed \in Nat /\ MaxTotal \in Nat

VARIABLES
  policy,                                              \* the one configured
  cup, cdw, started, b_up, b_down, b_up_i, b_down_i,
  routed, returned, past,                              \* both drawing policies
  plMutex, pc, req,                                    \* the latency policy
  cu, cd, stim, b_u, b_d, now, recent                  \* the fixed policy

Weighted == INSTANCE WeightedRouter
Latency == INSTANCE LatencyRouter WITH
  countup <- cup, countdown <- cdw,
  byte_up <- b_up, byte_down <- b_down,
  byte_up_i <- b_up_i, byte_down_i <- b_down_i,
  drawn <- routed
Fixed == INSTANCE FixedRouter

drawing == <<cup, cdw, b_up, b_down, b_up_i, b_down_i, routed, returned, past>>
sleeping == <<plMutex, pc, req>>
counting == <<cu, cd, stim, b_u, b_d, now, recent>>
vars == <<policy, started, drawing, sleeping, counting>>

Init ==
  /\ policy \in {"fixed", "probability", "latency"}
  /\ Weighted!Init /\ Latency!Init /\ Fixed!Init

FixedStep == policy = "fixed" /\ Fixed!Next /\ UNCHANGED <<started, drawing, sleeping>>
WeightedStep == policy = "probability" /\ Weighted!Next /\ UNCHANGED <<sleeping, counting>>
LatencyStep == policy = "latency" /\ Latency!Next /\ UNCHANGED counting

Next == (FixedStep \/ WeightedStep \/ LatencyStep) /\ UNCHANGED policy

(* A goroutine that sleeps wakes up, and sync.RWMutex lets no goroutine    *)
(* that waits for it starve.                                               *)
Wakes(c) ==
  policy = "latency" /\ Latency!Step(c) /\ UNCHANGED <<policy, counting>>

Spec == Init /\ [][Next]_vars /\ \A c \in Callers : SF_vars(Wakes(c))

-----------------------------------------------------------------------------
(* Type invariant, of all three. *)
TypeOK == Weighted!TypeOK /\ Latency!TypeOK /\ Fixed!TypeOK

(* The averages by sink are over exactly the last windows, uplink and      *)
(* downlink.  A weighted policy is a latency policy none of whose calls    *)
(* are asleep, so the uplink part is about both (probability.go:84-145,    *)
(* probabilityLatency.go:89-143); of the latency policy's downlink, which  *)
(* misses responses (EveryResponseCredited below), the averages are at     *)
(* most those of the windows.                                              *)
WindowsAreSliding ==
  /\ Latency!Policy!UplinkSlides
  /\ IF policy = "latency" THEN Latency!DownlinkWithin ELSE Weighted!DownlinkSlides

(* The overall averages agree with those by sink (probability.go:107-116,  *)
(* probabilityLatency.go:121-131).                                         *)
TotalsAgree == Weighted!TotalsAgree

(* Counting requests around a delay refines counting them at once          *)
(* (probabilityLatency.go:98-113).                                         *)
ImplementsWeightedUplink == Latency!ImplementsWeightedUplink

(* One sleeping call keeps all others of the proxy waiting                 *)
(* (probabilityLatency.go:90, :146).                                       *)
DelaysAreSerial == Latency!DelaysAreSerial

(* Every call of the policy returns (probabilityLatency.go:91, :147).      *)
EveryCallReturns == Latency!EveryCallReturns

(* The fixed policy's averages hold all that each window carried           *)
(* (fixed.go:55-63).                                                       *)
NeverUnderreports == Fixed!NeverUnderreports

-----------------------------------------------------------------------------
(* REFACTORING_PLAN.md:1297-1345 has every Response counted for the sink   *)
(* it came from; the latency policy does not (probabilityLatency.go:154).  *)
EveryResponseCredited == Latency!EveryResponseCredited
=============================================================================
