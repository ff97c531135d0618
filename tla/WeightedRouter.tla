--------------------------- MODULE WeightedRouter ---------------------------
(***************************************************************************)
(* The weighted random routing policy of a proxy,                          *)
(* pkg/routing/probability.go: it draws the sink of each request, counts   *)
(* the bytes sent to and received from every sink, and at the first        *)
(* request after the observation window is over pushes the counters onto   *)
(* one moving average per sink and one for all of them.                    *)
(*                                                                         *)
(* Both entry points hold probRouter.mu from beginning to end, so each is  *)
(* one action.  Time is left out: once the first request has set stime,    *)
(* the window may be found over, or not, at any request.                   *)
(***************************************************************************)
EXTENDS RoutingPolicy

VARIABLES
  cup, cdw,              \* bytes counted in this window, up and down, by sink
  started,               \* stime is not time.Time{}
  b_up, b_down,          \* moving averages of all sinks together
  b_up_i, b_down_i       \* moving averages by sink

(* What really happened, kept apart from the program's own counting.       *)
VARIABLES
  routed, returned,      \* bytes routed to and returned by each sink so far
  past                   \* the last TimeWindow windows: [routed, returned]

router == <<cup, cdw, started, b_up, b_down, b_up_i, b_down_i>>
vars == <<router, routed, returned, past>>

Init ==
  /\ cup = Zeros /\ cdw = Zeros /\ started = FALSE
  /\ b_up = NewMavg(TimeWindow) /\ b_down = NewMavg(TimeWindow)
  /\ b_up_i = [i \in Sinks |-> NewMavg(TimeWindow)]
  /\ b_down_i = [i \in Sinks |-> NewMavg(TimeWindow)]
  /\ routed = Zeros /\ returned = Zeros /\ past = <<>>

-----------------------------------------------------------------------------
PushAll(up, down, totalup, totaldown) ==
  /\ b_up_i' = [i \in Sinks |-> Mavg_push(b_up_i[i], up[i])]
  /\ b_down_i' = [i \in Sinks |-> Mavg_push(b_down_i[i], down[i])]
  /\ b_up' = Mavg_push(b_up, totalup)
  /\ b_down' = Mavg_push(b_down, totaldown)

(* Slip, see Server.tla: the totals are taken after the counters are reset. *)
CloseWindowLate(counted) ==
  /\ PushAll(counted, cdw, 0, 0)
  /\ cup' = Zeros /\ cdw' = Zeros

CloseWindow(counted) ==
  /\ PushAll(counted, cdw, Total(counted), Total(cdw))
  /\ cup' = Zeros /\ cdw' = Zeros

-----------------------------------------------------------------------------
Load == Total(routed) + Total(returned)

(* WeightedRandomDecision.  The request that finds the window over still   *)
(* counts in it.                                                           *)
Decision(draw, body) ==
  LET sink == Chosen(draw)
      counted == [cup EXCEPT ![sink] = @ + body]
      sent == [routed EXCEPT ![sink] = @ + body]
  IN /\ started' = TRUE
     /\ \/ /\ Load < MaxLoad
           /\ cup' = counted
           /\ routed' = sent
           /\ UNCHANGED <<cdw, b_up, b_down, b_up_i, b_down_i, returned, past>>
        \/ /\ started
           /\ CloseWindow(counted)
           /\ routed' = Zeros /\ returned' = Zeros
           /\ LET all == Append(past, [routed |-> sent, returned |-> returned])
              IN past' = IF Len(all) > TimeWindow THEN Tail(all) ELSE all

(* WeightedRandomSetLastResponse, called with what came back from a sink;  *)
(* source 0 stands for one that is not configured.                         *)
SetLastResponse(type, source, body) ==
  /\ started /\ Load < MaxLoad
  /\ cdw' = IF type = "Response" /\ source \in Sinks
            THEN [cdw EXCEPT ![source] = @ + body] ELSE cdw
  /\ returned' = IF type = "Response" /\ source \in Sinks
                 THEN [returned EXCEPT ![source] = @ + body] ELSE returned
  /\ UNCHANGED <<cup, started, b_up, b_down, b_up_i, b_down_i, routed, past>>

Next ==
  \/ \E draw \in 0..(Scale-1), body \in Bodies : Decision(draw, body)
  \/ \E type \in {"Response", "QueueFull"}, source \in Sinks \cup {0}, body \in Bodies :
       SetLastResponse(type, source, body)

Spec == Init /\ [][Next]_vars

-----------------------------------------------------------------------------
(* The half of the policy that is about requests, a specification of its   *)
(* own: each request is, at one moment, given a sink, counted for it, and  *)
(* made part of the window open then, which it may be the one to close.    *)
(* Which sink it is given is left open.                                    *)
routedInPast == [n \in 1..Len(past) |-> past[n].routed]
uplink == <<cup, started, b_up, b_up_i, routed, routedInPast>>

UplinkInit ==
  /\ cup = Zeros /\ started = FALSE
  /\ b_up = NewMavg(TimeWindow) /\ b_up_i = [i \in Sinks |-> NewMavg(TimeWindow)]
  /\ routed = Zeros /\ routedInPast = <<>>

UplinkDecision(sink, body) ==
  LET counted == [cup EXCEPT ![sink] = @ + body]
      sent == [routed EXCEPT ![sink] = @ + body]
      all == Append(routedInPast, sent)
  IN /\ started' = TRUE
     /\ \/ /\ cup' = counted /\ routed' = sent
           /\ UNCHANGED <<b_up, b_up_i, routedInPast>>
        \/ /\ started
           /\ b_up' = Mavg_push(b_up, Total(counted))
           /\ b_up_i' = [i \in Sinks |-> Mavg_push(b_up_i[i], counted[i])]
           /\ cup' = Zeros /\ routed' = Zeros
           /\ routedInPast' = IF Len(all) > TimeWindow THEN Tail(all) ELSE all

UplinkNext == \E sink \in Sinks, body \in Bodies : UplinkDecision(sink, body)

UplinkSpec == UplinkInit /\ [][UplinkNext]_uplink

-----------------------------------------------------------------------------
Rings == {b_up, b_down} \cup {b_up_i[i] : i \in Sinks} \cup {b_down_i[i] : i \in Sinks}

(* Type invariant; the indices of a ring stay inside its slice.            *)
TypeOK ==
  /\ cup \in [Sinks -> Nat] /\ cdw \in [Sinks -> Nat]
  /\ started \in BOOLEAN
  /\ DOMAIN b_up_i = Sinks /\ DOMAIN b_down_i = Sinks
  /\ \A x \in Rings : RingOK(x)

(* Each sink's averages are over exactly the last TimeWindow windows: the  *)
(* sum the ring keeps up to date by difference (util.go:363) is the sum of *)
(* what was really routed to the sink, and returned by it, in them,        *)
(* however often the ring wrapped; and the counters hold the bytes since   *)
(* then, so that none is carried into another window, lost, or credited to *)
(* another sink.                                                           *)
Over(f) == FoldSeq(+, 0, f)
UplinkSlides ==
  /\ cup = routed
  /\ \A i \in Sinks :
       /\ Len(b_up_i[i].vec) = Len(past)
       /\ b_up_i[i].sum = Over([n \in 1..Len(past) |-> past[n].routed[i]])

DownlinkSlides ==
  /\ cdw = returned
  /\ \A i \in Sinks :
       /\ Len(b_down_i[i].vec) = Len(past)
       /\ b_down_i[i].sum = Over([n \in 1..Len(past) |-> past[n].returned[i]])

(* The overall averages agree with the averages by sink: the totals are    *)
(* taken in the loop that resets the counters (probability.go:107-116).    *)
TotalsAgree ==
  /\ b_up.sum = Total([i \in Sinks |-> b_up_i[i].sum])
  /\ b_down.sum = Total([i \in Sinks |-> b_down_i[i].sum])
=============================================================================
