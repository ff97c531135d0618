---------------------------- MODULE LatencyRouter ----------------------------
(***************************************************************************)
(* The latency routing policy of a proxy, pkg/routing/probabilityLatency.go:*)
(* the weighted policy, which delays each request by the latency injected  *)
(* towards the sink it drew, and each response by the latency injected     *)
(* from the sink it names as its source.                                   *)
(*                                                                         *)
(* A call is made by the goroutine of a request, once before it forwards   *)
(* the request and once with the answer.  It holds plMutex from beginning  *)
(* to end, asleep or not, so it is two steps: Lock, up to the call of      *)
(* util.Delay, and Wake, what follows it.  Delay returns in every branch,  *)
(* with an error or without; how long a call sleeps is left out.           *)
(***************************************************************************)
EXTENDS RoutingPolicy

CONSTANTS
  Callers,      \* goroutines of the proxy that serve requests
  Nobody,       \* holds no mutex
  MaxDelayed    \* bound on what is carried in one window

(* What comes back: a Response whose source and destination the server's   *)
(* application has swapped, as ReplyDecision does; one it has left alone;  *)
(* or a message of another type.                                           *)
Answers == {"swapped", "echoed", "refused"}

VARIABLES
  plMutex,                    \* the caller that holds it, or Nobody
  pc,                         \* pc[c]: where caller c is
  req,                        \* req[c]: the call it makes
  countup, countdown,         \* bytes counted in this window, by sink
  started,                    \* st is not time.Time{}
  byte_up, byte_down,         \* moving averages of all sinks together
  byte_up_i, byte_down_i      \* moving averages by sink

(* What really happened: the bytes drawn for each sink, and those of the   *)
(* Responses it returned, since the last window was closed; and the same   *)
(* of the last TimeWindow windows.                                         *)
VARIABLES drawn, returned, past

calls == <<plMutex, pc, req>>
averages == <<byte_up, byte_down, byte_up_i, byte_down_i>>
router == <<countup, countdown, started, averages>>
vars == <<calls, router, drawn, returned, past>>

NoCall == [sink |-> 1, body |-> 0, answer |-> "refused"]

Init ==
  /\ plMutex = Nobody
  /\ pc = [c \in Callers |-> "idle"]
  /\ req = [c \in Callers |-> NoCall]
  /\ countup = Zeros /\ countdown = Zeros /\ started = FALSE
  /\ byte_up = NewMavg(TimeWindow) /\ byte_down = NewMavg(TimeWindow)
  /\ byte_up_i = [i \in Sinks |-> NewMavg(TimeWindow)]
  /\ byte_down_i = [i \in Sinks |-> NewMavg(TimeWindow)]
  /\ drawn = Zeros /\ returned = Zeros /\ past = <<>>

(* The bytes drawn for sink i whose call is still asleep.                  *)
Asleep(i) == {c \in Callers : pc[c] = "sleepUp" /\ req[c].sink = i}
Bytes(calling) == SumFunctionOnSet([c \in Callers |-> req[c].body], calling)
Pending(i) == Bytes(Asleep(i))

(* The weighted policy this one is a slower form of: the state it would be *)
(* in if every call were made at the moment its caller wakes up.           *)
Policy == INSTANCE WeightedRouter WITH
  cup <- countup, cdw <- countdown,
  b_up <- byte_up, b_down <- byte_down,
  b_up_i <- byte_up_i, b_down_i <- byte_down_i,
  routed <- [i \in Sinks |-> drawn[i] - Pending(i)]

(* Room for one more call in this window, those under way counted.         *)
Answering == {c \in Callers : pc[c] \in {"lockDown", "sleepDown"}}
Room == Total(countup) + Total(returned) + Bytes(Answering) < MaxDelayed

-----------------------------------------------------------------------------
(* Slips, see Server.tla: the mutex is not held during the delay; and it   *)
(* stays locked when there is nothing to be done.                          *)
LockLightly(c, from, to) ==
  /\ pc[c] = from /\ plMutex = Nobody
  /\ pc' = [pc EXCEPT ![c] = to]
  /\ UNCHANGED plMutex

ReturnLocked(c, from, to) ==
  /\ pc[c] = from
  /\ plMutex' = IF req[c].answer = "refused" /\ from = "sleepDown" THEN c ELSE Nobody
  /\ pc' = [pc EXCEPT ![c] = to]

Lock(c, from, to) ==
  /\ pc[c] = from /\ plMutex = Nobody
  /\ plMutex' = c
  /\ pc' = [pc EXCEPT ![c] = to]

Return(c, from, to) ==
  /\ pc[c] = from
  /\ plMutex' = Nobody
  /\ pc' = [pc EXCEPT ![c] = to]

-----------------------------------------------------------------------------
(* PLDecision *)

CallUp(c, body) ==
  /\ pc[c] = "idle"
  /\ pc' = [pc EXCEPT ![c] = "lockUp"]
  /\ req' = [req EXCEPT ![c].body = body]
  /\ UNCHANGED <<plMutex, router, drawn, returned, past>>

LockUp(c, draw) ==
  LET i == Chosen(draw)
  IN /\ Lock(c, "lockUp", "sleepUp")
     /\ req' = [req EXCEPT ![c].sink = i]
     /\ drawn' = [drawn EXCEPT ![i] = @ + req[c].body]
     /\ UNCHANGED <<router, returned, past>>

PushAll(up, down) ==
  /\ byte_up_i' = [i \in Sinks |-> Mavg_push(byte_up_i[i], up[i])]
  /\ byte_down_i' = [i \in Sinks |-> Mavg_push(byte_down_i[i], down[i])]
  /\ byte_up' = Mavg_push(byte_up, Total(up))
  /\ byte_down' = Mavg_push(byte_down, Total(down))

(* The window may be found over once the first call has set st.            *)
WakeUp(c) ==
  LET counted == [countup EXCEPT ![req[c].sink] = @ + req[c].body]
      windows == Append(past, [routed |-> drawn, returned |-> returned])
  IN /\ Return(c, "sleepUp", "forwarded")
     /\ started' = TRUE
     /\ \/ /\ Room
           /\ countup' = counted
           /\ UNCHANGED <<countdown, averages, drawn, returned, past>>
        \/ /\ started
           /\ PushAll(counted, countdown)
           /\ countup' = Zeros /\ countdown' = Zeros
           /\ drawn' = Zeros /\ returned' = Zeros
           /\ past' = IF Len(windows) > TimeWindow THEN Tail(windows) ELSE windows
     /\ UNCHANGED req

-----------------------------------------------------------------------------
(* PLSetLastResponse *)

(* The request has come back with nothing to report.                       *)
Unanswered(c) ==
  /\ pc[c] = "forwarded"
  /\ pc' = [pc EXCEPT ![c] = "idle"]
  /\ req' = [req EXCEPT ![c] = NoCall]
  /\ UNCHANGED <<plMutex, router, drawn, returned, past>>

CallDown(c, answer, body) ==
  /\ pc[c] = "forwarded" /\ Room
  /\ pc' = [pc EXCEPT ![c] = "lockDown"]
  /\ req' = [req EXCEPT ![c].answer = answer, ![c].body = body]
  /\ UNCHANGED <<plMutex, router, drawn, returned, past>>

LockDown(c) ==
  /\ Lock(c, "lockDown", "sleepDown")
  /\ UNCHANGED <<req, router, drawn, returned, past>>

(* A Response is credited to the sink that its destination names: to none  *)
(* if the server has swapped source and destination.                       *)
WakeDown(c) ==
  LET With(f) == [f EXCEPT ![req[c].sink] = @ + req[c].body]
  IN /\ Return(c, "sleepDown", "idle")
     /\ returned' = IF req[c].answer = "refused" THEN returned ELSE With(returned)
     /\ countdown' = IF req[c].answer = "echoed" THEN With(countdown) ELSE countdown
     /\ req' = [req EXCEPT ![c] = NoCall]
     /\ UNCHANGED <<countup, started, averages, drawn, past>>

-----------------------------------------------------------------------------
Step(c) ==
  \/ \E draw \in 0..(Scale-1) : LockUp(c, draw)
  \/ WakeUp(c)
  \/ LockDown(c)
  \/ WakeDown(c)

Next == \E c \in Callers :
  \/ \E body \in Bodies : CallUp(c, body)
  \/ Unanswered(c)
  \/ \E answer \in Answers, body \in Bodies : CallDown(c, answer, body)
  \/ Step(c)

(* A goroutine that sleeps wakes up, and sync.RWMutex lets no goroutine    *)
(* that waits for it starve.                                               *)
Fairness == \A c \in Callers : SF_vars(Step(c))

Spec == Init /\ [][Next]_vars /\ Fairness

-----------------------------------------------------------------------------
Rings == {byte_up, byte_down} \cup {byte_up_i[i] : i \in Sinks}
           \cup {byte_down_i[i] : i \in Sinks}

(* Type invariant; the indices of a ring stay inside its slice.            *)
TypeOK ==
  /\ plMutex \in Callers \cup {Nobody}
  /\ pc \in [Callers -> {"idle", "lockUp", "sleepUp", "forwarded", "lockDown", "sleepDown"}]
  /\ req \in [Callers -> [sink : Sinks, body : Nat, answer : Answers]]
  /\ countup \in [Sinks -> Nat] /\ countdown \in [Sinks -> Nat] /\ started \in BOOLEAN
  /\ \A x \in Rings : RingOK(x)

(* However the calls interleave, and however long they sleep, requests are *)
(* counted as by the weighted policy, whose calls are atomic               *)
(* (probability.go:84): each for the sink it drew, in the window in which  *)
(* it drew it, although the draw comes before the delay                    *)
(* (probabilityLatency.go:98-106) and the count after it (line 113).       *)
(* Nothing is said of responses, nor of how the sink is to be chosen.      *)
ImplementsWeightedUplink == Policy!UplinkSpec

(* Of the responses, at most those of each window are in the averages, and *)
(* none twice, or in another window, or for another sink                   *)
(* (probabilityLatency.go:116-131 and 154-159).                            *)
DownlinkWithin ==
  \A i \in Sinks :
    /\ countdown[i] <= returned[i]
    /\ Len(byte_down_i[i].vec) = Len(past)
    /\ byte_down_i[i].sum <= Policy!Over([n \in 1..Len(past) |-> past[n].returned[i]])

(* What REFACTORING_PLAN.md:1297-1345 asks for: the bytes of every         *)
(* Response are counted for the sink it came from.  The code looks for the *)
(* sink by Destination (probabilityLatency.go:154).                        *)
EveryResponseCredited == \A i \in Sinks : countdown[i] = returned[i]

(* While one call sleeps through its delay, no other request of the proxy  *)
(* gets its decision and no other answer is let through: the delays of all *)
(* sinks, up and down, add up (plMutex, probabilityLatency.go:90 and 146). *)
Sleeping(c) == pc[c] \in {"sleepUp", "sleepDown"}
DelaysAreSerial ==
  [][\A c, d \in Callers :
       c # d /\ Sleeping(c) /\ pc'[c] = pc[c]
         => ~ Sleeping(d) /\ (pc[d] \in {"lockUp", "lockDown"} => pc'[d] = pc[d])]_vars

(* Every call of the policy returns: the mutex is given back on every path *)
(* (probabilityLatency.go:91 and 147).                                     *)
EveryCallReturns ==
  \A c \in Callers :
    /\ pc[c] = "lockUp" ~> pc[c] = "forwarded"
    /\ pc[c] = "lockDown" ~> pc[c] = "idle"
=============================================================================
