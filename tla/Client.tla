------------------------------- MODULE Client -------------------------------
(***************************************************************************)
(* The RoPE client, pkg/client/client.go, under the main loop of           *)
(* examples/client/main.go (the one the documentation tells users to       *)
(* write).                                                                 *)
(*                                                                         *)
(* The main goroutine selects between the channel Done and a ticker.  A    *)
(* tick starts a goroutine, unless as many requests are in flight as       *)
(* MaxConcurrentConnections allows; the goroutine runs NewReq, which opens *)
(* a stream, sends the request and decodes responses until the stream      *)
(* ends, starting a goroutine forwardResponse for each.  Done is sent to   *)
(* by the goroutine of the test timer and by the one that waits for a      *)
(* signal; it makes the main goroutine wait for all requests, print the    *)
(* histogram and return.                                                   *)
(*                                                                         *)
(* Each request opens one stream, named after it.  request, reply, fin and *)
(* link are the wire.                                                      *)
(***************************************************************************)
EXTENDS Naturals, Sequences, FiniteSets

CONSTANTS
  Reqs,        \* identifiers of the requests the ticker may start
  NDest,       \* length of Destinations
  MaxConcurrentConnections,
  Timer,       \* TRUE: TestDuration is positive
  ShortBodies, \* requests whose answer has a body under eight bytes
  Faults,      \* what the connections and servers may do wrong
  MaxReplies   \* bound on the messages a server sends on one stream

FaultKinds == {"dialFails", "linkLost", "streamLimit", "queueFull", "signal"}

ASSUME ClientAssumption ==
  /\ IsFiniteSet(Reqs)
  /\ NDest \in Nat \ {0}                         \* client.go:97
  /\ MaxConcurrentConnections \in Nat \ {0}      \* client.go:117
  /\ Timer \in BOOLEAN /\ ShortBodies \subseteq Reqs
  /\ Faults \subseteq FaultKinds
  /\ MaxReplies \in Nat

VARIABLES
  request,   \* request[r]: what the client has sent on the stream of r
  reply,     \* reply[r]: the messages sent back on it
  fin,       \* streams closed by the other end
  link       \* link[i]: Connections[i]; "none" when it was never made

VARIABLES
  main,      \* the main goroutine
  done,      \* goroutines that have started to send on Done
  counter,   \* number of elements in the channel counter
  wg,        \* the WaitGroup of main
  pc,        \* pc[r]: where the goroutine of request r is
  idx,       \* idx[r]: idxdest of request r
  got,       \* got[r]: type of the message decoded, if one was
  pending,   \* pending[r]: the WaitGroup of NewReq, i.e. running forwardResponses
  result,    \* result[r]: what NewReq returned
  measured   \* requests with an entry in the histogram

wire == <<request, reply, fin, link>>
loop == <<main, done>>
slots == <<counter, wg>>
calls == <<pc, idx, got, pending, result, measured>>
vars == <<wire, loop, slots, calls>>

Index == 0..(NDest - 1)

(* InitClient ignores the error of clientMain, which stops dialling at the *)
(* first destination it cannot reach: Connections may be short.            *)
Dialled(n) == link = [i \in Index |-> IF i < n THEN "up" ELSE "none"]

Init ==
  /\ request = [r \in Reqs |-> "none"]
  /\ reply = [r \in Reqs |-> <<>>]
  /\ fin = {}
  /\ \E n \in IF "dialFails" \in Faults THEN 0..NDest ELSE {NDest} : Dialled(n)
  /\ main = "select"
  /\ done = {}
  /\ counter = 0 /\ wg = 0
  /\ pc = [r \in Reqs |-> "idle"]
  /\ idx = [r \in Reqs |-> 0]
  /\ got = [r \in Reqs |-> "none"]
  /\ pending = [r \in Reqs |-> 0]
  /\ result = [r \in Reqs |-> "none"]
  /\ measured = {}

Running == main \in {"select", "draining"}

-----------------------------------------------------------------------------
(* Slips.  Each is an action defined below with one plausible mistake in   *)
(* it; no specification uses them.  They show which mistake a property     *)
(* would catch.                                                            *)

(* the limit on concurrent requests is not looked at *)
TickUnlimited(r) ==
  /\ main = "select" /\ pc[r] = "idle"
  /\ counter' = counter + 1
  /\ wg' = wg + 1
  /\ pc' = [pc EXCEPT ![r] = "decide"]
  /\ UNCHANGED <<wire, loop, idx, got, pending, result, measured>>

(* the ticker is not stopped while the client drains *)
TickWhileDraining(r) ==
  /\ Running /\ pc[r] = "idle" /\ counter # MaxConcurrentConnections
  /\ counter' = counter + 1
  /\ wg' = wg + 1
  /\ pc' = [pc EXCEPT ![r] = "decide"]
  /\ UNCHANGED <<wire, loop, idx, got, pending, result, measured>>

(* the early return does not run the deferred calls *)
OpenFailsKeepsSlot(r) ==
  /\ Running /\ pc[r] = "open" /\ (link[idx[r]] = "lost" \/ "streamLimit" \in Faults)
  /\ result' = [result EXCEPT ![r] = "error"]
  /\ pc' = [pc EXCEPT ![r] = "returned"]
  /\ UNCHANGED <<wire, loop, slots, idx, got, pending, measured>>

(* reading stops at the first message *)
ReadOne(r) ==
  /\ Running /\ pc[r] = "read" /\ (got[r] # "none" \/ link[idx[r]] = "lost")
  /\ pc' = [pc EXCEPT ![r] = "join"]
  /\ UNCHANGED <<wire, loop, slots, idx, got, pending, result, measured>>

(* wg.Wait is missing in NewReq *)
JoinWithoutWait(r) ==
  /\ Running /\ pc[r] = "join"
  /\ result' = [result EXCEPT ![r] = "nil"]
  /\ pc' = [pc EXCEPT ![r] = "release"]
  /\ UNCHANGED <<wire, loop, slots, idx, got, pending, measured>>

(* wg.Done is both deferred and called *)
forwardResponseDoneTwice(r) ==
  /\ Running /\ pending[r] > 0
  /\ pending' = [pending EXCEPT ![r] = @ - 2]
  /\ UNCHANGED <<wire, loop, slots, pc, idx, got, result, measured>>

(* messages of every type are measured *)
MeasureEverything(r) == measured' = measured \cup {r}

-----------------------------------------------------------------------------
(* The main goroutine, the timer and the signal handler *)

(* A tick with a free slot; a tick without one changes nothing. *)
Tick(r) ==
  /\ main = "select" /\ pc[r] = "idle" /\ counter # MaxConcurrentConnections
  /\ counter' = counter + 1
  /\ wg' = wg + 1
  /\ pc' = [pc EXCEPT ![r] = "decide"]
  /\ UNCHANGED <<wire, loop, idx, got, pending, result, measured>>

(* Both senders outlive the one receive: the second blocks for good. *)
SendDone(sender) ==
  /\ Running /\ sender \notin done
  /\ done' = done \cup {sender}
  /\ UNCHANGED <<wire, main, slots, calls>>

TimerFires == Timer /\ SendDone("timer")
Signalled == "signal" \in Faults /\ SendDone("signal")

ReceiveDone ==
  /\ main = "select" /\ done # {}
  /\ main' = "draining"
  /\ UNCHANGED <<wire, done, slots, calls>>

(* wg.Wait returns, the histogram is printed and the process ends. *)
Stop ==
  /\ main = "draining" /\ wg = 0
  /\ main' = "stopped"
  /\ UNCHANGED <<wire, done, slots, calls>>

-----------------------------------------------------------------------------
(* The goroutine of a request: NewReq *)

(* A destination that is not in Destinations leaves idxdest at 0; an index *)
(* past the end of Connections panics, which ends the process.             *)
Decide(r) ==
  /\ Running /\ pc[r] = "decide"
  /\ \E i \in Index :
       /\ idx' = [idx EXCEPT ![r] = i]
       /\ IF link[i] = "none"
            THEN main' = "crashed" /\ UNCHANGED pc
            ELSE pc' = [pc EXCEPT ![r] = "open"] /\ UNCHANGED main
  /\ UNCHANGED <<wire, done, slots, got, pending, result, measured>>

OpenStream(r) ==
  /\ Running /\ pc[r] = "open" /\ link[idx[r]] = "up"
  /\ pc' = [pc EXCEPT ![r] = "send"]
  /\ UNCHANGED <<wire, loop, slots, idx, got, pending, result, measured>>

Fail(r) ==
  /\ result' = [result EXCEPT ![r] = "error"]
  /\ pc' = [pc EXCEPT ![r] = "release"]

OpenFails(r) ==
  /\ Running /\ pc[r] = "open" /\ (link[idx[r]] = "lost" \/ "streamLimit" \in Faults)
  /\ Fail(r)
  /\ UNCHANGED <<wire, loop, slots, idx, got, pending, measured>>

Send(r) ==
  /\ Running /\ pc[r] = "send" /\ link[idx[r]] = "up"
  /\ request' = [request EXCEPT ![r] = "sent"]
  /\ pc' = [pc EXCEPT ![r] = "read"]
  /\ UNCHANGED <<reply, fin, link, loop, slots, idx, got, pending, result, measured>>

SendFails(r) ==
  /\ Running /\ pc[r] = "send" /\ link[idx[r]] = "lost"
  /\ Fail(r)
  /\ UNCHANGED <<wire, loop, slots, idx, got, pending, measured>>

(* The first message is decoded and handed to a goroutine. *)
Receive(r) ==
  /\ Running /\ pc[r] = "read" /\ got[r] = "none" /\ reply[r] # <<>>
  /\ got' = [got EXCEPT ![r] = Head(reply[r])]
  /\ pending' = [pending EXCEPT ![r] = @ + 1]
  /\ UNCHANGED <<wire, loop, slots, pc, idx, result, measured>>

(* Decode fails: connection lost, end of stream, or a second message.  The *)
(* sender uses a new gob.Encoder for every message, which sends the type   *)
(* again, and the one Decoder here refuses a type it already has.          *)
(* client.Timeout is never armed: waiting has no other end.                *)
ReadEnds(r) ==
  /\ Running /\ pc[r] = "read"
  /\ \/ link[idx[r]] = "lost"
     \/ r \in fin /\ (reply[r] = <<>> \/ got[r] # "none")
     \/ got[r] # "none" /\ Len(reply[r]) > 1
  /\ pc' = [pc EXCEPT ![r] = "join"]
  /\ UNCHANGED <<wire, loop, slots, idx, got, pending, result, measured>>

(* NewReq returns nil whether or not something was received: the err it    *)
(* returns when nothing was is the one of OpenStream, which is nil here.   *)
Join(r) ==
  /\ Running /\ pc[r] = "join" /\ pending[r] = 0
  /\ result' = [result EXCEPT ![r] = "nil"]
  /\ pc' = [pc EXCEPT ![r] = "release"]
  /\ UNCHANGED <<wire, loop, slots, idx, got, pending, measured>>

(* The deferred calls, last one first. *)
Release(r) ==
  /\ Running /\ pc[r] = "release" /\ counter > 0
  /\ counter' = counter - 1
  /\ pc' = [pc EXCEPT ![r] = "signoff"]
  /\ UNCHANGED <<wire, loop, wg, idx, got, pending, result, measured>>

SignOff(r) ==
  /\ Running /\ pc[r] = "signoff"
  /\ wg' = wg - 1
  /\ pc' = [pc EXCEPT ![r] = "returned"]
  /\ UNCHANGED <<wire, loop, counter, idx, got, pending, result, measured>>

(* A Response is measured, if its body has room for the timestamp that was *)
(* sent with the request; any other message is ignored.                    *)
FixedSetLastResponse(r) ==
  measured' = IF got[r] = "Response" /\ r \notin ShortBodies
              THEN measured \cup {r} ELSE measured

forwardResponse(r) ==
  /\ Running /\ pending[r] > 0
  /\ FixedSetLastResponse(r)
  /\ pending' = [pending EXCEPT ![r] = @ - 1]
  /\ UNCHANGED <<wire, loop, slots, pc, idx, got, result>>

-----------------------------------------------------------------------------
(* The connections and the servers *)

ServerSays(r, type) ==
  /\ request[r] = "sent" /\ r \notin fin /\ link[idx[r]] = "up"
  /\ reply' = [reply EXCEPT ![r] = Append(@, type)]
  /\ UNCHANGED <<request, fin, link, loop, slots, calls>>

Refused(r) == reply[r] # <<>> /\ Head(reply[r]) = "QueueFull"

ServerAnswers(r) ==
  ~Refused(r) /\ Len(reply[r]) < MaxReplies /\ ServerSays(r, "Response")

(* QueueFull is sent once, and the stream is left open. *)
ServerRefuses(r) ==
  "queueFull" \in Faults /\ reply[r] = <<>> /\ ServerSays(r, "QueueFull")

ServerCloses(r) ==
  /\ request[r] = "sent" /\ r \notin fin /\ link[idx[r]] = "up" /\ ~Refused(r)
  /\ fin' = fin \cup {r}
  /\ UNCHANGED <<request, reply, link, loop, slots, calls>>

LinkLost(i) ==
  /\ "linkLost" \in Faults /\ link[i] = "up"
  /\ link' = [link EXCEPT ![i] = "lost"]
  /\ UNCHANGED <<request, reply, fin, loop, slots, calls>>

-----------------------------------------------------------------------------
mainLoop == (\E r \in Reqs : Tick(r)) \/ ReceiveDone \/ Stop

NewReq(r) ==
  \/ Decide(r) \/ OpenStream(r) \/ OpenFails(r) \/ Send(r) \/ SendFails(r)
  \/ Receive(r) \/ ReadEnds(r) \/ Join(r) \/ Release(r) \/ SignOff(r)

ClientNext ==
  \/ mainLoop \/ TimerFires \/ Signalled
  \/ \E r \in Reqs : NewReq(r) \/ forwardResponse(r)

ServerStep(r) == ServerAnswers(r) \/ ServerRefuses(r) \/ ServerCloses(r)

Environment ==
  (\E r \in Reqs : ServerStep(r)) \/ (\E i \in Index : LinkLost(i))

Next == ClientNext \/ Environment

Spec == Init /\ [][Next]_vars

(* The least one can ask: as long as the timer has to fire, some goroutine *)
(* of the client can run or a server can close a stream it answers on, one *)
(* of them does.  Ticks, signals and replies need never come.              *)
Progress ==
  \/ TimerFires \/ ReceiveDone \/ Stop
  \/ \E r \in Reqs : NewReq(r) \/ forwardResponse(r) \/ ServerCloses(r)

FairSpec == Spec /\ WF_vars(Progress)

-----------------------------------------------------------------------------
(* What servers and proxies send back (util.go:29-36). *)
MsgTypes == {"Response", "QueueFull", "ServerNotFound", "ServerTimeout", "NoRoute"}

(* Type invariant. *)
TypeOK ==
  /\ request \in [Reqs -> {"none", "sent"}]
  /\ reply \in [Reqs -> Seq(MsgTypes)]
  /\ fin \subseteq Reqs
  /\ link \in [Index -> {"none", "up", "lost"}]
  /\ main \in {"select", "draining", "stopped", "crashed"}
  /\ done \subseteq {"timer", "signal"}
  /\ counter \in Nat /\ wg \in Nat
  /\ pc \in [Reqs -> {"idle", "decide", "open", "send", "read", "join", "release",
                       "signoff", "returned"}]
  /\ idx \in [Reqs -> Index]
  /\ got \in [Reqs -> MsgTypes \cup {"none"}]
  /\ pending \in [Reqs -> Nat]
  /\ result \in [Reqs -> {"none", "nil", "error"}]
  /\ measured \subseteq Reqs

At(labels) == {r \in Reqs : pc[r] \in labels}
HoldingSlot == At({"decide", "open", "send", "read", "join", "release"})

(* The channel counter and the WaitGroup count exactly the requests they   *)
(* stand for, and no more requests than MaxConcurrentConnections are in    *)
(* flight (examples/client/main.go:235-250): so the send at line 242 and   *)
(* the receive at line 246 never block.                                    *)
SlotsAccounted ==
  /\ counter = Cardinality(HoldingSlot)
  /\ wg = Cardinality(HoldingSlot \cup At({"signoff"}))
  /\ counter <= MaxConcurrentConnections

(* The histogram the client prints at the end holds every Response that    *)
(* any request decoded and that has room for a timestamp (main.go:137),    *)
(* and nothing runs any more: draining waits for the requests              *)
(* (main.go:229), and a request for its forwardResponses (client.go:276).  *)
NothingMissedAtStop ==
  main = "stopped" =>
    /\ \A r \in Reqs : pc[r] \in {"idle", "returned"} /\ pending[r] = 0
    /\ measured = {r \in Reqs : got[r] = "Response"} \ ShortBodies

(* A request decodes at most one message, and only of those sent to it; it *)
(* is measured only once decoded, as a Response with a timestamp in it,    *)
(* and an error result means nothing was sent or decoded                   *)
(* (client.go:251-283, examples/client/main.go:133-152).                   *)
ResultsExplained ==
  \A r \in Reqs :
    /\ got[r] # "none" => reply[r] # <<>> /\ got[r] = Head(reply[r])
    /\ r \in measured => got[r] = "Response" /\ r \notin ShortBodies
    /\ result[r] = "error" => request[r] = "none" /\ got[r] = "none"
    /\ result[r] # "none" => pending[r] = 0

(* After Done was received no request starts; what NewReq returned stays;  *)
(* and once the histogram is printed nothing is added to it.               *)
DoneIsFinal ==
  [][/\ main # "select" => \A r \in Reqs : pc[r] = "idle" => pc'[r] = "idle"
     /\ \A r \in Reqs : result[r] # "none" => result'[r] = result[r]
     /\ main = "stopped" => measured' = measured /\ main' = main]_vars

(* The test ends: once TestDuration has passed or a signal has come, the   *)
(* client stops, or has crashed, provided no server refuses a request:     *)
(* QueueFull leaves the stream open, and the client then waits for its end *)
(* without any deadline (client.go:184-197, 256-272; main.go:226-232).     *)
ClientStops ==
  [](\A r \in Reqs : ~ Refused(r)) => (done # {} ~> main \in {"stopped", "crashed"})
=============================================================================
