------------------------------- MODULE Direct -------------------------------
(***************************************************************************)
(* A RoPE client talking to a RoPE server, with nothing in between: the    *)
(* set-up of README.md and docs/GETTING_STARTED.md.  The wire variables    *)
(* are those of both modules: what Client leaves to its environment,       *)
(* Server does, and the other way round.                                   *)
(*                                                                         *)
(* The client never stops reading a stream it has not finished with, so    *)
(* the only trouble the server sees on a stream is a lost connection.      *)
(***************************************************************************)
EXTENDS Naturals, Sequences, FiniteSets

CONSTANTS
  Reqs, MaxConcurrentConnections, ShortBodies, ClientFaults,   \* the client
  NoStream, Workers, BufSize, Rounds, ServerFaults             \* the server

ASSUME DirectAssumption ==
  /\ IsFiniteSet(Reqs) /\ MaxConcurrentConnections \in Nat \ {0}
  /\ ShortBodies \subseteq Reqs
  /\ ClientFaults \subseteq {"dialFails", "linkLost", "streamLimit", "queueFull", "signal"}
  /\ NoStream \notin Reqs /\ IsFiniteSet(Workers) /\ BufSize \in Nat \ {0}
  /\ Rounds \subseteq Nat \ {0}
  /\ ServerFaults \subseteq {"garbled", "stops", "gone", "signal"}

VARIABLES
  request, reply, fin, link,                               \* the wire
  main, done, counter, wg, pc, idx, got, pending, result, measured,
  up, handler, queue, worker, job, attempt

clientOnly == <<main, done, counter, wg, pc, idx, got, pending, result, measured>>
serverOnly == <<up, handler, queue, worker, job, attempt>>
vars == <<request, reply, fin, link, clientOnly, serverOnly>>

C == INSTANCE Client
  WITH NDest <- 1, Timer <- TRUE, Faults <- ClientFaults, MaxReplies <- 0

S == INSTANCE Server
  WITH Streams <- Reqs, Suppresses <- FALSE, Decision <- "total", HasBlock <- FALSE,
       Faults <- ServerFaults, MaxStops <- 0,
       peer <- [r \in Reqs |-> IF link[0] = "up" THEN "reading" ELSE "gone"]

-----------------------------------------------------------------------------
Init == C!Init /\ S!Init

ByClient(A) == A /\ UNCHANGED serverOnly
ByServer(A) == UNCHANGED <<link, clientOnly>> /\ A

(* A server that is gone says nothing any more; after MaxIdleTimeout the   *)
(* client's end gives the connection up, as it does when the network fails *)
(* for that long.                                                          *)
IdleTimeout ==
  /\ link[0] = "up" /\ (~up \/ "linkLost" \in ClientFaults)
  /\ link' = [link EXCEPT ![0] = "lost"]
  /\ UNCHANGED <<request, reply, fin, clientOnly, serverOnly>>

Next ==
  \/ ByClient(C!ClientNext)
  \/ ByServer(S!ServerNext)
  \/ IdleTimeout

Spec == Init /\ [][Next]_vars

(* The least one can ask of a scheduler: as long as some goroutine of the  *)
(* two programs can run, one does.  Nothing is promised about what a peer  *)
(* says, nor that there will be a tick or a signal.                        *)
Progress ==
  \/ ByClient(C!TimerFires \/ C!ReceiveDone \/ C!Stop)
  \/ \E r \in Reqs : \/ ByClient(C!NewReq(r) \/ C!forwardResponse(r))
                     \/ ByServer(S!HandlerStep(r))
  \/ \E w \in Workers : ByServer(S!WorkerStep(w))
  \/ ~up /\ IdleTimeout

FairSpec == Spec /\ WF_vars(Progress)

-----------------------------------------------------------------------------
(* A queue as long as the client's concurrency limit is never full: the    *)
(* sizing rule behind docs/CONFIGURATION.md:238 and :243.  It holds as     *)
(* long as the connection does, because a request keeps its slot in the    *)
(* client (main.go:235-246) at least as long as its place on the server's  *)
(* channel (server.go:281-286).                                            *)
NeverRefused ==
  BufSize >= MaxConcurrentConnections /\ link[0] = "up" =>
    \A r \in Reqs : handler[r] \notin {"full", "refused"}

(* A response the client measured comes from a worker of the server that   *)
(* had taken the request off the queue; and a request for which NewReq     *)
(* returned while the connection held has been closed by the server, so    *)
(* no worker ever works for a client that has gone on (client.go:268-276,  *)
(* server.go:308-345).                                                     *)
NoAbandonedWork ==
  \A r \in Reqs :
    /\ r \in measured => handler[r] = "queued" /\ \A i \in 1..Len(queue) : queue[i] # r
    /\ result[r] = "nil" /\ link[0] = "up" => r \in fin

(* The client's own accounts, here with more requests and a higher limit,  *)
(* and with a server that takes requests in the order its channel and      *)
(* workers give (main.go:235-250, :229; client.go:276).                    *)
SlotsAccounted == C!SlotsAccounted
NothingMissedAtStop == C!NothingMissedAtStop

(* The test ends: when TestDuration is over the client drains and stops,   *)
(* whatever the state of the connection and of the server                  *)
(* (client.go:184-197, main.go:226-232).                                   *)
TestEnds == done # {} ~> main = "stopped"
=============================================================================
