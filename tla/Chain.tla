------------------------------- MODULE Chain --------------------------------
(***************************************************************************)
(* The three programs together: a client, a proxy and a server, joined by  *)
(* two connections.  The client's wire (request, reply, fin, link) is the  *)
(* proxy's client side, the proxy's server side (upRequest, upReply,       *)
(* upFin, upLink) the server's wire; nothing is left to an environment but *)
(* the signal that ends the server.                                        *)
(***************************************************************************)
EXTENDS Naturals, Sequences, FiniteSets

CONSTANTS
  Reqs, MaxConcurrentConnections, ShortBodies, \* the client
  ParallelConn,                                \* the proxy
  NoStream, Workers, BufSize, ServerFaults     \* the server

ASSUME ChainAssumption ==
  /\ IsFiniteSet(Reqs) /\ MaxConcurrentConnections \in Nat \ {0}
  /\ ShortBodies \subseteq Reqs
  /\ ParallelConn \in Nat
  /\ NoStream \notin Reqs /\ IsFiniteSet(Workers) /\ BufSize \in Nat \ {0}
  /\ ServerFaults \subseteq {"garbled", "stops", "gone", "signal"}

VARIABLES
  request, reply, fin, link,                  \* client - proxy
  upRequest, upReply, upFin, upLink,          \* proxy - server
  main, done, counter, wg, pc, idx, got, pending, result, measured,
  proxyUp, accept, proxyPc, dest, proxyResult, upTokens, dnTokens, leak,
  serverUp, handler, queue, worker, job, attempt

wires == <<request, reply, fin, link, upRequest, upReply, upFin, upLink>>
clientOnly == <<main, done, counter, wg, pc, idx, got, pending, result, measured>>
proxyOnly == <<proxyUp, accept, proxyPc, dest, proxyResult, upTokens, dnTokens, leak>>
serverOnly == <<serverUp, handler, queue, worker, job, attempt>>
vars == <<wires, clientOnly, proxyOnly, serverOnly>>

\* The client has one connection, number 0, to the proxy, and the proxy one,
\* number 1, to the server.
C == INSTANCE Client
  WITH NDest <- 1, Timer <- TRUE, Faults <- {}, MaxReplies <- 0

P == INSTANCE Proxy
  WITH Conns <- {0}, Streams <- Reqs, ConnOf <- [r \in Reqs |-> 0],
       Servers <- {1}, NoServer <- 0, Faults <- {}, MaxReplies <- 1,
       up <- proxyUp, pc <- proxyPc, result <- proxyResult

S == INSTANCE Server
  WITH Streams <- Reqs, Rounds <- {1}, Suppresses <- FALSE, Decision <- "total",
       HasBlock <- FALSE, Faults <- ServerFaults, MaxStops <- 0,
       request <- upRequest, reply <- upReply, fin <- upFin, up <- serverUp,
       peer <- [r \in Reqs |-> IF upLink[1] = "up" THEN "reading" ELSE "gone"]

-----------------------------------------------------------------------------
Init == C!Init /\ P!Init /\ S!Init

ByClient(A) == A /\ UNCHANGED <<upRequest, upReply, upFin, upLink, proxyOnly, serverOnly>>
ByProxy(A) == A /\ UNCHANGED <<clientOnly, serverOnly>>
ByServer(A) == UNCHANGED <<request, reply, fin, link, upLink, clientOnly, proxyOnly>> /\ A

(* The proxy gives the connection to a server that is gone up after        *)
(* MaxIdleTimeout, and never dials again.                                  *)
ServerMissed ==
  /\ ~serverUp /\ upLink[1] = "up"
  /\ upLink' = [upLink EXCEPT ![1] = "lost"]
  /\ UNCHANGED <<request, reply, fin, link, upRequest, upReply, upFin,
                 clientOnly, proxyOnly, serverOnly>>

Next ==
  \/ ByClient(C!ClientNext)
  \/ ByProxy(P!ProxyNext)
  \/ ByServer(S!ServerNext)
  \/ ServerMissed

Spec == Init /\ [][Next]_vars

(* The least one can ask of a scheduler: as long as some goroutine of the  *)
(* three programs can run, one does.  Nothing is promised about what a     *)
(* peer says, nor that there will be a tick or a signal.                   *)
Progress ==
  \/ ByClient(C!TimerFires \/ C!ReceiveDone \/ C!Stop)
  \/ \E r \in Reqs : \/ ByClient(C!NewReq(r) \/ C!forwardResponse(r))
                     \/ ByProxy(P!newRequest(r))
                     \/ ByServer(S!HandlerStep(r))
  \/ ByProxy(P!newClient(0))
  \/ \E w \in Workers : ByServer(S!WorkerStep(w))
  \/ ServerMissed

FairSpec == Spec /\ WF_vars(Progress)

-----------------------------------------------------------------------------
(* End to end, the client learns what became of its request: a measured    *)
(* Response was encoded by a worker for this very request, QueueFull means *)
(* the server's channel was full, and ServerTimeout that the connection to *)
(* the server was lost after the request had been sent (client.go:268-293, *)
(* proxy.go:240-280, server.go:281-345).                                   *)
EndToEnd ==
  \A r \in Reqs :
    /\ r \in measured => upReply[r] = <<"Response">> /\ handler[r] = "queued"
    /\ got[r] = "QueueFull" => handler[r] = "refused" /\ upReply[r] = <<"QueueFull">>
    /\ got[r] = "ServerTimeout" => upRequest[r] = "sent" /\ upLink[1] = "lost"
    /\ got[r] = "ServerNotFound" => upRequest[r] = "none"

(* The test ends, even when the server's queue overflows: unlike a client  *)
(* connected to the server directly, this one always sees its streams      *)
(* closed, by the proxy (proxy.go:153-158).                                *)
TestEnds == done # {} ~> main = "stopped"
=============================================================================
