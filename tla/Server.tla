------------------------------- MODULE Server -------------------------------
(***************************************************************************)
(* The RoPE server, pkg/server/server.go.                                  *)
(*                                                                         *)
(* Every QUIC stream carries one request.  newRequest accepts the stream   *)
(* and starts a goroutine newRequestServer for it, which decodes the       *)
(* request and tries to put it on the bounded channel requestQueue; when   *)
(* the channel is full the stream is answered QueueFull by the same        *)
(* goroutine.  A fixed pool of workers takes jobs off the channel, calls   *)
(* the application's ForwardDecision one or more times, encodes a Response *)
(* after each call, and closes the stream.                                 *)
(*                                                                         *)
(* The wire (request, reply, fin, peer, up) is kept in variables of its    *)
(* own so that other modules can share it; the actions named Peer... are   *)
(* the remote end of the streams and are not part of the server.           *)
(***************************************************************************)
EXTENDS Naturals, Sequences, FiniteSets

CONSTANTS
  Streams,       \* streams peers may open; one request is sent on each
  NoStream,      \* "no job in hand"
  Workers,       \* the worker goroutines; parseServerConfig accepts none
  BufSize,       \* capacity of requestQueue
  Rounds,        \* how many times ForwardDecision may ask to be called per job
  Suppresses,    \* whether ForwardDecision may set Destination to " "
  Decision,      \* the ForwardDecision given to Run: "total" never panics,
                 \* "partial" may panic, "nil" is no function at all
  HasBlock,      \* TRUE: Run was given a ForwardBlock callback
  Faults,        \* peer and operating-system events the environment produces
  MaxStops       \* bound on the number of peers that stop reading

FaultKinds == {"garbled", "stops", "gone", "signal"}

ASSUME ServerAssumption ==
  /\ NoStream \notin Streams
  /\ IsFiniteSet(Workers)              \* server.go:187, :239
  /\ BufSize \in Nat \ {0}            \* server.go:179
  /\ Rounds \subseteq Nat \ {0}
  /\ Suppresses \in BOOLEAN /\ HasBlock \in BOOLEAN
  /\ Decision \in {"total", "partial", "nil"}
  /\ Faults \subseteq FaultKinds
  /\ MaxStops \in Nat

VARIABLES
  request,   \* request[s]: what the peer has sent on s
  reply,     \* reply[s]: the messages encoded on s by the server
  fin,       \* streams whose sending side the server has closed
  peer,      \* peer[s]: is the remote end of s still reading?
  up         \* the server process is running

VARIABLES
  handler,   \* handler[s]: where newRequestServer is for stream s
  queue,     \* the channel requestQueue
  worker,    \* worker[w]: where worker w is in its loop
  job,       \* job[w]: the stream of the job w took last
  attempt    \* attempt[w]: rounds already made for that job

wire == <<request, reply, fin, peer, up>>
internals == <<handler, queue, worker, job, attempt>>
vars == <<wire, internals>>

-----------------------------------------------------------------------------
(* Encoding on a stream reaches the peer only while the peer reads; the    *)
(* code prints the error of Encode and goes on.                            *)
Encode(s, type) ==
  reply' = IF peer[s] = "reading" THEN [reply EXCEPT ![s] = Append(@, type)]
                                  ELSE reply

Init ==
  /\ request = [s \in Streams |-> "none"]
  /\ reply = [s \in Streams |-> <<>>]
  /\ fin = {}
  /\ peer = [s \in Streams |-> "reading"]
  /\ up = TRUE
  /\ handler = [s \in Streams |-> "idle"]
  /\ queue = <<>>
  /\ worker = [w \in Workers |-> "receive"]
  /\ job = [w \in Workers |-> NoStream]
  /\ attempt = [w \in Workers |-> 0]

-----------------------------------------------------------------------------
(* Slips.  Each is an action defined below with one plausible mistake in   *)
(* it; no specification uses them.  They show which mistake a property     *)
(* would catch.                                                            *)

(* the refusal is sent without setting packet.Type *)
RefuseUntyped(s) ==
  /\ up /\ handler[s] = "full"
  /\ handler' = [handler EXCEPT ![s] = "refused"]
  /\ Encode(s, "Request")
  /\ UNCHANGED <<request, fin, peer, up, queue, worker, job, attempt>>

(* the stream is told QueueFull and its request tried again *)
RefuseAndRetry(s) ==
  /\ up /\ handler[s] = "full"
  /\ handler' = [handler EXCEPT ![s] = "decode"]
  /\ reply' = [reply EXCEPT ![s] = <<"QueueFull">>]
  /\ UNCHANGED <<request, fin, peer, up, queue, worker, job, attempt>>

(* the capacity test is off by one *)
EnqueueOneMore(s) ==
  /\ up /\ handler[s] = "decode" /\ request[s] = "sent" /\ Len(queue) <= BufSize
  /\ handler' = [handler EXCEPT ![s] = "queued"]
  /\ queue' = Append(queue, s)
  /\ UNCHANGED <<wire, worker, job, attempt>>

(* the job is looked at and left on the queue *)
ReceivePeeks(w) ==
  /\ up /\ worker[w] = "receive" /\ queue # <<>>
  /\ job' = [job EXCEPT ![w] = Head(queue)]
  /\ attempt' = [attempt EXCEPT ![w] = 0]
  /\ worker' = [worker EXCEPT ![w] = "decide"]
  /\ UNCHANGED <<wire, handler, queue>>

(* the job is served again after its stream was closed *)
CloseAndRepeat(w) ==
  /\ up /\ worker[w] = "close" /\ peer[job[w]] # "stopped"
  /\ fin' = fin \cup {job[w]}
  /\ attempt' = [attempt EXCEPT ![w] = 0]
  /\ worker' = [worker EXCEPT ![w] = "decide"]
  /\ UNCHANGED <<request, reply, peer, up, handler, queue, job>>

(* the stream is never closed *)
CloseForgotten(w) ==
  /\ up /\ worker[w] = "close"
  /\ job' = [job EXCEPT ![w] = NoStream]
  /\ worker' = [worker EXCEPT ![w] = "receive"]
  /\ UNCHANGED <<wire, handler, queue, attempt>>

(* the worker returns whenever the peer is no longer there *)
CloseFailsOnLoss(w) ==
  /\ up /\ worker[w] = "close" /\ peer[job[w]] # "reading"
  /\ worker' = [worker EXCEPT ![w] = "returned"]
  /\ UNCHANGED <<wire, handler, queue, job, attempt>>

-----------------------------------------------------------------------------
(* One goroutine per stream: newRequest, newRequestServer, handleQueueFull *)

(* AcceptStream returns s and a goroutine is started for it.  It fails     *)
(* when the connection is lost, which ends the loop for that connection;   *)
(* the one error that ends the process is covered by Shutdown.             *)
Accept(s) ==
  /\ up /\ handler[s] = "idle" /\ request[s] # "none" /\ peer[s] # "gone"
  /\ handler' = [handler EXCEPT ![s] = "decode"]
  /\ UNCHANGED <<wire, queue, worker, job, attempt>>

(* Decode fails: the goroutine returns and leaves the stream as it is. *)
DecodeFails(s) ==
  /\ up /\ handler[s] = "decode" /\ (request[s] = "garbled" \/ peer[s] = "gone")
  /\ handler' = [handler EXCEPT ![s] = "failed"]
  /\ UNCHANGED <<wire, queue, worker, job, attempt>>

(* select, first case: there is room on the channel. *)
Enqueue(s) ==
  /\ up /\ handler[s] = "decode" /\ request[s] = "sent" /\ Len(queue) < BufSize
  /\ handler' = [handler EXCEPT ![s] = "queued"]
  /\ queue' = Append(queue, s)
  /\ UNCHANGED <<wire, worker, job, attempt>>

(* select, default case: the channel is full at this moment. *)
FindFull(s) ==
  /\ up /\ handler[s] = "decode" /\ request[s] = "sent" /\ Len(queue) >= BufSize
  /\ handler' = [handler EXCEPT ![s] = "full"]
  /\ UNCHANGED <<wire, queue, worker, job, attempt>>

(* Without a ForwardBlock callback the stream is answered QueueFull; it is *)
(* not closed.  With one, the stream is the callback's business.           *)
HandleQueueFull(s) ==
  /\ up /\ handler[s] = "full"
  /\ handler' = [handler EXCEPT ![s] = "refused"]
  /\ IF HasBlock THEN UNCHANGED reply ELSE Encode(s, "QueueFull")
  /\ UNCHANGED <<request, fin, peer, up, queue, worker, job, attempt>>

-----------------------------------------------------------------------------
(* The worker pool *)

(* The body is padded or cut to ResSize; a negative ResSize panics there,  *)
(* one step before DecidePanics and to the same effect.                    *)
Receive(w) ==
  /\ up /\ worker[w] = "receive" /\ queue # <<>>
  /\ job' = [job EXCEPT ![w] = Head(queue)]
  /\ queue' = Tail(queue)
  /\ attempt' = [attempt EXCEPT ![w] = 0]
  /\ worker' = [worker EXCEPT ![w] = "decide"]
  /\ UNCHANGED <<wire, handler>>

(* One turn of the send loop: ForwardDecision says whether there will be   *)
(* another turn and may suppress this turn's message.                      *)
Decide(w) ==
  /\ up /\ Decision # "nil" /\ worker[w] = "decide"
  /\ attempt' = [attempt EXCEPT ![w] = @ + 1]
  /\ \/ /\ attempt'[w] \in Rounds
        /\ worker' = [worker EXCEPT ![w] = "close"]
     \/ /\ \E n \in Rounds : attempt'[w] < n
        /\ UNCHANGED worker
  /\ \/ Encode(job[w], "Response")
     \/ Suppresses /\ UNCHANGED reply
  /\ UNCHANGED <<request, fin, peer, up, handler, queue, job>>

(* Calling a nil ForwardDecision panics, and so does ReplyDecision on a    *)
(* body shorter than the eight bytes it writes; nothing recovers, and a    *)
(* panic in any goroutine ends the process.                                *)
DecidePanics(w) ==
  /\ up /\ Decision # "total" /\ worker[w] = "decide"
  /\ up' = FALSE
  /\ UNCHANGED <<request, reply, fin, peer, internals>>

CloseStream(w) ==
  /\ up /\ worker[w] = "close" /\ peer[job[w]] # "stopped"
  /\ fin' = fin \cup {job[w]}
  /\ job' = [job EXCEPT ![w] = NoStream]
  /\ worker' = [worker EXCEPT ![w] = "receive"]
  /\ UNCHANGED <<request, reply, peer, up, handler, queue, attempt>>

(* Close fails on a stream the peer has stopped reading, and the error     *)
(* makes the worker return: the pool is one worker smaller from now on.    *)
CloseFails(w) ==
  /\ up /\ worker[w] = "close" /\ peer[job[w]] = "stopped"
  /\ worker' = [worker EXCEPT ![w] = "returned"]
  /\ UNCHANGED <<wire, handler, queue, job, attempt>>

(* SIGINT or SIGTERM: the shutdown function ends in os.Exit(0). *)
Shutdown ==
  /\ up /\ "signal" \in Faults
  /\ up' = FALSE
  /\ UNCHANGED <<request, reply, fin, peer, internals>>

-----------------------------------------------------------------------------
(* The remote ends, as far as a running server can notice them *)

PeerSends(s) ==
  /\ up /\ request[s] = "none"
  /\ \/ request' = [request EXCEPT ![s] = "sent"]
     \/ "garbled" \in Faults /\ request' = [request EXCEPT ![s] = "garbled"]
  /\ UNCHANGED <<reply, fin, peer, up, internals>>

Stopped == {s \in Streams : peer[s] = "stopped"}

(* The peer cancels the receiving side of s (STOP_SENDING). *)
PeerStops(s) ==
  /\ "stops" \in Faults /\ Cardinality(Stopped) < MaxStops
  /\ up /\ request[s] # "none" /\ peer[s] = "reading" /\ s \notin fin
  /\ peer' = [peer EXCEPT ![s] = "stopped"]
  /\ UNCHANGED <<request, reply, fin, up, internals>>

(* The connection of s is lost. *)
PeerGone(s) ==
  /\ "gone" \in Faults
  /\ up /\ request[s] # "none" /\ peer[s] = "reading" /\ s \notin fin
  /\ peer' = [peer EXCEPT ![s] = "gone"]
  /\ UNCHANGED <<request, reply, fin, up, internals>>

-----------------------------------------------------------------------------
HandlerStep(s) ==
  Accept(s) \/ DecodeFails(s) \/ Enqueue(s) \/ FindFull(s) \/ HandleQueueFull(s)

WorkerStep(w) ==
  Receive(w) \/ Decide(w) \/ DecidePanics(w) \/ CloseStream(w) \/ CloseFails(w)

PeerStep(s) == PeerSends(s) \/ PeerStops(s) \/ PeerGone(s)

ServerNext ==
  \/ \E s \in Streams : HandlerStep(s)
  \/ \E w \in Workers : WorkerStep(w)
  \/ Shutdown

Next == ServerNext \/ \E s \in Streams : PeerStep(s)

Spec == Init /\ [][Next]_vars

(* The least one can ask of a scheduler: as long as some goroutine of the  *)
(* server can run, one does.  Peers promise nothing.                       *)
Progress ==
  \/ \E s \in Streams : HandlerStep(s)
  \/ \E w \in Workers : WorkerStep(w)

FairSpec == Spec /\ WF_vars(Progress)

-----------------------------------------------------------------------------
MsgTypes == {"Response", "QueueFull"}

(* Type invariant. *)
TypeOK ==
  /\ request \in [Streams -> {"none", "sent", "garbled"}]
  /\ reply \in [Streams -> Seq(MsgTypes)]
  /\ fin \subseteq Streams
  /\ peer \in [Streams -> {"reading", "stopped", "gone"}]
  /\ up \in BOOLEAN
  /\ handler \in [Streams -> {"idle", "decode", "full", "queued", "refused", "failed"}]
  /\ queue \in Seq(Streams)
  /\ worker \in [Workers -> {"receive", "decide", "close", "returned"}]
  /\ job \in [Workers -> Streams \cup {NoStream}]
  /\ attempt \in [Workers -> Nat]

Queued == {queue[i] : i \in 1..Len(queue)}
InHand == {job[w] : w \in Workers} \ {NoStream}
(* Requests the server has taken on and not finished with. *)
Pending == {s \in Streams : handler[s] = "queued" /\ s \notin fin}

(* A request the server took on is in exactly one place until its stream   *)
(* is closed: once on the channel, or in the hands of one worker.  Neither *)
(* the hand-over through requestQueue (server.go:282, :309) nor a worker   *)
(* that returns loses or duplicates a job.                                 *)
OneOwner ==
  /\ Pending = Queued \cup InHand
  /\ Queued \cap InHand = {}
  /\ \A i, j \in 1..Len(queue) : queue[i] = queue[j] => i = j
  /\ \A v, w \in Workers : job[v] = job[w] /\ job[v] # NoStream => v = w

(* The workers that serve a job, or were lost to one. *)
Busy == {w \in Workers : worker[w] # "receive"}

(* Backpressure: the server holds no more unfinished work than fills its   *)
(* channel (server.go:226) and keeps its workers busy (:240), however many *)
(* streams the peers open.  An idle worker makes no room for more: a       *)
(* burst is refused beyond BufSize until some worker has received a job.   *)
Backpressure == Cardinality(Pending) <= BufSize + Cardinality(Busy)

(* Only streams whose request was taken on carry a Response, and only      *)
(* refused ones a QueueFull, at most once: no stream is both answered and  *)
(* refused, and a stream is closed only after its request was handled      *)
(* (server.go:281-286, :330-341).                                          *)
ReplyMatchesFate ==
  \A s \in Streams :
    /\ handler[s] = "refused" => reply[s] \in {<<>>, <<"QueueFull">>}
    /\ handler[s] = "queued" => \A i \in 1..Len(reply[s]) : reply[s][i] = "Response"
    /\ handler[s] \notin {"refused", "queued"} => reply[s] = <<>>
    /\ s \in fin => handler[s] = "queued"

(* A worker is lost only to a stream its peer stopped reading, and no two  *)
(* workers to the same stream, so the pool survives as long as fewer peers *)
(* stop than there are workers (server.go:341-344).                        *)
WorkersLost == {w \in Workers : worker[w] = "returned"}
LossesExplained == Cardinality(WorkersLost) <= Cardinality(Stopped)

(* A closed stream is never written again, a refused or failed request is  *)
(* never taken on later, and a server that has gone down stays down.       *)
FinalIsFinal ==
  [][/\ \A s \in fin : s \in fin' /\ reply'[s] = reply[s]
     /\ \A s \in Streams : handler[s] \in {"refused", "failed"} => handler'[s] = handler[s]
     /\ up' => up]_vars

(* Every stream the server accepts is settled: refused, undecodable, or    *)
(* its stream closed; the only excuses are that the server went down or    *)
(* that the peer itself stopped reading.  A settled stream stays settled,  *)
(* so this is said of all of them together: the server always catches up   *)
(* with what it has accepted (server.go:281-286, :309-346).                *)
Settled(s) ==
  handler[s] \in {"idle", "refused", "failed"} \/ s \in fin \/ peer[s] = "stopped"
EveryRequestSettled == []<>(up => \A s \in Streams : Settled(s))

-----------------------------------------------------------------------------
(* What the peer of s can tell of its request. *)
Fate(s) ==
  CASE s \in fin -> "done"
    [] s \notin fin /\ handler[s] = "queued" -> "taken"
    [] handler[s] \in {"refused", "failed"} -> handler[s]
    [] OTHER -> "new"

Promise == INSTANCE RequestReply
  WITH Capacity <- BufSize + Cardinality(Workers),
       fate <- [s \in Streams |-> Fate(s)], told <- reply, alive <- up

(* The server implements the request/reply promise: whatever interleaving  *)
(* of handlers, workers, faulty peers and shutdown, a peer sees its request *)
(* taken on within the capacity, answered and finished, or refused, or     *)
(* nothing (server.go:272-345).                                            *)
ImplementsRequestReply == Promise!ASpec
=============================================================================
