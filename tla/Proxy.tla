------------------------------- MODULE Proxy --------------------------------
(***************************************************************************)
(* The RoPE proxy, pkg/routing/proxy.go.                                   *)
(*                                                                         *)
(* newClient, one goroutine per client connection, accepts streams in a    *)
(* loop; newRequest, one goroutine per stream, decodes the request, lets   *)
(* the routing policy choose a destination, forwards it on a stream of its *)
(* own over the one connection to that server, reads one response, relays  *)
(* it and closes the client's stream.                                      *)
(*                                                                         *)
(* When ParallelConn is positive two channels of that capacity are used as *)
(* semaphores: tokensUp, sent to by newClient before it accepts a stream   *)
(* and received from by forwardRequest after it has sent the request; and  *)
(* tokensDn, held by forwardRequest while it waits for the response.       *)
(*                                                                         *)
(* The stream to the server that serves client stream s is called s too.   *)
(* The client side of the wire is request, reply, fin, link; the server    *)
(* side upRequest, upReply, upFin, upLink.                                 *)
(***************************************************************************)
EXTENDS Naturals, Sequences, FiniteSets

CONSTANTS
  Conns,          \* client connections
  Streams,        \* streams the clients may open
  ConnOf,         \* the connection each stream belongs to
  Servers,        \* destinations of the routing table
  NoServer,       \* not routed
  ParallelConn,   \* 0: no limit
  Faults,         \* what the clients, servers and policy may do wrong
  MaxReplies      \* bound on the messages a server sends on one stream

FaultKinds ==
  {"garbled", "unroutable", "clientLost", "serverLost", "streamLimit",
   "queueFull", "suppress", "signal"}

ASSUME ProxyAssumption ==
  /\ ConnOf \in [Streams -> Conns]
  /\ NoServer \notin Servers
  /\ ParallelConn \in Nat
  /\ Faults \subseteq FaultKinds
  /\ MaxReplies \in Nat \ {0}
  /\ IsFiniteSet(Conns) /\ IsFiniteSet(Streams)

VARIABLES
  request,    \* request[s]: what the client has sent on s
  reply,      \* reply[s]: the messages the proxy has encoded on s
  fin,        \* client streams the proxy has closed
  link,       \* link[c]: client connection c
  upRequest,  \* upRequest[s]: what the proxy has sent on the server stream
  upReply,    \* upReply[s]: the messages the server has sent back on it
  upFin,      \* server streams the server has closed
  upLink,     \* upLink[d]: the connection to server d
  up          \* the proxy process is running

VARIABLES
  accept,     \* accept[c]: where the newClient loop of c is
  pc,         \* pc[s]: where newRequest / forwardRequest is for stream s
  dest,       \* dest[s]: the server chosen for s
  result,     \* result[s]: the type of the message to send back, once known
  upTokens,   \* number of elements in the channel tokensUp
  dnTokens,   \* number of elements in the channel tokensDn
  leak        \* history: tokens whose holder returned without giving them back

down == <<request, reply, fin, link>>
upward == <<upRequest, upReply, upFin, upLink>>
tokens == <<upTokens, dnTokens, leak>>
vars == <<down, upward, up, accept, pc, dest, result, tokens>>

Limited == ParallelConn > 0

Init ==
  /\ request = [s \in Streams |-> "none"]
  /\ reply = [s \in Streams |-> <<>>]
  /\ fin = {}
  /\ link = [c \in Conns |-> "up"]
  /\ upRequest = [s \in Streams |-> "none"]
  /\ upReply = [s \in Streams |-> <<>>]
  /\ upFin = {}
  /\ upLink = [d \in Servers |-> "up"]
  /\ up = TRUE
  /\ accept = [c \in Conns |-> "token"]
  /\ pc = [s \in Streams |-> "idle"]
  /\ dest = [s \in Streams |-> NoServer]
  /\ result = [s \in Streams |-> "none"]
  /\ upTokens = 0 /\ dnTokens = 0
  /\ leak = [up |-> 0, dn |-> 0]

-----------------------------------------------------------------------------
(* Slips.  Each is a definition of below with one plausible mistake in it; *)
(* no specification uses them.  They show which mistake a property would   *)
(* catch.                                                                  *)

(* the capacity is off by one *)
PutTokenOneMore(n) == ~Limited \/ n <= ParallelConn

(* the token is given back as soon as the stream is accepted, as well *)
AcceptAndRelease(c, s) ==
  /\ up /\ accept[c] = "accept" /\ link[c] = "up"
  /\ ConnOf[s] = c /\ request[s] # "none" /\ pc[s] = "idle"
  /\ accept' = [accept EXCEPT ![c] = "token"]
  /\ pc' = [pc EXCEPT ![s] = "decode"]
  /\ upTokens' = upTokens - 1
  /\ UNCHANGED <<down, upward, up, dest, result, dnTokens, leak>>

(* packet.Type is not set *)
NoRouteUntyped(s) ==
  /\ up /\ pc[s] = "decode" /\ request[s] = "sent" /\ "unroutable" \in Faults
  /\ result' = [result EXCEPT ![s] = "Request"]
  /\ pc' = [pc EXCEPT ![s] = "reply"]
  /\ leak' = [leak EXCEPT !.up = @ + 1]
  /\ UNCHANGED <<down, upward, up, accept, dest, upTokens, dnTokens>>

(* a request that could not be sent is reported as timed out *)
SendFailsAsTimeout(s) ==
  /\ up /\ pc[s] = "send"
  /\ pc' = [pc EXCEPT ![s] = "release"]
  /\ \/ /\ upLink[dest[s]] = "up"
        /\ upRequest' = [upRequest EXCEPT ![s] = "sent"]
        /\ UNCHANGED result
     \/ /\ upLink[dest[s]] = "lost"
        /\ result' = [result EXCEPT ![s] = "ServerTimeout"]
        /\ UNCHANGED upRequest
  /\ UNCHANGED <<down, upReply, upFin, upLink, up, accept, dest, tokens>>

(* the token is not taken back *)
ReleaseUpSkipped(s) ==
  /\ up /\ pc[s] = "release"
  /\ pc' = [pc EXCEPT ![s] = IF result[s] = "none" THEN "acquire" ELSE "reply"]
  /\ UNCHANGED <<down, upward, up, accept, dest, result, tokens>>

(* every message is relayed as a Response *)
ReceiveAsResponse(s) ==
  /\ up /\ pc[s] = "await" /\ upReply[s] # <<>>
  /\ result' = [result EXCEPT ![s] = "Response"]
  /\ pc' = [pc EXCEPT ![s] = "deliver"]
  /\ UNCHANGED <<down, upward, up, accept, dest, tokens>>

(* a request that got no answer is forwarded once more *)
AwaitFailsRetries(s) ==
  /\ up /\ pc[s] = "await"
  /\ upLink[dest[s]] = "lost" \/ (s \in upFin /\ upReply[s] = <<>>)
  /\ pc' = [pc EXCEPT ![s] = "open"]
  /\ UNCHANGED <<down, upward, up, accept, dest, result, tokens>>

(* the deferred close is missing *)
ReplyWithoutClose(s) ==
  /\ up /\ pc[s] = "reply"
  /\ reply' = [reply EXCEPT ![s] = Append(@, result[s])]
  /\ pc' = [pc EXCEPT ![s] = "done"]
  /\ UNCHANGED <<request, fin, link, upward, up, accept, dest, result, tokens>>

-----------------------------------------------------------------------------
(* Sending to a channel used as a semaphore blocks while the channel is    *)
(* full, receiving while it is empty; both are skipped without a limit.    *)
PutToken(n) == ~Limited \/ n < ParallelConn
TakeToken(n) == ~Limited \/ n > 0
Put(n) == IF Limited THEN n + 1 ELSE n
Taken(n) == IF Limited THEN n - 1 ELSE n

(* The holder of a token returns and the token stays in the channel. *)
LeakUp == leak' = [leak EXCEPT !.up = Put(@)]
LeakDn == leak' = [leak EXCEPT !.dn = Put(@)]

-----------------------------------------------------------------------------
(* newClient *)

AcquireUp(c) ==
  /\ up /\ accept[c] = "token" /\ PutToken(upTokens)
  /\ accept' = [accept EXCEPT ![c] = "accept"]
  /\ upTokens' = Put(upTokens)
  /\ UNCHANGED <<down, upward, up, pc, dest, result, dnTokens, leak>>

AcceptStream(c, s) ==
  /\ up /\ accept[c] = "accept" /\ link[c] = "up"
  /\ ConnOf[s] = c /\ request[s] # "none" /\ pc[s] = "idle"
  /\ accept' = [accept EXCEPT ![c] = "token"]
  /\ pc' = [pc EXCEPT ![s] = "decode"]
  /\ UNCHANGED <<down, upward, up, dest, result, tokens>>

(* AcceptStream fails once the connection is lost; newClient returns. *)
AcceptFails(c) ==
  /\ up /\ accept[c] = "accept" /\ link[c] = "lost"
  /\ accept' = [accept EXCEPT ![c] = "ended"]
  /\ LeakUp
  /\ UNCHANGED <<down, upward, up, pc, dest, result, upTokens, dnTokens>>

-----------------------------------------------------------------------------
(* newRequest up to the call of forwardRequest *)

(* Decode fails: return, with the deferred close of the client's stream. *)
DecodeFails(s) ==
  /\ up /\ pc[s] = "decode" /\ (request[s] = "garbled" \/ link[ConnOf[s]] = "lost")
  /\ pc' = [pc EXCEPT ![s] = "done"]
  /\ fin' = fin \cup {s}
  /\ LeakUp
  /\ UNCHANGED <<request, reply, link, upward, up, accept, dest, result,
                 upTokens, dnTokens>>

(* The policy sets a destination that is in the routing table... *)
Route(s, d) ==
  /\ up /\ pc[s] = "decode" /\ request[s] = "sent"
  /\ dest' = [dest EXCEPT ![s] = d]
  /\ pc' = [pc EXCEPT ![s] = "open"]
  /\ UNCHANGED <<down, upward, up, accept, result, tokens>>

(* ...or one that is not. *)
NoRoute(s) ==
  /\ up /\ pc[s] = "decode" /\ request[s] = "sent" /\ "unroutable" \in Faults
  /\ result' = [result EXCEPT ![s] = "NoRoute"]
  /\ pc' = [pc EXCEPT ![s] = "reply"]
  /\ LeakUp
  /\ UNCHANGED <<down, upward, up, accept, dest, upTokens, dnTokens>>

-----------------------------------------------------------------------------
(* forwardRequest *)

OpenStream(s) ==
  /\ up /\ pc[s] = "open" /\ upLink[dest[s]] = "up"
  /\ pc' = [pc EXCEPT ![s] = "send"]
  /\ UNCHANGED <<down, upward, up, accept, dest, result, tokens>>

(* OpenStream does not wait: no connection, or no stream left on it, is an *)
(* error at once, and the function returns before it takes its token back. *)
OpenFails(s) ==
  /\ up /\ pc[s] = "open" /\ (upLink[dest[s]] = "lost" \/ "streamLimit" \in Faults)
  /\ result' = [result EXCEPT ![s] = "ServerNotFound"]
  /\ pc' = [pc EXCEPT ![s] = "reply"]
  /\ LeakUp
  /\ UNCHANGED <<down, upward, up, accept, dest, upTokens, dnTokens>>

(* The error of Encode is looked at only after the token is given back. *)
Send(s) ==
  /\ up /\ pc[s] = "send"
  /\ pc' = [pc EXCEPT ![s] = "release"]
  /\ \/ /\ upLink[dest[s]] = "up"
        /\ upRequest' = [upRequest EXCEPT ![s] = "sent"]
        /\ UNCHANGED result
     \/ /\ upLink[dest[s]] = "lost"
        /\ result' = [result EXCEPT ![s] = "ServerNotFound"]
        /\ UNCHANGED upRequest
  /\ UNCHANGED <<down, upReply, upFin, upLink, up, accept, dest, tokens>>

ReleaseUp(s) ==
  /\ up /\ pc[s] = "release" /\ TakeToken(upTokens)
  /\ upTokens' = Taken(upTokens)
  /\ pc' = [pc EXCEPT ![s] = IF result[s] = "none" THEN "acquire" ELSE "reply"]
  /\ UNCHANGED <<down, upward, up, accept, dest, result, dnTokens, leak>>

AcquireDn(s) ==
  /\ up /\ pc[s] = "acquire" /\ PutToken(dnTokens)
  /\ dnTokens' = Put(dnTokens)
  /\ pc' = [pc EXCEPT ![s] = "await"]
  /\ UNCHANGED <<down, upward, up, accept, dest, result, upTokens, leak>>

(* One message is decoded and given to ForwardSetLastResponse. *)
ReceiveReply(s) ==
  /\ up /\ pc[s] = "await" /\ upReply[s] # <<>>
  /\ result' = [result EXCEPT ![s] = Head(upReply[s])]
  /\ pc' = [pc EXCEPT ![s] = "deliver"]
  /\ UNCHANGED <<down, upward, up, accept, dest, tokens>>

(* Decode fails: connection lost, or stream closed with nothing on it.     *)
(* proxy.Timeout is printed and never armed, so waiting has no other end.  *)
AwaitFails(s) ==
  /\ up /\ pc[s] = "await"
  /\ upLink[dest[s]] = "lost" \/ (s \in upFin /\ upReply[s] = <<>>)
  /\ result' = [result EXCEPT ![s] = "ServerTimeout"]
  /\ pc' = [pc EXCEPT ![s] = "reply"]
  /\ LeakDn
  /\ UNCHANGED <<down, upward, up, accept, dest, upTokens, dnTokens>>

ReleaseDn(s) ==
  /\ up /\ pc[s] = "deliver" /\ TakeToken(dnTokens)
  /\ dnTokens' = Taken(dnTokens)
  /\ pc' = [pc EXCEPT ![s] = "reply"]
  /\ UNCHANGED <<down, upward, up, accept, dest, result, upTokens, leak>>

(* newRequest encodes the answer and returns; the deferred close runs      *)
(* whether or not Encode failed.                                           *)
Reply(s) ==
  /\ up /\ pc[s] = "reply"
  /\ reply' = IF link[ConnOf[s]] = "up"
                THEN [reply EXCEPT ![s] = Append(@, result[s])] ELSE reply
  /\ fin' = fin \cup {s}
  /\ pc' = [pc EXCEPT ![s] = "done"]
  /\ UNCHANGED <<request, link, upward, up, accept, dest, result, tokens>>

(* SIGINT or SIGTERM: the shutdown function ends in os.Exit(0). *)
Shutdown ==
  /\ up /\ "signal" \in Faults
  /\ up' = FALSE
  /\ UNCHANGED <<down, upward, accept, pc, dest, result, tokens>>

-----------------------------------------------------------------------------
(* The clients and the servers, as far as a running proxy can notice them *)

ClientSends(s) ==
  /\ up /\ request[s] = "none" /\ link[ConnOf[s]] = "up"
  /\ \/ request' = [request EXCEPT ![s] = "sent"]
     \/ "garbled" \in Faults /\ request' = [request EXCEPT ![s] = "garbled"]
  /\ UNCHANGED <<reply, fin, link, upward, up, accept, pc, dest, result, tokens>>

ClientLost(c) ==
  /\ up /\ "clientLost" \in Faults /\ link[c] = "up"
  /\ link' = [link EXCEPT ![c] = "lost"]
  /\ UNCHANGED <<request, reply, fin, upward, up, accept, pc, dest, result, tokens>>

(* A server answers with Responses, or with one QueueFull and no close. *)
ServerSays(s, type) ==
  /\ up /\ upRequest[s] = "sent" /\ s \notin upFin /\ upLink[dest[s]] = "up"
  /\ upReply' = [upReply EXCEPT ![s] = Append(@, type)]
  /\ UNCHANGED <<down, upRequest, upFin, upLink, up, accept, pc, dest, result, tokens>>

Answered(s) == Len(upReply[s]) > 0
Refused(s) == Answered(s) /\ Head(upReply[s]) = "QueueFull"

ServerAnswers(s) ==
  ~Refused(s) /\ Len(upReply[s]) < MaxReplies /\ ServerSays(s, "Response")
ServerRefuses(s) ==
  "queueFull" \in Faults /\ ~Answered(s) /\ ServerSays(s, "QueueFull")

ServerCloses(s) ==
  /\ up /\ upRequest[s] = "sent" /\ s \notin upFin /\ upLink[dest[s]] = "up"
  /\ ~Refused(s) /\ (Answered(s) \/ "suppress" \in Faults)
  /\ upFin' = upFin \cup {s}
  /\ UNCHANGED <<down, upRequest, upReply, upLink, up, accept, pc, dest, result, tokens>>

ServerLost(d) ==
  /\ up /\ "serverLost" \in Faults /\ upLink[d] = "up"
  /\ upLink' = [upLink EXCEPT ![d] = "lost"]
  /\ UNCHANGED <<down, upRequest, upReply, upFin, up, accept, pc, dest, result, tokens>>

-----------------------------------------------------------------------------
newClient(c) ==
  AcquireUp(c) \/ AcceptFails(c) \/ \E s \in Streams : AcceptStream(c, s)

newRequest(s) ==
  \/ DecodeFails(s) \/ NoRoute(s) \/ \E d \in Servers : Route(s, d)
  \/ OpenStream(s) \/ OpenFails(s) \/ Send(s) \/ ReleaseUp(s) \/ AcquireDn(s)
  \/ ReceiveReply(s) \/ AwaitFails(s) \/ ReleaseDn(s) \/ Reply(s)

ProxyNext ==
  \/ \E c \in Conns : newClient(c)
  \/ \E s \in Streams : newRequest(s)
  \/ Shutdown

ServerStep(s) == ServerAnswers(s) \/ ServerRefuses(s) \/ ServerCloses(s)

Environment ==
  \/ \E s \in Streams : ClientSends(s) \/ ServerStep(s)
  \/ \E c \in Conns : ClientLost(c)
  \/ \E d \in Servers : ServerLost(d)

Next == ProxyNext \/ Environment

Spec == Init /\ [][Next]_vars

-----------------------------------------------------------------------------
Results == {"NoRoute", "ServerNotFound", "ServerTimeout", "Response", "QueueFull"}

(* Type invariant. *)
TypeOK ==
  /\ request \in [Streams -> {"none", "sent", "garbled"}]
  /\ reply \in [Streams -> Seq(Results)]
  /\ fin \subseteq Streams
  /\ link \in [Conns -> {"up", "lost"}]
  /\ upRequest \in [Streams -> {"none", "sent"}]
  /\ upReply \in [Streams -> Seq({"Response", "QueueFull"})]
  /\ upFin \subseteq Streams
  /\ upLink \in [Servers -> {"up", "lost"}]
  /\ up \in BOOLEAN
  /\ accept \in [Conns -> {"token", "accept", "ended"}]
  /\ pc \in [Streams -> {"idle", "decode", "open", "send", "release", "acquire",
                         "await", "deliver", "reply", "done"}]
  /\ dest \in [Streams -> Servers \cup {NoServer}]
  /\ result \in [Streams -> Results \cup {"none"}]
  /\ upTokens \in Nat /\ dnTokens \in Nat
  /\ leak \in [up : Nat, dn : Nat]

At(labels) == {s \in Streams : pc[s] \in labels}
Accepting == {c \in Conns : accept[c] = "accept"}
Forwarding == At({"decode", "open", "send", "release"})
Awaiting == At({"await", "deliver"})

(* Every token in a semaphore is explained: it is held by a connection     *)
(* that waits for a stream, by a request on its way to the server or by    *)
(* one waiting for the answer, or its holder returned and leaked it.       *)
(* Without this the receives at proxy.go:246 and :277 could block, or let  *)
(* in more requests than there are places.                                 *)
TokensAccounted ==
  /\ upTokens = IF Limited
                  THEN Cardinality(Accepting) + Cardinality(Forwarding) + leak.up ELSE 0
  /\ dnTokens = IF Limited THEN Cardinality(Awaiting) + leak.dn ELSE 0

(* No goroutine is ever stuck giving a token back (proxy.go:246, :277).    *)
GivingBackNeverBlocks ==
  /\ \A s \in At({"release"}) : TakeToken(upTokens)
  /\ \A s \in At({"deliver"}) : TakeToken(dnTokens)

(* With a limit, no more than ParallelConn requests are between the accept *)
(* and the server, and no more than ParallelConn wait for an answer        *)
(* (proxy.go:136, :245, :255).                                             *)
PhasesBounded ==
  Limited => /\ Cardinality(Forwarding) <= ParallelConn
             /\ Cardinality(Awaiting) <= ParallelConn

(* What the client is told is what happened to its own request: a relayed  *)
(* answer is the first message the server sent for this very request;      *)
(* NoRoute means that no server saw it; ServerTimeout that it was sent to  *)
(* the chosen server.  One message per stream, and none once it is closed  *)
(* (proxy.go:184-213, :217-280).                                           *)
ToldTheTruth ==
  \A s \in Streams :
    /\ Len(reply[s]) <= 1
    /\ \A i \in 1..Len(reply[s]) :
         /\ reply[s][i] = result[s]
         /\ result[s] \in {"Response", "QueueFull"} =>
              /\ upRequest[s] = "sent"
              /\ Answered(s) /\ Head(upReply[s]) = result[s]
         /\ result[s] \in {"NoRoute", "ServerNotFound"} => upRequest[s] = "none"
         /\ result[s] = "ServerTimeout" => upRequest[s] = "sent"
    /\ s \in fin <=> pc[s] = "done"

(* A closed client stream is never written again; a request that has been  *)
(* sent is not sent a second time, whatever becomes of its answer; and it  *)
(* goes to the server it was routed to (proxy.go:152-213, :217-280).       *)
FinalIsFinal ==
  [][/\ \A s \in fin : s \in fin' /\ reply'[s] = reply[s]
     /\ \A s \in Streams : Send(s) => upRequest[s] = "none"
     /\ \A s \in Streams : dest[s] # NoServer => dest'[s] = dest[s]]_vars

(* When nothing is left to do, every request has been answered and its     *)
(* stream closed: no goroutine waits for a token that nobody will take     *)
(* back, as long as the early returns have left one token for each         *)
(* connection that is still listened to, and one for the answers           *)
(* (proxy.go:135-280).  As every step takes a goroutine or a server        *)
(* further and none back, all requests do get there if some step that can  *)
(* be taken always is.                                                     *)
Running ==
  \/ \E c \in Conns : newClient(c)
  \/ \E s \in Streams : newRequest(s) \/ ServerStep(s)

Listening == {c \in Conns : accept[c] # "ended"}
Spare ==
  Limited => leak.up + Cardinality(Listening) <= ParallelConn /\ leak.dn < ParallelConn

NothingStuck ==
  up /\ Spare /\ ~ENABLED Running =>
    \A s \in Streams : request[s] # "none" /\ link[ConnOf[s]] = "up" => s \in fin
=============================================================================
