---------------------------- MODULE ChainProofs ----------------------------
(***************************************************************************)
(* Theorems about Chain, a client, a proxy and a server in a row, for      *)
(* every number of requests, workers, places in the queue and tokens.      *)
(* They are built from what ClientProofs, ProxyProofs and ServerProofs     *)
(* show of one step of each program: CP, PP and SP are C, P and S.         *)
(***************************************************************************)
EXTENDS Chain, Counting, SequenceTheorems

CP == INSTANCE ClientProofs
  WITH NDest <- 1, Timer <- TRUE, Faults <- {}, MaxReplies <- 0

PP == INSTANCE ProxyProofs
  WITH Conns <- {0}, Streams <- Reqs, ConnOf <- [r \in Reqs |-> 0],
       Servers <- {1}, NoServer <- 0, Faults <- {}, MaxReplies <- 1,
       up <- proxyUp, pc <- proxyPc, result <- proxyResult

SP == INSTANCE ServerProofs
  WITH Streams <- Reqs, Rounds <- {1}, Suppresses <- FALSE, Decision <- "total",
       HasBlock <- FALSE, Faults <- ServerFaults, MaxStops <- 0,
       request <- upRequest, reply <- upReply, fin <- upFin, up <- serverUp,
       peer <- [r \in Reqs |-> IF upLink[1] = "up" THEN "reading" ELSE "gone"]

-----------------------------------------------------------------------------
(* The inductive invariant.  Each program keeps its own; what a proxy      *)
(* reports as a time-out is a lost connection, as a server closes no       *)
(* stream without a word as long as its connection lasts.                  *)

OfClient == CP!Slotted /\ CP!Truthful /\ CP!Quiet
OfProxy == PP!Typed /\ PP!Truthful
OfServer ==
  SP!Owned /\ SP!ReplyMatchesFate /\ SP!Unheard /\ SP!OneRound /\ SP!ToldFirst

TimedOut == \A r \in Reqs : proxyResult[r] = "ServerTimeout" => upLink[1] = "lost"

Joint == OfClient /\ OfProxy /\ OfServer /\ TimedOut

-----------------------------------------------------------------------------
(* The same programs under two names.                                      *)

LEMMA Assumed == CP!ClientAssumption /\ PP!ProxyAssumption /\ SP!ServerAssumption
<1>1. /\ CP!IsFiniteSet(Reqs) /\ PP!IsFiniteSet(Reqs) /\ PP!IsFiniteSet({0})
      /\ SP!IsFiniteSet(Workers)
  <2>1. IsFiniteSet({0})
    BY FS_Singleton
  <2>. QED  BY <2>1, ChainAssumption
            DEF IsFiniteSet, CP!IsFiniteSet, PP!IsFiniteSet, SP!IsFiniteSet
<1>. QED
  BY <1>1, ChainAssumption
     DEF CP!ClientAssumption, CP!FaultKinds, PP!ProxyAssumption, PP!FaultKinds,
         SP!ServerAssumption, SP!FaultKinds

LEMMA InitSame == Init => CP!Init /\ PP!Init /\ SP!Init
BY DEF Init, C!Init, CP!Init, P!Init, PP!Init, S!Init, SP!Init, C!Dialled, CP!Dialled,
       C!Index, CP!Index

LEMMA ClientSame == C!ClientNext => CP!ClientNext
BY DEF C!ClientNext, C!mainLoop, C!Tick, C!ReceiveDone, C!Stop, C!TimerFires, C!Signalled,
       C!SendDone, C!Running, C!NewReq, C!forwardResponse, C!FixedSetLastResponse, C!Decide, C!OpenStream,
       C!OpenFails, C!Fail, C!Send, C!SendFails, C!Receive, C!ReadEnds, C!Join, C!Release,
       C!SignOff, C!wire, C!loop, C!slots, C!calls, C!Index,
       CP!ClientNext, CP!mainLoop, CP!Tick, CP!ReceiveDone, CP!Stop, CP!TimerFires,
       CP!Signalled, CP!SendDone, CP!Running, CP!NewReq, CP!forwardResponse, CP!FixedSetLastResponse, CP!Decide,
       CP!OpenStream, CP!OpenFails, CP!Fail, CP!Send, CP!SendFails, CP!Receive,
       CP!ReadEnds, CP!Join, CP!Release, CP!SignOff, CP!wire, CP!loop, CP!slots,
       CP!calls, CP!Index

LEMMA ProxySame == P!ProxyNext => PP!ProxyNext
<1>. USE DEF P!down, P!upward, P!tokens, P!Limited, P!PutToken, P!TakeToken, P!Put, P!Taken,
             P!LeakUp, P!LeakDn,
             PP!down, PP!upward, PP!tokens, PP!Limited, PP!PutToken, PP!TakeToken, PP!Put,
             PP!Taken, PP!LeakUp, PP!LeakDn
<1>1. ASSUME NEW c \in {0}, P!newClient(c)  PROVE PP!newClient(c)
  <2>1. P!AcquireUp(c) => PP!AcquireUp(c)
    BY DEF P!AcquireUp, PP!AcquireUp
  <2>2. P!AcceptFails(c) => PP!AcceptFails(c)
    BY DEF P!AcceptFails, PP!AcceptFails
  <2>3. \A r \in Reqs : P!AcceptStream(c, r) => PP!AcceptStream(c, r)
    BY DEF P!AcceptStream, PP!AcceptStream
  <2>. QED  BY <1>1, <2>1, <2>2, <2>3 DEF P!newClient, PP!newClient
<1>2. ASSUME NEW r \in Reqs, P!newRequest(r)  PROVE PP!newRequest(r)
  <2>1. P!DecodeFails(r) \/ P!NoRoute(r) => PP!DecodeFails(r) \/ PP!NoRoute(r)
    BY DEF P!DecodeFails, PP!DecodeFails, P!NoRoute, PP!NoRoute
  <2>2. \A d \in {1} : P!Route(r, d) => PP!Route(r, d)
    BY DEF P!Route, PP!Route
  <2>3. P!OpenStream(r) \/ P!OpenFails(r) => PP!OpenStream(r) \/ PP!OpenFails(r)
    BY DEF P!OpenStream, PP!OpenStream, P!OpenFails, PP!OpenFails
  <2>4. P!Send(r) => PP!Send(r)
    BY DEF P!Send, PP!Send
  <2>5. P!ReleaseUp(r) \/ P!AcquireDn(r) => PP!ReleaseUp(r) \/ PP!AcquireDn(r)
    BY DEF P!ReleaseUp, PP!ReleaseUp, P!AcquireDn, PP!AcquireDn
  <2>6. P!ReceiveReply(r) \/ P!AwaitFails(r) => PP!ReceiveReply(r) \/ PP!AwaitFails(r)
    BY DEF P!ReceiveReply, PP!ReceiveReply, P!AwaitFails, PP!AwaitFails
  <2>7. P!ReleaseDn(r) \/ P!Reply(r) => PP!ReleaseDn(r) \/ PP!Reply(r)
    BY DEF P!ReleaseDn, PP!ReleaseDn, P!Reply, PP!Reply
  <2>. QED
    BY <1>2, <2>1, <2>2, <2>3, <2>4, <2>5, <2>6, <2>7 DEF P!newRequest, PP!newRequest
<1>3. P!Shutdown => PP!Shutdown
  BY DEF P!Shutdown, PP!Shutdown
<1>. QED  BY <1>1, <1>2, <1>3 DEF P!ProxyNext, PP!ProxyNext

LEMMA ServerSame == S!ServerNext => SP!ServerNext
BY DEF S!ServerNext, S!HandlerStep, S!WorkerStep, S!Shutdown, S!Accept, S!DecodeFails,
       S!Enqueue, S!FindFull, S!HandleQueueFull, S!Receive, S!Decide, S!DecidePanics,
       S!CloseStream, S!CloseFails, S!Encode, S!wire, S!internals,
       SP!ServerNext, SP!HandlerStep, SP!WorkerStep, SP!Shutdown, SP!Accept,
       SP!DecodeFails, SP!Enqueue, SP!FindFull, SP!HandleQueueFull, SP!Receive,
       SP!Decide, SP!DecidePanics, SP!CloseStream, SP!CloseFails, SP!Encode, SP!wire,
       SP!internals

-----------------------------------------------------------------------------
(* What a program knows, its partners' steps do not take away.             *)

LEMMA ClientKept ==
  ASSUME OfClient, UNCHANGED <<request, link, clientOnly>>,
         fin' \subseteq Reqs, reply' \in [Reqs -> Seq(CP!MsgTypes)],
         \A r \in Reqs : reply[r] # <<>> => reply'[r] = reply[r]
  PROVE  OfClient'
<1>1. CP!TypeOK'
  BY DEF OfClient, CP!Slotted, CP!TypeOK, clientOnly
<1>2. UNCHANGED <<CP!HoldingSlot, CP!At({"signoff"})>>
  BY DEF CP!HoldingSlot, CP!At, clientOnly
<1>3. CP!SlotsAccounted' /\ CP!Quiet'
  BY <1>2 DEF OfClient, CP!Slotted, CP!SlotsAccounted, CP!Quiet, clientOnly
<1>4. CP!Truthful'
  BY DEF OfClient, CP!Truthful, CP!Good, CP!Progressed, CP!Forwarded, CP!Waits, clientOnly
<1>. QED  BY <1>1, <1>3, <1>4 DEF OfClient, CP!Slotted

LEMMA ProxyKept ==
  ASSUME OfProxy, UNCHANGED <<reply, fin, link, upRequest, proxyOnly>>,
         request' \in [Reqs -> {"none", "sent"}],
         upReply' \in [Reqs -> Seq({"Response", "QueueFull"})],
         upFin' \subseteq Reqs, upLink' \in [{1} -> {"up", "lost"}],
         \A r \in Reqs : upReply[r] # <<>> =>
           upReply'[r] # <<>> /\ Head(upReply'[r]) = Head(upReply[r])
  PROVE  OfProxy'
<1>1. PP!Typed'
  BY DEF OfProxy, PP!Typed, PP!TypeOK, PP!Known, proxyOnly
<1>2. PP!Truthful'
  BY DEF OfProxy, PP!Truthful, PP!Good, PP!Explained, PP!Progressed, PP!Relayed, proxyOnly
<1>. QED  BY <1>1, <1>2 DEF OfProxy

LEMMA ServerKept ==
  ASSUME OfServer, UNCHANGED <<upReply, upFin, serverOnly>>,
         upRequest' \in [Reqs -> {"none", "sent"}],
         upLink'[1] = "up" => upLink[1] = "up"
  PROVE  OfServer'
<1>1. SP!TypeOK'
  BY DEF OfServer, SP!Owned, SP!Typed, SP!TypeOK, serverOnly
<1>2. SP!Hands' /\ SP!ClosedWereTaken'
  BY DEF OfServer, SP!Owned, SP!Typed, SP!Hands, SP!ClosedWereTaken, serverOnly
<1>3. UNCHANGED <<SP!Pending, SP!Queued, SP!InHand>>
  BY DEF SP!Pending, SP!Queued, SP!InHand, serverOnly
<1>4. SP!OneOwner'
  BY <1>3 DEF OfServer, SP!Owned, SP!OneOwner, serverOnly
<1>5. SP!ReplyMatchesFate' /\ SP!Unheard' /\ SP!OneRound'
  BY <1>3 DEF OfServer, SP!ReplyMatchesFate, SP!Unheard, SP!OneRound, serverOnly
<1>6. SP!ToldFirst'
  <2>1. /\ upFin \subseteq Reqs
        /\ \A w \in Workers : worker[w] = "close" => job[w] \in Reqs
    BY Assumed, SP!JobInHand DEF OfServer, SP!Owned, SP!Typed, SP!TypeOK
  <2>. QED  BY <2>1 DEF OfServer, SP!ToldFirst, serverOnly
<1>. QED  BY <1>1, <1>2, <1>4, <1>5, <1>6 DEF OfServer, SP!Owned, SP!Typed

-----------------------------------------------------------------------------
LEMMA InitJoint == Init => Joint
<1>. SUFFICES ASSUME Init  PROVE Joint
  OBVIOUS
<1>1. CP!Init /\ PP!Init /\ SP!Init
  BY InitSame
<1>2. OfClient
  BY <1>1, Assumed, CP!InitSlotted, CP!InitTruthful DEF OfClient
<1>3. OfProxy
  BY <1>1, Assumed, PP!InitTyped, PP!InitTruthful DEF OfProxy
<1>4. OfServer
  <2>1. SP!Owned
    BY <1>1, Assumed, SP!InitOwned
  <2>2. SP!ReplyMatchesFate /\ SP!Unheard
    BY <1>1, EmptySeq DEF SP!Init, SP!ReplyMatchesFate, SP!Unheard, SP!Queued
  <2>3. SP!OneRound /\ SP!ToldFirst
    <3>1. Len(<<>>) = 0
      OBVIOUS
    <3>. QED  BY <1>1, <3>1 DEF SP!Init, SP!OneRound, SP!ToldFirst
  <2>. QED  BY <2>1, <2>2, <2>3 DEF OfServer
<1>5. TimedOut
  BY <1>1 DEF PP!Init, TimedOut
<1>. QED  BY <1>2, <1>3, <1>4, <1>5 DEF Joint

(* The types of the wires, as each end knows them.                         *)
LEMMA Wires ==
  ASSUME Joint
  PROVE  /\ request \in [Reqs -> {"none", "sent"}]
         /\ fin \subseteq Reqs /\ reply \in [Reqs -> Seq(CP!MsgTypes)]
         /\ upRequest \in [Reqs -> {"none", "sent"}]
         /\ upReply \in [Reqs -> Seq({"Response", "QueueFull"})]
         /\ upFin \subseteq Reqs /\ upLink \in [{1} -> {"up", "lost"}]
BY DEF Joint, OfClient, OfProxy, CP!Slotted, CP!TypeOK, PP!Typed, PP!TypeOK

LEMMA ClientStep == Joint /\ ByClient(C!ClientNext) => Joint'
<1>. SUFFICES ASSUME Joint, ByClient(C!ClientNext)  PROVE Joint'
  OBVIOUS
<1>1. /\ CP!ClientNext
      /\ UNCHANGED <<upRequest, upReply, upFin, upLink, proxyOnly, serverOnly>>
  BY ClientSame DEF ByClient
<1>2. UNCHANGED <<reply, fin, link>>
  BY <1>1, Assumed, CP!WireLeftAlone
<1>3. OfClient'
  BY <1>1, Assumed, CP!NextTyped, CP!NextSlotted, CP!NextTruthful, CP!NextQuiet
     DEF Joint, OfClient, CP!Next, CP!Slotted
<1>4. request' \in [Reqs -> {"none", "sent"}]
  BY <1>3 DEF OfClient, CP!Slotted, CP!TypeOK
<1>5. OfProxy'
  BY <1>1, <1>2, <1>4, Wires, ProxyKept DEF Joint
<1>6. OfServer'
  BY <1>1, Wires, ServerKept DEF Joint
<1>7. TimedOut'
  BY <1>1 DEF Joint, TimedOut, proxyOnly
<1>. QED  BY <1>3, <1>5, <1>6, <1>7 DEF Joint

LEMMA ProxyStep == Joint /\ ByProxy(P!ProxyNext) => Joint'
<1>. SUFFICES ASSUME Joint, ByProxy(P!ProxyNext)  PROVE Joint'
  OBVIOUS
<1>1. PP!ProxyNext /\ UNCHANGED <<clientOnly, serverOnly>>
  BY ProxySame DEF ByProxy
<1>2. UNCHANGED <<request, link, upReply, upFin, upLink>>
  BY <1>1, Assumed, PP!WireLeftAlone
<1>3. OfProxy'
  BY <1>1, Assumed, PP!NextTyped, PP!NextTruthful DEF Joint, OfProxy, PP!Next
<1>4. \A r \in Reqs : PP!Steps(r)
  BY <1>1, Assumed, PP!NextSteps DEF Joint, OfProxy
<1>5. OfClient'
  <2>1. fin' \subseteq Reqs /\ reply' \in [Reqs -> Seq(CP!MsgTypes)]
    <3>1. PP!Results = CP!MsgTypes
      BY DEF PP!Results, CP!MsgTypes
    <3>. QED  BY <1>3, <3>1 DEF OfProxy, PP!Typed, PP!TypeOK
  <2>. QED  BY <1>1, <1>2, <1>4, <2>1, ClientKept DEF Joint, PP!Steps
<1>6. OfServer'
  <2>1. upRequest' \in [Reqs -> {"none", "sent"}]
    BY <1>3 DEF OfProxy, PP!Typed, PP!TypeOK
  <2>. QED  BY <1>1, <1>2, <2>1, ServerKept DEF Joint
<1>7. TimedOut'
  <2>. SUFFICES ASSUME NEW r \in Reqs, proxyResult'[r] = "ServerTimeout"
                PROVE  upLink[1] = "lost"
    BY <1>2 DEF TimedOut
  <2>1. CASE proxyResult[r] = "ServerTimeout"
    BY <2>1 DEF Joint, TimedOut
  <2>2. CASE proxyResult[r] # "ServerTimeout"
    <3>1. \/ dest[r] \in {1} /\ upLink[dest[r]] = "lost"
          \/ r \in upFin /\ upReply[r] = <<>>
      BY <1>4, <2>2 DEF PP!Steps
    <3>2. r \in upFin /\ upReply[r] = <<>> => upLink[1] # "up"
      BY DEF Joint, OfServer, SP!ToldFirst
    <3>3. upLink[1] \in {"up", "lost"}
      BY Wires
    <3>. QED  BY <3>1, <3>2, <3>3
  <2>. QED  BY <2>1, <2>2
<1>. QED  BY <1>3, <1>5, <1>6, <1>7 DEF Joint

LEMMA ServerStep == Joint /\ ByServer(S!ServerNext) => Joint'
<1>. SUFFICES ASSUME Joint, ByServer(S!ServerNext)  PROVE Joint'
  OBVIOUS
<1>1. /\ SP!ServerNext
      /\ UNCHANGED <<request, reply, fin, link, upLink, clientOnly, proxyOnly>>
  BY ServerSame DEF ByServer
<1>2. UNCHANGED upRequest
  BY <1>1 DEF SP!ServerNext, SP!HandlerStep, SP!WorkerStep, SP!Shutdown, SP!Accept,
       SP!DecodeFails, SP!Enqueue, SP!FindFull, SP!HandleQueueFull, SP!Receive,
       SP!Decide, SP!DecidePanics, SP!CloseStream, SP!CloseFails, SP!wire
<1>3. \A r \in Reqs : SP!Steps(r)
  BY <1>1, Assumed, SP!NextSteps DEF Joint, OfServer
<1>4. OfServer'
  <2>1. SP!Owned' /\ SP!ReplyMatchesFate' /\ SP!Unheard'
    BY <1>1, Assumed, SP!NextOwned, SP!NextReplies, SP!NextUnheard
       DEF Joint, OfServer, SP!Next
  <2>2. SP!OneRound' /\ SP!ToldFirst'
    BY <1>1, Assumed, SP!NextOneRound, SP!NextToldFirst DEF Joint, OfServer
  <2>. QED  BY <2>1, <2>2 DEF OfServer
<1>5. OfClient'
  BY <1>1, Wires, ClientKept DEF Joint
<1>6. OfProxy'
  <2>1. upReply' \in [Reqs -> Seq({"Response", "QueueFull"})] /\ upFin' \subseteq Reqs
    BY <1>4 DEF OfServer, SP!Owned, SP!Typed, SP!TypeOK, SP!MsgTypes
  <2>. QED  BY <1>1, <1>2, <1>3, <2>1, Wires, ProxyKept DEF Joint, SP!Steps
<1>7. TimedOut'
  BY <1>1 DEF Joint, TimedOut, proxyOnly
<1>. QED  BY <1>4, <1>5, <1>6, <1>7 DEF Joint

LEMMA MissedStep == Joint /\ ServerMissed => Joint'
<1>. SUFFICES ASSUME Joint, ServerMissed  PROVE Joint'
  OBVIOUS
<1>1. /\ upLink' = [upLink EXCEPT ![1] = "lost"]
      /\ UNCHANGED <<request, reply, fin, link, upRequest, upReply, upFin,
                     clientOnly, proxyOnly, serverOnly>>
  BY DEF ServerMissed
<1>2. upLink'[1] = "lost" /\ upLink' \in [{1} -> {"up", "lost"}]
  BY <1>1, Wires
<1>3. OfClient' /\ OfProxy' /\ OfServer'
  BY <1>1, <1>2, Wires, ClientKept, ProxyKept, ServerKept DEF Joint
<1>. QED  BY <1>2, <1>3 DEF Joint, TimedOut

LEMMA NextJoint == Joint /\ [Next]_vars => Joint'
<1>. SUFFICES ASSUME Joint, [Next]_vars  PROVE Joint'
  OBVIOUS
<1>1. CASE UNCHANGED vars
  <2>1. UNCHANGED <<wires, clientOnly, proxyOnly, serverOnly>>
    BY <1>1 DEF vars
  <2>2. OfClient' /\ OfProxy' /\ OfServer'
    BY <2>1, Wires, ClientKept, ProxyKept, ServerKept DEF Joint, wires
  <2>. QED  BY <2>1, <2>2 DEF Joint, TimedOut, wires, proxyOnly
<1>. QED  BY <1>1, ClientStep, ProxyStep, ServerStep, MissedStep DEF Next

LEMMA AlwaysJoint == Spec => []Joint
<1>1. Init => Joint
  BY InitJoint
<1>. QED  BY <1>1, NextJoint, PTL DEF Spec

-----------------------------------------------------------------------------
(* What the client got is what the proxy found out.                        *)
LEMMA ToldByProxy ==
  ASSUME Joint, NEW r \in Reqs, got[r] # "none"
  PROVE  got[r] = proxyResult[r]
<1>1. reply[r] # <<>> /\ got[r] = Head(reply[r])
  BY DEF Joint, OfClient, CP!Truthful, CP!Good, CP!Forwarded
<1>2. reply[r] = <<proxyResult[r]>>
  BY <1>1 DEF Joint, OfProxy, PP!Truthful, PP!Good, PP!Relayed
<1>. QED  BY <1>1, <1>2

(* An answer that the proxy relayed is all that the server said.           *)
LEMMA OnlyAnswer ==
  ASSUME Joint, NEW r \in Reqs, proxyResult[r] \in {"Response", "QueueFull"}
  PROVE  upReply[r] = <<proxyResult[r]>>
<1>1. upReply[r] # <<>> /\ Head(upReply[r]) = proxyResult[r]
  BY DEF Joint, OfProxy, PP!Truthful, PP!Good, PP!Explained
<1>2. upReply[r] \in Seq({"Response", "QueueFull"}) /\ Len(upReply[r]) <= 1
  BY Wires DEF Joint, OfServer, SP!OneRound
<1>. QED  BY <1>1, <1>2, LenProperties, EmptySeq

(* Whatever the order of losses, signals and late answers, and whatever    *)
(* the sizes of the queue, the pool and the semaphores, what the client of *)
(* a chain learns of its request is what became of it at the other end     *)
(* (client.go:268-293, proxy.go:240-280, server.go:281-345).               *)
THEOREM ToldTheTruthEndToEnd == Spec => []EndToEnd
<1>1. Joint => EndToEnd
  <2>. SUFFICES ASSUME Joint, NEW r \in Reqs
                PROVE  /\ r \in measured => upReply[r] = <<"Response">> /\ handler[r] = "queued"
                       /\ got[r] = "QueueFull" =>
                            handler[r] = "refused" /\ upReply[r] = <<"QueueFull">>
                       /\ got[r] = "ServerTimeout" => upRequest[r] = "sent" /\ upLink[1] = "lost"
                       /\ got[r] = "ServerNotFound" => upRequest[r] = "none"
    BY DEF EndToEnd
  <2>1. r \in measured => got[r] = "Response"
    BY DEF Joint, OfClient, CP!Truthful, CP!Good, CP!Forwarded
  <2>2. got[r] \in {"Response", "QueueFull"} => upReply[r] = <<got[r]>>
    BY ToldByProxy, OnlyAnswer
  <2>3. upReply[r] = <<"Response">> => handler[r] = "queued"
    BY DEF Joint, OfServer, SP!ReplyMatchesFate
  <2>4. upReply[r] = <<"QueueFull">> => handler[r] = "refused"
    <3>1. Len(<<"QueueFull">>) = 1 /\ <<"QueueFull">>[1] # "Response" /\ <<"QueueFull">> # <<>>
      OBVIOUS
    <3>. QED  BY <3>1 DEF Joint, OfServer, SP!ReplyMatchesFate
  <2>5. got[r] = "ServerTimeout" => upRequest[r] = "sent" /\ upLink[1] = "lost"
    BY ToldByProxy DEF Joint, TimedOut, OfProxy, PP!Truthful, PP!Good, PP!Explained
  <2>6. got[r] = "ServerNotFound" => upRequest[r] = "none"
    BY ToldByProxy DEF Joint, OfProxy, PP!Truthful, PP!Good, PP!Explained
  <2>. QED  BY <2>1, <2>2, <2>3, <2>4, <2>5, <2>6
<1>. QED  BY <1>1, AlwaysJoint, PTL
=============================================================================
