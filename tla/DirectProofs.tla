---------------------------- MODULE DirectProofs ----------------------------
(***************************************************************************)
(* Theorems about Direct, a client and a server joined by a connection,    *)
(* for every number of requests, workers and places in the queue.  They    *)
(* are built from what ClientProofs and ServerProofs show of one step of   *)
(* each program: C and CP are the same client, S and SP the same server.   *)
(***************************************************************************)
EXTENDS Direct, Counting, SequenceTheorems

CP == INSTANCE ClientProofs
  WITH NDest <- 1, Timer <- TRUE, Faults <- ClientFaults, MaxReplies <- 0

SP == INSTANCE ServerProofs
  WITH Streams <- Reqs, Suppresses <- FALSE, Decision <- "total", HasBlock <- FALSE,
       Faults <- ServerFaults, MaxStops <- 0,
       peer <- [r \in Reqs |-> IF link[0] = "up" THEN "reading" ELSE "gone"]

-----------------------------------------------------------------------------
(* The inductive invariant.  Each program keeps its own, and the wire      *)
(* keeps them together.                                                    *)

OfClient == CP!Slotted /\ CP!Truthful /\ CP!Quiet
OfServer == SP!Owned /\ SP!ReplyMatchesFate /\ SP!Unheard

(* The server has accepted only streams on which a request was sent.       *)
Heard == \A r \in Reqs : handler[r] # "idle" => request[r] = "sent"

(* As long as the connection lasts, a request that the server has neither  *)
(* answered nor closed is being read, and so holds its slot.               *)
Reading ==
  link[0] = "up" =>
    \A r \in Reqs :
      request[r] = "sent" /\ r \notin fin /\ reply[r] = <<>> => pc[r] = "read"

Joint == OfClient /\ OfServer /\ Heard /\ Reading

(* With one round per job, what is read to the end is closed.              *)
ReadToTheEnd ==
  link[0] = "up" => \A r \in Reqs : pc[r] = "join" \/ result[r] = "nil" => r \in fin

-----------------------------------------------------------------------------
(* The same programs under two names.                                      *)

LEMMA Assumed == CP!ClientAssumption /\ SP!ServerAssumption
<1>1. CP!IsFiniteSet(Reqs) /\ SP!IsFiniteSet(Workers)
  BY DirectAssumption DEF IsFiniteSet, CP!IsFiniteSet, SP!IsFiniteSet
<1>. QED
  BY <1>1, DirectAssumption
     DEF CP!ClientAssumption, SP!ServerAssumption, CP!FaultKinds, SP!FaultKinds

LEMMA InitSame == Init => CP!Init /\ SP!Init /\ link[0] \in {"none", "up"}
BY DEF Init, C!Init, CP!Init, S!Init, SP!Init, C!Dialled, CP!Dialled, C!Index, CP!Index

LEMMA ClientSame == C!ClientNext => CP!ClientNext
BY DEF C!ClientNext, C!mainLoop, C!Tick, C!ReceiveDone, C!Stop, C!TimerFires, C!Signalled,
       C!SendDone, C!Running, C!NewReq, C!forwardResponse, C!FixedSetLastResponse, C!Decide, C!OpenStream,
       C!OpenFails, C!Fail, C!Send, C!SendFails, C!Receive, C!ReadEnds, C!Join, C!Release,
       C!SignOff, C!wire, C!loop, C!slots, C!calls, C!Index,
       CP!ClientNext, CP!mainLoop, CP!Tick, CP!ReceiveDone, CP!Stop, CP!TimerFires,
       CP!Signalled, CP!SendDone, CP!Running, CP!NewReq, CP!forwardResponse, CP!FixedSetLastResponse, CP!Decide,
       CP!OpenStream, CP!OpenFails, CP!Fail, CP!Send, CP!SendFails, CP!Receive,
       CP!ReadEnds, CP!Join, CP!Release, CP!SignOff, CP!wire, CP!loop, CP!slots,
       CP!calls, CP!Index

LEMMA ServerSame == S!ServerNext => SP!ServerNext
BY DEF S!ServerNext, S!HandlerStep, S!WorkerStep, S!Shutdown, S!Accept, S!DecodeFails,
       S!Enqueue, S!FindFull, S!HandleQueueFull, S!Receive, S!Decide, S!DecidePanics,
       S!CloseStream, S!CloseFails, S!Encode, S!wire, S!internals,
       SP!ServerNext, SP!HandlerStep, SP!WorkerStep, SP!Shutdown, SP!Accept,
       SP!DecodeFails, SP!Enqueue, SP!FindFull, SP!HandleQueueFull, SP!Receive,
       SP!Decide, SP!DecidePanics, SP!CloseStream, SP!CloseFails, SP!Encode, SP!wire,
       SP!internals

-----------------------------------------------------------------------------
(* What a program knows, its partner's steps do not take away.             *)

LEMMA ServerKept ==
  ASSUME OfServer, UNCHANGED <<reply, fin, serverOnly>>,
         request' \in [Reqs -> {"none", "sent"}]
  PROVE  OfServer'
<1>1. SP!TypeOK'
  BY DEF OfServer, SP!Owned, SP!Typed, SP!TypeOK, serverOnly
<1>2. SP!Hands' /\ SP!ClosedWereTaken'
  BY DEF OfServer, SP!Owned, SP!Typed, SP!Hands, SP!ClosedWereTaken, serverOnly
<1>3. UNCHANGED <<SP!Pending, SP!Queued, SP!InHand>>
  BY DEF SP!Pending, SP!Queued, SP!InHand, serverOnly
<1>4. SP!OneOwner'
  BY <1>3 DEF OfServer, SP!Owned, SP!OneOwner, serverOnly
<1>5. SP!ReplyMatchesFate' /\ SP!Unheard'
  BY <1>3 DEF OfServer, SP!ReplyMatchesFate, SP!Unheard, serverOnly
<1>. QED  BY <1>1, <1>2, <1>4, <1>5 DEF OfServer, SP!Owned, SP!Typed

LEMMA ClientKept ==
  ASSUME OfClient, UNCHANGED <<request, clientOnly>>,
         link' \in [CP!Index -> {"none", "up", "lost"}],
         fin' \subseteq Reqs, reply' \in [Reqs -> Seq(CP!MsgTypes)],
         \A r \in Reqs : reply[r] # <<>> =>
           reply'[r] # <<>> /\ Head(reply'[r]) = Head(reply[r])
  PROVE  OfClient'
<1>1. CP!TypeOK'
  BY DEF OfClient, CP!Slotted, CP!TypeOK, clientOnly
<1>2. UNCHANGED <<CP!HoldingSlot, CP!At({"signoff"})>>
  BY DEF CP!HoldingSlot, CP!At, clientOnly
<1>3. CP!SlotsAccounted' /\ CP!Quiet'
  BY <1>2 DEF OfClient, CP!Slotted, CP!SlotsAccounted, CP!Quiet, clientOnly
<1>4. CP!Truthful'
  BY DEF OfClient, CP!Truthful, CP!Good, CP!Progressed, CP!Forwarded, CP!Waits, clientOnly
<1>. QED  BY <1>1, <1>3, <1>4 DEF OfClient, CP!Slotted

-----------------------------------------------------------------------------
LEMMA InitJoint == Init => Joint /\ ReadToTheEnd
<1>. SUFFICES ASSUME Init  PROVE Joint /\ ReadToTheEnd
  OBVIOUS
<1>1. CP!Init /\ SP!Init
  BY InitSame
<1>2. OfClient
  BY <1>1, Assumed, CP!InitSlotted, CP!InitTruthful DEF OfClient
<1>3. OfServer
  <2>1. SP!Owned
    BY <1>1, Assumed, SP!InitOwned
  <2>2. SP!ReplyMatchesFate /\ SP!Unheard
    BY <1>1, EmptySeq DEF SP!Init, SP!ReplyMatchesFate, SP!Unheard, SP!Queued
  <2>. QED  BY <2>1, <2>2 DEF OfServer
<1>4. Heard /\ Reading /\ ReadToTheEnd
  BY <1>1 DEF CP!Init, SP!Init, Heard, Reading, ReadToTheEnd
<1>. QED  BY <1>2, <1>3, <1>4 DEF Joint

(* A step of the client.                                                   *)
LEMMA ClientStep ==
  ASSUME Joint, ByClient(C!ClientNext)
  PROVE  Joint' /\ \A r \in Reqs : CP!Steps(r)
<1>1. CP!ClientNext /\ UNCHANGED serverOnly
  BY ClientSame DEF ByClient
<1>2. UNCHANGED <<reply, fin, link>>
  BY <1>1, Assumed, CP!WireLeftAlone
<1>3. OfClient'
  <2>1. CP!Slotted' /\ CP!Truthful' /\ CP!Quiet'
    BY <1>1, Assumed, CP!NextTyped, CP!NextSlotted, CP!NextTruthful, CP!NextQuiet
       DEF Joint, OfClient, CP!Next, CP!Slotted
  <2>. QED  BY <2>1 DEF OfClient
<1>4. request' \in [Reqs -> {"none", "sent"}]
  BY <1>3 DEF OfClient, CP!Slotted, CP!TypeOK
<1>5. OfServer'
  BY <1>1, <1>2, <1>4, ServerKept DEF Joint
<1>6. \A r \in Reqs : CP!Steps(r)
  BY <1>1, Assumed, CP!NextSteps DEF Joint, OfClient, CP!Slotted
<1>7. Heard'
  BY <1>1, <1>6 DEF Joint, Heard, CP!Steps, serverOnly
<1>8. Reading'
  <2>. SUFFICES ASSUME link[0] = "up", NEW r \in Reqs,
                       request'[r] = "sent", r \notin fin, reply[r] = <<>>
                PROVE  pc'[r] = "read"
    BY <1>2 DEF Reading
  <2>1. idx[r] = 0 /\ (got[r] # "none" => reply[r] # <<>>)
    BY DEF Joint, OfClient, CP!Slotted, CP!TypeOK, CP!Index, CP!Truthful, CP!Good,
           CP!Forwarded
  <2>2. ~ CP!Over(r)
    BY <2>1 DEF CP!Over
  <2>. QED  BY <1>6, <2>2 DEF Joint, Reading, CP!Steps
<1>. QED  BY <1>3, <1>5, <1>6, <1>7, <1>8 DEF Joint

(* A step of the server.                                                   *)
LEMMA ServerStep ==
  ASSUME Joint, ByServer(S!ServerNext)
  PROVE  Joint' /\ \A r \in Reqs : SP!Steps(r)
<1>1. SP!ServerNext /\ UNCHANGED <<link, clientOnly>>
  BY ServerSame DEF ByServer
<1>2. UNCHANGED request
  BY <1>1 DEF SP!ServerNext, SP!HandlerStep, SP!WorkerStep, SP!Shutdown, SP!Accept,
       SP!DecodeFails, SP!Enqueue, SP!FindFull, SP!HandleQueueFull, SP!Receive,
       SP!Decide, SP!DecidePanics, SP!CloseStream, SP!CloseFails, SP!wire
<1>3. \A r \in Reqs : SP!Steps(r)
  BY <1>1, Assumed, SP!NextSteps DEF Joint, OfServer
<1>4. OfServer'
  <2>1. SP!Owned' /\ SP!ReplyMatchesFate' /\ SP!Unheard'
    BY <1>1, Assumed, SP!NextOwned, SP!NextReplies, SP!NextUnheard
       DEF Joint, OfServer, SP!Next
  <2>. QED  BY <2>1 DEF OfServer
<1>5. OfClient'
  <2>1. fin' \subseteq Reqs /\ reply' \in [Reqs -> Seq(CP!MsgTypes)]
    BY <1>4 DEF OfServer, SP!Owned, SP!Typed, SP!TypeOK, CP!MsgTypes, SP!MsgTypes
  <2>2. link' \in [CP!Index -> {"none", "up", "lost"}]
    BY <1>1 DEF Joint, OfClient, CP!Slotted, CP!TypeOK
  <2>. QED  BY <1>1, <1>2, <1>3, <2>1, <2>2, ClientKept DEF Joint, SP!Steps
<1>6. Heard'
  <2>. SUFFICES ASSUME NEW r \in Reqs  PROVE handler'[r] # "idle" => request'[r] = "sent"
    BY DEF Heard
  <2>1. SP!Steps(r)
    BY <1>3
  <2>. QED  BY <1>2, <2>1 DEF Joint, Heard, SP!Steps, OfClient, CP!Slotted, CP!TypeOK
<1>7. Reading'
  BY <1>1, <1>2, <1>3 DEF Joint, Reading, SP!Steps, clientOnly
<1>. QED  BY <1>3, <1>4, <1>5, <1>6, <1>7 DEF Joint

(* The connection is lost.                                                 *)
LEMMA TimeoutStep == Joint /\ IdleTimeout => Joint' /\ link'[0] = "lost"
<1>. SUFFICES ASSUME Joint, IdleTimeout  PROVE Joint' /\ link'[0] = "lost"
  OBVIOUS
<1>1. link \in [CP!Index -> {"none", "up", "lost"}] /\ 0 \in CP!Index
  BY DEF Joint, OfClient, CP!Slotted, CP!TypeOK, CP!Index
<1>2. /\ link' = [link EXCEPT ![0] = "lost"]
      /\ UNCHANGED <<request, reply, fin, clientOnly, serverOnly>>
  BY DEF IdleTimeout
<1>3. link'[0] = "lost" /\ link' \in [CP!Index -> {"none", "up", "lost"}]
  BY <1>1, <1>2
<1>4. /\ fin \subseteq Reqs /\ reply \in [Reqs -> Seq(CP!MsgTypes)]
      /\ request \in [Reqs -> {"none", "sent"}]
  BY DEF Joint, OfClient, CP!Slotted, CP!TypeOK
<1>5. OfClient' /\ OfServer'
  BY <1>2, <1>3, <1>4, ClientKept, ServerKept DEF Joint
<1>6. Heard' /\ Reading'
  BY <1>2, <1>3 DEF Joint, Heard, Reading, serverOnly
<1>. QED  BY <1>3, <1>5, <1>6 DEF Joint

LEMMA NextJoint == Joint /\ [Next]_vars => Joint'
<1>. SUFFICES ASSUME Joint, [Next]_vars  PROVE Joint'
  OBVIOUS
<1>1. CASE UNCHANGED vars
  <2>1. UNCHANGED <<request, reply, fin, link, clientOnly, serverOnly>>
    BY <1>1 DEF vars
  <2>2. /\ fin \subseteq Reqs /\ reply \in [Reqs -> Seq(CP!MsgTypes)]
        /\ request \in [Reqs -> {"none", "sent"}]
        /\ link \in [CP!Index -> {"none", "up", "lost"}]
    BY DEF Joint, OfClient, CP!Slotted, CP!TypeOK
  <2>3. OfClient' /\ OfServer'
    BY <2>1, <2>2, ClientKept, ServerKept DEF Joint
  <2>. QED  BY <2>1, <2>3 DEF Joint, Heard, Reading, serverOnly, clientOnly
<1>. QED  BY <1>1, ClientStep, ServerStep, TimeoutStep DEF Next

LEMMA AlwaysJoint == Spec => []Joint
<1>1. Init => Joint
  BY InitJoint
<1>. QED  BY <1>1, NextJoint, PTL DEF Spec

-----------------------------------------------------------------------------
(* The sizing rule.  The requests in the queue, and the one that finds it  *)
(* full, are all being read, so the client has a slot for each of them.    *)
LEMMA RoomForAll ==
  ASSUME Joint, link[0] = "up", BufSize >= MaxConcurrentConnections,
         NEW r \in Reqs, handler[r] = "decode"
  PROVE  Len(queue) < BufSize
<1>. DEFINE Held == SP!Queued \cup {r}
<1>0. queue \in Seq(Reqs) /\ SP!TypeOK /\ SP!OneOwner /\ SP!ClosedWereTaken
  BY DEF Joint, OfServer, SP!Owned, SP!Typed, SP!TypeOK
<1>1. ASSUME NEW q \in SP!Queued
      PROVE  q \in Reqs /\ handler[q] = "queued" /\ q \notin fin /\ reply[q] = <<>>
  BY <1>0 DEF SP!OneOwner, SP!Pending, Joint, OfServer, SP!Unheard
<1>2. r \notin SP!Queued /\ r \notin fin /\ reply[r] = <<>>
  BY <1>0, <1>1 DEF SP!ClosedWereTaken, Joint, OfServer, SP!ReplyMatchesFate
<1>3. Held \in SUBSET Reqs /\ \A q \in Held : pc[q] = "read"
  BY <1>1, <1>2 DEF Joint, Heard, Reading
<1>4. CP!IsFiniteSet(Held) /\ CP!Cardinality(Held) <= MaxConcurrentConnections
  BY <1>3, Assumed, CP!ReadersHoldSlots DEF Joint, OfClient
<1>5. IsFiniteSet(Held) /\ Cardinality(Held) <= MaxConcurrentConnections
  BY <1>4 DEF IsFiniteSet, CP!IsFiniteSet, Cardinality, CP!Cardinality
<1>6. IsFiniteSet(SP!Queued) /\ Cardinality(Held) = Cardinality(SP!Queued) + 1
  <2>1. IsFiniteSet(SP!Queued)
    BY <1>5, FS_Subset
  <2>. QED  BY <1>2, <2>1, Count, FS_CardinalityType
<1>7. Len(queue) <= Cardinality(SP!Queued)
  <2>1. SP!IsFiniteSet(SP!Queued) /\ SP!Cardinality(SP!Queued) = Cardinality(SP!Queued)
    BY <1>6 DEF IsFiniteSet, SP!IsFiniteSet, Cardinality, SP!Cardinality
  <2>. QED  BY <2>1, Assumed, SP!QueueFits DEF Joint, OfServer
<1>8. /\ Len(queue) \in Nat /\ BufSize \in Nat /\ MaxConcurrentConnections \in Nat
      /\ Cardinality(SP!Queued) \in Nat
  BY <1>0, <1>6, LenProperties, FS_CardinalityType, DirectAssumption
<1>. HIDE DEF Held
<1>. QED  BY <1>5, <1>6, <1>7, <1>8

LEMMA NextNeverRefused == Joint /\ NeverRefused /\ [Next]_vars => NeverRefused'
<1>. SUFFICES ASSUME Joint, NeverRefused, [Next]_vars,
                     BufSize >= MaxConcurrentConnections, link'[0] = "up",
                     NEW r \in Reqs
              PROVE  handler'[r] \notin {"full", "refused"}
  BY DEF NeverRefused
<1>1. CASE ByClient(C!ClientNext)
  <2>1. UNCHANGED <<link, serverOnly>>
    BY <1>1, ClientSame, Assumed, CP!WireLeftAlone DEF ByClient
  <2>. QED  BY <2>1 DEF NeverRefused, serverOnly
<1>2. CASE ByServer(S!ServerNext)
  <2>1. UNCHANGED link
    BY <1>2 DEF ByServer
  <2>2. SP!Steps(r)
    BY <1>2, ServerStep
  <2>3. handler[r] \notin {"full", "refused"}
    BY <2>1 DEF NeverRefused
  <2>4. handler[r] = "decode" => ~ (Len(queue) >= BufSize)
    <3>1. Len(queue) \in Nat /\ BufSize \in Nat
      BY LenProperties, DirectAssumption
         DEF Joint, OfServer, SP!Owned, SP!Typed, SP!TypeOK
    <3>. QED  BY <2>1, <3>1, RoomForAll
  <2>. QED  BY <2>2, <2>3, <2>4 DEF SP!Steps
<1>3. CASE IdleTimeout
  BY <1>3, TimeoutStep
<1>4. CASE UNCHANGED vars
  BY <1>4 DEF vars, serverOnly, NeverRefused
<1>. QED  BY <1>1, <1>2, <1>3, <1>4 DEF Next

(* A queue as long as the client's limit on concurrent requests is never   *)
(* found full while the connection lasts, whatever the number of workers,  *)
(* the order of their work and the answers they give                       *)
(* (docs/CONFIGURATION.md:238, :243; server.go:281-286).                   *)
THEOREM QueueNeverOverflows == Spec => []NeverRefused
<1>1. Init => NeverRefused
  BY InitSame DEF SP!Init, NeverRefused
<1>. QED  BY <1>1, AlwaysJoint, NextNeverRefused, PTL DEF Spec

-----------------------------------------------------------------------------
(* What the client is told, with a ForwardDecision that asks for one round.*)

LEMMA NextRead ==
  Joint /\ SP!OneRound /\ ReadToTheEnd /\ [Next]_vars /\ Rounds = {1} =>
    SP!OneRound' /\ ReadToTheEnd'
<1>. SUFFICES ASSUME Joint, SP!OneRound, ReadToTheEnd, [Next]_vars, Rounds = {1}
              PROVE  SP!OneRound' /\ ReadToTheEnd'
  OBVIOUS
<1>1. ASSUME UNCHANGED <<reply, fin, serverOnly>>  PROVE SP!OneRound'
  BY <1>1 DEF SP!OneRound, serverOnly
<1>2. CASE ByClient(C!ClientNext)
  <2>1. UNCHANGED <<reply, fin, link, serverOnly>>
    BY <1>2, ClientSame, Assumed, CP!WireLeftAlone DEF ByClient
  <2>2. ASSUME NEW r \in Reqs, link[0] = "up", pc'[r] = "join" \/ result'[r] = "nil"
        PROVE  r \in fin
    <3>1. CP!Steps(r)
      BY <1>2, ClientStep
    <3>2. /\ idx[r] = 0 /\ reply[r] \in Seq(CP!MsgTypes)
          /\ Len(reply[r]) <= 1
      BY DEF Joint, OfClient, CP!Slotted, CP!TypeOK, CP!Index, SP!OneRound
    <3>3. CP!Over(r) => r \in fin
      <4>1. Len(reply[r]) \in Nat
        BY <3>2, LenProperties
      <4>. QED  BY <2>2, <3>2, <4>1 DEF CP!Over
    <3>. QED  BY <2>2, <3>1, <3>3 DEF CP!Steps, ReadToTheEnd
  <2>. QED  BY <1>1, <2>1, <2>2 DEF ReadToTheEnd
<1>3. CASE ByServer(S!ServerNext)
  <2>1. SP!OneRound'
    BY <1>3, ServerSame, Assumed, SP!NextOneRound DEF ByServer, Joint, OfServer
  <2>2. UNCHANGED <<link, pc, result>> /\ \A r \in Reqs : SP!Steps(r)
    BY <1>3, ServerStep DEF ByServer, clientOnly
  <2>. QED  BY <2>1, <2>2 DEF ReadToTheEnd, SP!Steps
<1>4. CASE IdleTimeout
  <2>1. link'[0] = "lost" /\ UNCHANGED <<reply, fin, serverOnly>>
    BY <1>4, TimeoutStep DEF IdleTimeout
  <2>. QED  BY <1>1, <2>1 DEF ReadToTheEnd
<1>5. CASE UNCHANGED vars
  BY <1>1, <1>5 DEF vars, clientOnly, ReadToTheEnd
<1>. QED  BY <1>2, <1>3, <1>4, <1>5 DEF Next

(* A measured response was given by a worker that had taken the request    *)
(* off the queue, and a request the client is done with while the          *)
(* connection holds was closed by the server: no worker serves a client    *)
(* that has gone on.  With ReplyDecision's one round per job; with two the *)
(* client stops at the second message (client.go:256-276,                  *)
(* server.go:308-345).                                                     *)
THEOREM NoWorkAbandoned ==
  ASSUME Rounds = {1}
  PROVE  Spec => []NoAbandonedWork
<1>1. Init => SP!OneRound /\ ReadToTheEnd
  <2>1. Len(<<>>) = 0
    OBVIOUS
  <2>. QED  BY <2>1, InitSame, InitJoint DEF SP!Init, SP!OneRound
<1>2. Joint /\ SP!OneRound /\ ReadToTheEnd /\ [Next]_vars => SP!OneRound' /\ ReadToTheEnd'
  BY NextRead
<1>3. Joint /\ ReadToTheEnd => NoAbandonedWork
  <2>. SUFFICES ASSUME Joint, ReadToTheEnd, NEW r \in Reqs
                PROVE  /\ r \in measured =>
                            handler[r] = "queued" /\ \A i \in 1..Len(queue) : queue[i] # r
                       /\ result[r] = "nil" /\ link[0] = "up" => r \in fin
    BY DEF NoAbandonedWork
  <2>1. ASSUME r \in measured
        PROVE  handler[r] = "queued" /\ \A i \in 1..Len(queue) : queue[i] # r
    <3>1. reply[r] # <<>> /\ Head(reply[r]) = "Response"
      BY <2>1 DEF Joint, OfClient, CP!Truthful, CP!Good, CP!Forwarded
    <3>2. handler[r] = "queued"
      <4>1. reply[r] # <<"QueueFull">>
        <5>1. Head(<<"QueueFull">>) = "QueueFull"
          OBVIOUS
        <5>. QED  BY <3>1, <5>1
      <4>. QED  BY <3>1, <4>1 DEF Joint, OfServer, SP!ReplyMatchesFate
    <3>3. r \notin SP!Queued
      BY <3>1 DEF Joint, OfServer, SP!Unheard
    <3>. QED  BY <3>2, <3>3 DEF SP!Queued
  <2>. QED  BY <2>1 DEF ReadToTheEnd
<1>. QED  BY <1>1, <1>2, <1>3, AlwaysJoint, PTL DEF Spec

-----------------------------------------------------------------------------
(* The client's own accounts hold with this server.                        *)

(* The slots count the requests in flight, whatever the server does        *)
(* (examples/client/main.go:235-250).                                      *)
THEOREM SlotsStayAccounted == Spec => []SlotsAccounted
<1>1. Joint => SlotsAccounted
  BY DEF Joint, OfClient, CP!Slotted, CP!SlotsAccounted, CP!HoldingSlot, CP!At,
         CP!Cardinality, SlotsAccounted, C!SlotsAccounted, C!HoldingSlot, C!At, C!Cardinality
<1>. QED  BY <1>1, AlwaysJoint, PTL

(* The histogram misses nothing, whatever the server does                  *)
(* (examples/client/main.go:229, client.go:276).                           *)
THEOREM NothingIsMissedAtStop == Spec => []NothingMissedAtStop
<1>1. Joint => CP!NothingMissedAtStop
  BY Assumed, CP!KnownMissesNothing DEF Joint, OfClient, CP!Known
<1>2. CP!NothingMissedAtStop => NothingMissedAtStop
  BY DEF CP!NothingMissedAtStop, NothingMissedAtStop, C!NothingMissedAtStop
<1>. QED  BY <1>1, <1>2, AlwaysJoint, PTL
=============================================================================
