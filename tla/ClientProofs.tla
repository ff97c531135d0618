---------------------------- MODULE ClientProofs ----------------------------
(***************************************************************************)
(* Theorems about Client, for every set of requests, number of             *)
(* destinations, limit on concurrent requests and choice of faults.        *)
(***************************************************************************)
EXTENDS Client, Counting, SequenceTheorems

-----------------------------------------------------------------------------
(* Slots.  TypeOK is not inductive: that wg does not go below zero is      *)
(* known from what it counts.                                              *)

Slots == {"decide", "open", "send", "read", "join", "release"}
Started == HoldingSlot \cup At({"signoff"})

Slotted == TypeOK /\ SlotsAccounted

LEMMA StartedFinite ==
  /\ IsFiniteSet(HoldingSlot) /\ Cardinality(HoldingSlot) \in Nat
  /\ IsFiniteSet(Started) /\ Cardinality(Started) \in Nat
<1>1. HoldingSlot \in SUBSET Reqs /\ Started \in SUBSET Reqs
  BY DEF HoldingSlot, Started, At
<1>. QED  BY <1>1, ClientAssumption, FS_Subset, FS_CardinalityType

Moves(r, label) == pc' = [pc EXCEPT ![r] = label]

(* A request that moves from one place to another takes up or gives back   *)
(* its slot and its share of the WaitGroup accordingly.                    *)
LEMMA RequestMoves ==
  ASSUME TypeOK, NEW r \in Reqs, NEW label, Moves(r, label)
  PROVE  /\ Cardinality(HoldingSlot') = Cardinality(HoldingSlot)
              + (IF label \in Slots THEN 1 ELSE 0) - (IF pc[r] \in Slots THEN 1 ELSE 0)
         /\ Cardinality(Started') = Cardinality(Started)
              + (IF label \in Slots \cup {"signoff"} THEN 1 ELSE 0)
              - (IF pc[r] \in Slots \cup {"signoff"} THEN 1 ELSE 0)
<1>1. /\ HoldingSlot' = IF label \in Slots THEN HoldingSlot \cup {r} ELSE HoldingSlot \ {r}
      /\ r \in HoldingSlot <=> pc[r] \in Slots
  BY DEF Moves, TypeOK, HoldingSlot, At, Slots
<1>2. /\ Started' = IF label \in Slots \cup {"signoff"} THEN Started \cup {r} ELSE Started \ {r}
      /\ r \in Started <=> pc[r] \in Slots \cup {"signoff"}
  BY DEF Moves, TypeOK, Started, HoldingSlot, At, Slots
<1>3. /\ Cardinality(HoldingSlot \cup {r})
           = Cardinality(HoldingSlot) + (IF r \in HoldingSlot THEN 0 ELSE 1)
      /\ Cardinality(HoldingSlot \ {r})
           = Cardinality(HoldingSlot) - (IF r \in HoldingSlot THEN 1 ELSE 0)
  BY StartedFinite, Count
<1>4. /\ Cardinality(Started \cup {r})
           = Cardinality(Started) + (IF r \in Started THEN 0 ELSE 1)
      /\ Cardinality(Started \ {r})
           = Cardinality(Started) - (IF r \in Started THEN 1 ELSE 0)
  BY StartedFinite, Count
<1>. QED  BY <1>1, <1>2, <1>3, <1>4, StartedFinite

LEMMA NobodyMoves == UNCHANGED pc => UNCHANGED <<HoldingSlot, Started>>
BY DEF HoldingSlot, Started, At

LEMMA InitSlotted == Init => Slotted
<1>. SUFFICES ASSUME Init  PROVE Slotted
  OBVIOUS
<1>1. HoldingSlot = {} /\ Started = {} /\ Cardinality({}) = 0
  BY FS_EmptySet DEF Init, HoldingSlot, Started, At
<1>2. link \in [Index -> {"none", "up", "lost"}]
  BY DEF Init, Dialled
<1>3. 0 \in Index
  BY ClientAssumption DEF Index
<1>4. TypeOK
  BY <1>2, <1>3, EmptySeq DEF Init, TypeOK
<1>5. counter = 0 /\ wg = 0
  BY DEF Init
<1>. QED
  BY <1>1, <1>4, <1>5, ClientAssumption DEF Slotted, SlotsAccounted, Started

-----------------------------------------------------------------------------
(* Types.  Steps that begin with a request at some label.                  *)
LEMMA RequestTyped ==
  ASSUME Slotted, NEW r \in Reqs, NewReq(r) \/ forwardResponse(r)
  PROVE  TypeOK'
<1>. USE DEF Slotted, TypeOK, wire, loop, slots, calls
<1>1. CASE Decide(r)
  <2>1. PICK i \in Index :
          /\ idx' = [idx EXCEPT ![r] = i]
          /\ \/ main' = "crashed" /\ UNCHANGED pc
             \/ pc' = [pc EXCEPT ![r] = "open"] /\ UNCHANGED main
    BY <1>1 DEF Decide
  <2>2. UNCHANGED <<wire, done, slots, got, pending, result, measured>>
    BY <1>1 DEF Decide
  <2>. QED  BY <2>1, <2>2
<1>2. CASE OpenStream(r)
  BY <1>2 DEF OpenStream
<1>3. CASE OpenFails(r)
  BY <1>3 DEF OpenFails, Fail
<1>4. CASE Send(r)
  BY <1>4 DEF Send
<1>5. CASE SendFails(r)
  BY <1>5 DEF SendFails, Fail
<1>6. CASE Receive(r)
  <2>1. Head(reply[r]) \in MsgTypes
    BY <1>6, HeadTailProperties DEF Receive
  <2>. QED  BY <1>6, <2>1 DEF Receive
<1>7. CASE ReadEnds(r)
  BY <1>7 DEF ReadEnds
<1>8. CASE Join(r)
  BY <1>8 DEF Join
<1>9. CASE Release(r)
  BY <1>9 DEF Release
<1>10. CASE SignOff(r)
  <2>1. r \in Started
    BY <1>10 DEF SignOff, Started, At
  <2>2. wg \in Nat /\ wg > 0
    BY <2>1, StartedFinite, Inhabited DEF SlotsAccounted, Started
  <2>3. wg' \in Nat
    BY <1>10, <2>2 DEF SignOff
  <2>. QED  BY <1>10, <2>3 DEF SignOff
<1>11. CASE forwardResponse(r)
  BY <1>11 DEF forwardResponse, FixedSetLastResponse
<1>. QED
  BY <1>1, <1>2, <1>3, <1>4, <1>5, <1>6, <1>7, <1>8, <1>9, <1>10, <1>11 DEF NewReq

LEMMA NextTyped == Slotted /\ [Next]_vars => TypeOK'
<1>. SUFFICES ASSUME Slotted, [Next]_vars  PROVE TypeOK'
  OBVIOUS
<1>1. ASSUME NEW r \in Reqs, NewReq(r) \/ forwardResponse(r)  PROVE TypeOK'
  BY <1>1, RequestTyped
<1>. USE DEF Slotted, TypeOK, wire, loop, slots, calls
<1>2. ASSUME NEW r \in Reqs, Tick(r)  PROVE TypeOK'
  BY <1>2 DEF Tick
<1>3. CASE TimerFires \/ Signalled
  BY <1>3 DEF TimerFires, Signalled, SendDone
<1>4. CASE ReceiveDone
  BY <1>4 DEF ReceiveDone
<1>5. CASE Stop
  BY <1>5 DEF Stop
<1>6. ASSUME NEW r \in Reqs, NEW type \in MsgTypes, ServerSays(r, type)  PROVE TypeOK'
  <2>1. Append(reply[r], type) \in Seq(MsgTypes)
    BY AppendProperties
  <2>. QED  BY <1>6, <2>1 DEF ServerSays
<1>7. ASSUME NEW r \in Reqs, ServerCloses(r)  PROVE TypeOK'
  BY <1>7 DEF ServerCloses
<1>8. ASSUME NEW i \in Index, LinkLost(i)  PROVE TypeOK'
  BY <1>8 DEF LinkLost
<1>9. CASE UNCHANGED vars
  BY <1>9 DEF vars
<1>10. "Response" \in MsgTypes /\ "QueueFull" \in MsgTypes
  BY DEF MsgTypes
<1>. HIDE DEF Slotted, TypeOK
<1>. QED
  BY <1>1, <1>2, <1>3, <1>4, <1>5, <1>6, <1>7, <1>8, <1>9, <1>10
     DEF Next, ClientNext, mainLoop, Environment, ServerStep, ServerAnswers, ServerRefuses

-----------------------------------------------------------------------------
(* The counts.                                                             *)

(* What the channel, the WaitGroup and the limit say to each other.        *)
LEMMA SlotsMeaning ==
  SlotsAccounted <=> /\ counter = Cardinality(HoldingSlot)
                     /\ wg = Cardinality(Started)
                     /\ counter <= MaxConcurrentConnections
BY DEF SlotsAccounted, Started

LEMMA NextSlotted == Slotted /\ [Next]_vars => SlotsAccounted'
<1>. SUFFICES ASSUME Slotted, [Next]_vars  PROVE SlotsAccounted'
  OBVIOUS
<1>. /\ TypeOK
     /\ counter = Cardinality(HoldingSlot)
     /\ wg = Cardinality(Started)
     /\ counter <= MaxConcurrentConnections
  BY SlotsMeaning DEF Slotted
<1>. SUFFICES /\ counter' = Cardinality(HoldingSlot')
              /\ wg' = Cardinality(Started')
              /\ counter' <= MaxConcurrentConnections
  BY DEF SlotsAccounted, Started
<1>. DEFINE Goal == /\ counter' = Cardinality(HoldingSlot')
                    /\ wg' = Cardinality(Started')
                    /\ counter' <= MaxConcurrentConnections
<1>1. ASSUME UNCHANGED <<pc, counter, wg>>  PROVE Goal
  BY <1>1, NobodyMoves
<1>2. ASSUME NEW r \in Reqs, Tick(r)  PROVE Goal
  <2>1. pc[r] = "idle" /\ Moves(r, "decide")
    BY <1>2 DEF Tick, Moves
  <2>2. /\ Cardinality(HoldingSlot') = Cardinality(HoldingSlot) + 1
        /\ Cardinality(Started') = Cardinality(Started) + 1
    BY <2>1, RequestMoves, StartedFinite DEF Slots
  <2>. QED  BY <1>2, <2>2, StartedFinite, ClientAssumption DEF Tick
<1>3. ASSUME NEW r \in Reqs, Release(r)  PROVE Goal
  <2>1. pc[r] = "release" /\ Moves(r, "signoff")
    BY <1>3 DEF Release, Moves
  <2>2. /\ Cardinality(HoldingSlot') = Cardinality(HoldingSlot) - 1
        /\ Cardinality(Started') = Cardinality(Started)
    BY <2>1, RequestMoves, StartedFinite DEF Slots
  <2>. QED  BY <1>3, <2>2, StartedFinite, ClientAssumption DEF Release
<1>4. ASSUME NEW r \in Reqs, SignOff(r)  PROVE Goal
  <2>1. pc[r] = "signoff" /\ Moves(r, "returned")
    BY <1>4 DEF SignOff, Moves
  <2>2. /\ Cardinality(HoldingSlot') = Cardinality(HoldingSlot)
        /\ Cardinality(Started') = Cardinality(Started) - 1
    BY <2>1, RequestMoves, StartedFinite DEF Slots
  <2>. QED  BY <1>4, <2>2, StartedFinite, ClientAssumption DEF SignOff
<1>5. ASSUME NEW r \in Reqs, NEW label \in Slots,
             pc[r] \in Slots, Moves(r, label), UNCHANGED <<counter, wg>>
      PROVE  Goal
  <2>1. /\ Cardinality(HoldingSlot') = Cardinality(HoldingSlot)
        /\ Cardinality(Started') = Cardinality(Started)
    BY <1>5, RequestMoves, StartedFinite
  <2>. QED  BY <1>5, <2>1
<1>6. ASSUME NEW r \in Reqs,
             OpenStream(r) \/ OpenFails(r) \/ Send(r) \/ SendFails(r) \/ ReadEnds(r) \/ Join(r)
      PROVE  Goal
  <2>1. /\ \E label \in Slots : Moves(r, label)
        /\ pc[r] \in Slots /\ UNCHANGED <<counter, wg>>
    BY <1>6 DEF OpenStream, OpenFails, Send, SendFails, ReadEnds, Join, Fail, Moves, Slots, slots
  <2>. QED  BY <1>5, <2>1
<1>7. ASSUME NEW r \in Reqs, Decide(r)  PROVE Goal
  <2>1. UNCHANGED pc \/ Moves(r, "open")
    BY <1>7 DEF Decide, Moves
  <2>2. pc[r] = "decide" /\ UNCHANGED <<counter, wg>>
    BY <1>7 DEF Decide, slots
  <2>. QED  BY <1>1, <1>5, <2>1, <2>2 DEF Slots
<1>8. ASSUME NEW r \in Reqs, Receive(r) \/ forwardResponse(r)  PROVE Goal
  BY <1>1, <1>8 DEF Receive, forwardResponse, slots
<1>9. ASSUME NEW r \in Reqs, NewReq(r) \/ forwardResponse(r)  PROVE Goal
  BY <1>3, <1>4, <1>6, <1>7, <1>8, <1>9 DEF NewReq
<1>10. CASE TimerFires \/ Signalled \/ ReceiveDone \/ Stop
  BY <1>1, <1>10 DEF TimerFires, Signalled, SendDone, ReceiveDone, Stop, slots, calls
<1>11. CASE Environment
  BY <1>1, <1>11
     DEF Environment, ServerStep, ServerAnswers, ServerRefuses, ServerCloses, ServerSays,
         LinkLost, slots, calls
<1>12. CASE UNCHANGED vars
  BY <1>1, <1>12 DEF vars, slots, calls
<1>. QED  BY <1>2, <1>9, <1>10, <1>11, <1>12 DEF Next, ClientNext, mainLoop

LEMMA AlwaysSlotted == Spec => []Slotted
<1>1. Slotted /\ [Next]_vars => Slotted'
  BY NextTyped, NextSlotted DEF Slotted
<1>. QED  BY <1>1, InitSlotted, PTL DEF Spec

(* The variables keep their types in every behaviour of the client; in     *)
(* particular wg never goes below zero, which would panic                  *)
(* (examples/client/main.go:243-245).                                       *)
THEOREM TypeCorrect == Spec => []TypeOK
<1>1. Slotted => TypeOK
  BY DEF Slotted
<1>. QED  BY <1>1, AlwaysSlotted, PTL

(* The channel counter and the WaitGroup count exactly the requests in     *)
(* flight, never more than MaxConcurrentConnections of them, whatever the  *)
(* servers and connections do (examples/client/main.go:235-250).           *)
THEOREM SlotsAlwaysAccounted == Spec => []SlotsAccounted
<1>1. Slotted => SlotsAccounted
  BY DEF Slotted
<1>. QED  BY <1>1, AlwaysSlotted, PTL

-----------------------------------------------------------------------------
(* Requests.  The inductive invariant says what is known, at each place of *)
(* NewReq, of what was sent and decoded and of the forwardResponse that    *)
(* are still running.                                                      *)

Waits(r) == pc[r] \in {"read", "join"}

Progressed(r) ==
  /\ pc[r] \in {"idle", "decide", "open", "send"} => request[r] = "none" /\ got[r] = "none"
  /\ pc[r] \in {"idle", "decide", "open", "send", "read", "join"} <=> result[r] = "none"
  /\ result[r] = "error" => request[r] = "none" /\ got[r] = "none"

Forwarded(r) ==
  /\ pending[r] > 0 => Waits(r)
  /\ got[r] = "none" => pending[r] = 0
  /\ got[r] = "Response" /\ r \notin ShortBodies => r \in measured \/ pending[r] > 0
  /\ r \in measured => got[r] = "Response" /\ r \notin ShortBodies
  /\ got[r] # "none" => reply[r] # <<>> /\ got[r] = Head(reply[r])

Good(r) == Progressed(r) /\ Forwarded(r)
Truthful == \A r \in Reqs : Good(r)

(* Once the client has stopped no request is under way.                    *)
Quiet == main = "stopped" => wg = 0

Known == Slotted /\ Truthful /\ Quiet

Unchanged(t) ==
  /\ pc'[t] = pc[t] /\ request'[t] = request[t] /\ reply'[t] = reply[t]
  /\ got'[t] = got[t] /\ pending'[t] = pending[t] /\ result'[t] = result[t]
  /\ (t \in measured' <=> t \in measured)

LEMMA StaysGood == \A t \in Reqs : Good(t) /\ Unchanged(t) => Good(t)'
BY DEF Unchanged, Good, Progressed, Forwarded, Waits

LEMMA InitTruthful == Init => Truthful /\ Quiet
BY DEF Init, Truthful, Quiet, Good, Progressed, Forwarded, Waits

(* What a step of one request does to the others, which is nothing.        *)
LEMMA RequestAlone ==
  ASSUME TypeOK, NEW r \in Reqs, NewReq(r) \/ forwardResponse(r) \/ Tick(r),
         NEW t \in Reqs, t # r
  PROVE  Unchanged(t)
<1>. USE DEF TypeOK, wire, calls, Unchanged
<1>1. CASE Decide(r) \/ OpenStream(r) \/ Release(r) \/ SignOff(r) \/ Tick(r)
  BY <1>1 DEF Decide, OpenStream, Release, SignOff, Tick
<1>2. CASE OpenFails(r) \/ SendFails(r)
  BY <1>2 DEF OpenFails, SendFails, Fail
<1>3. CASE Send(r) \/ Receive(r)
  BY <1>3 DEF Send, Receive
<1>4. CASE ReadEnds(r) \/ Join(r)
  BY <1>4 DEF ReadEnds, Join
<1>5. CASE forwardResponse(r)
  BY <1>5 DEF forwardResponse, FixedSetLastResponse
<1>. QED  BY <1>1, <1>2, <1>3, <1>4, <1>5 DEF NewReq

(* A request that is good makes only good steps.                           *)
LEMMA RequestGood ==
  ASSUME TypeOK, NEW r \in Reqs, Good(r), NewReq(r) \/ forwardResponse(r) \/ Tick(r)
  PROVE  Good(r)'
<1>. USE DEF TypeOK, wire, calls, Good, Progressed, Forwarded, Waits
<1>1. CASE Decide(r) \/ OpenStream(r) \/ Tick(r)
  BY <1>1 DEF Decide, OpenStream, Tick
<1>2. CASE OpenFails(r)
  BY <1>2 DEF OpenFails, Fail
<1>3. CASE SendFails(r)
  BY <1>3 DEF SendFails, Fail
<1>4. CASE Send(r)
  BY <1>4 DEF Send
<1>5. CASE Receive(r)
  <2>1. Head(reply[r]) \in MsgTypes
    BY <1>5, HeadTailProperties DEF Receive
  <2>. QED  BY <1>5, <2>1 DEF Receive, MsgTypes
<1>6. CASE ReadEnds(r)
  BY <1>6 DEF ReadEnds
<1>7. CASE Join(r)
  BY <1>7 DEF Join
<1>8. CASE Release(r) \/ SignOff(r)
  BY <1>8 DEF Release, SignOff
<1>9. CASE forwardResponse(r)
  BY <1>9 DEF forwardResponse, FixedSetLastResponse
<1>. QED  BY <1>1, <1>2, <1>3, <1>4, <1>5, <1>6, <1>7, <1>8, <1>9 DEF NewReq

(* A server that goes on talking does not change what it said first.       *)
LEMMA SaysGood ==
  ASSUME TypeOK, NEW r \in Reqs, NEW type \in MsgTypes, ServerSays(r, type),
         NEW t \in Reqs, Good(t)
  PROVE  Good(t)'
<1>1. CASE t # r
  BY <1>1, StaysGood DEF TypeOK, ServerSays, calls, Unchanged
<1>2. CASE t = r
  <2>1. reply[r] # <<>> =>
          Append(reply[r], type) # <<>> /\ Head(Append(reply[r], type)) = Head(reply[r])
    <3>1. reply[r] \in Seq(MsgTypes)
      BY DEF TypeOK
    <3>. QED  BY <3>1
  <2>2. reply'[r] = Append(reply[r], type) /\ UNCHANGED <<request, calls>>
    BY DEF TypeOK, ServerSays
  <2>. QED  BY <1>2, <2>1, <2>2 DEF calls, Good, Progressed, Forwarded, Waits
<1>. QED  BY <1>1, <1>2

LEMMA NextTruthful == Slotted /\ Truthful /\ [Next]_vars => Truthful'
<1>. SUFFICES ASSUME Slotted, Truthful, [Next]_vars, NEW t \in Reqs  PROVE Good(t)'
  BY DEF Truthful
<1>. Good(t) /\ TypeOK
  BY DEF Truthful, Slotted
<1>1. ASSUME NEW r \in Reqs, NewReq(r) \/ forwardResponse(r) \/ Tick(r)  PROVE Good(t)'
  BY <1>1, RequestGood, RequestAlone, StaysGood
<1>2. ASSUME NEW r \in Reqs, ServerAnswers(r) \/ ServerRefuses(r)  PROVE Good(t)'
  BY <1>2, SaysGood DEF ServerAnswers, ServerRefuses, MsgTypes
<1>3. ASSUME UNCHANGED <<request, reply, calls>>  PROVE Good(t)'
  BY <1>3, StaysGood DEF calls, Unchanged
<1>4. CASE TimerFires \/ Signalled \/ ReceiveDone \/ Stop \/ UNCHANGED vars
  BY <1>3, <1>4 DEF TimerFires, Signalled, SendDone, ReceiveDone, Stop, vars, wire
<1>5. CASE (\E r \in Reqs : ServerCloses(r)) \/ (\E i \in Index : LinkLost(i))
  BY <1>3, <1>5 DEF ServerCloses, LinkLost
<1>. QED
  BY <1>1, <1>2, <1>4, <1>5 DEF Next, ClientNext, mainLoop, Environment, ServerStep

(* The process ends only with an empty WaitGroup, and then nothing moves.  *)
LEMMA NextQuiet == Quiet /\ [Next]_vars => Quiet'
<1>. SUFFICES ASSUME Quiet, [Next]_vars, main' = "stopped"  PROVE wg' = 0
  BY DEF Quiet
<1>1. CASE main = "stopped"
  <2>1. ~ ClientNext
    BY <1>1 DEF ClientNext, mainLoop, Tick, ReceiveDone, Stop, TimerFires, Signalled,
                SendDone, Running, NewReq, forwardResponse, Decide, OpenStream, OpenFails,
                Send, SendFails, Receive, ReadEnds, Join, Release, SignOff
  <2>2. Environment \/ UNCHANGED vars => UNCHANGED wg
    BY DEF Environment, ServerStep, ServerAnswers, ServerRefuses, ServerCloses, ServerSays,
           LinkLost, vars, slots
  <2>. QED  BY <1>1, <2>1, <2>2 DEF Next, Quiet
<1>2. CASE main # "stopped"
  <2>1. UNCHANGED main \/ Stop \/ main' \in {"draining", "crashed"}
    <3>1. CASE ClientNext
      BY <3>1 DEF ClientNext, mainLoop, Tick, ReceiveDone, TimerFires, Signalled,
                SendDone, NewReq, forwardResponse, Decide, OpenStream, OpenFails,
                Send, SendFails, Receive, ReadEnds, Join, Release, SignOff, loop
    <3>2. CASE Environment \/ UNCHANGED vars
      BY <3>2 DEF Environment, ServerStep, ServerAnswers, ServerRefuses, ServerCloses,
                ServerSays, LinkLost, vars, loop
    <3>. QED  BY <3>1, <3>2 DEF Next
  <2>. QED  BY <1>2, <2>1 DEF Stop, slots
<1>. QED  BY <1>1, <1>2

LEMMA AlwaysKnown == Spec => []Known
<1>1. Init => Known
  BY InitSlotted, InitTruthful DEF Known
<1>2. Known /\ [Next]_vars => Known'
  <2>. SUFFICES ASSUME Known, [Next]_vars  PROVE Known'
    OBVIOUS
  <2>1. Slotted'
    BY NextTyped, NextSlotted DEF Known, Slotted
  <2>. QED  BY <2>1, NextTruthful, NextQuiet DEF Known
<1>. QED  BY <1>1, <1>2, PTL DEF Spec

(* A request decodes at most one message, the first one sent to it; what   *)
(* is measured was decoded as a Response; and NewReq returns an error only *)
(* when nothing was sent (client.go:251-283).                              *)
THEOREM ResultsAlwaysExplained == Spec => []ResultsExplained
<1>1. Known => ResultsExplained
  <2>. SUFFICES ASSUME Known, NEW r \in Reqs
                PROVE  /\ got[r] # "none" => reply[r] # <<>> /\ got[r] = Head(reply[r])
                       /\ r \in measured => got[r] = "Response" /\ r \notin ShortBodies
                       /\ result[r] = "error" => request[r] = "none" /\ got[r] = "none"
                       /\ result[r] # "none" => pending[r] = 0
    BY DEF ResultsExplained
  <2>1. Good(r) /\ pending[r] \in Nat
    BY DEF Known, Truthful, Slotted, TypeOK
  <2>. QED  BY <2>1 DEF Good, Progressed, Forwarded, Waits
<1>. QED  BY <1>1, AlwaysKnown, PTL

LEMMA KnownMissesNothing == Known => NothingMissedAtStop
<1>. SUFFICES ASSUME Known, main = "stopped"
              PROVE  /\ \A r \in Reqs : pc[r] \in {"idle", "returned"} /\ pending[r] = 0
                     /\ measured = {r \in Reqs : got[r] = "Response"} \ ShortBodies
  BY DEF NothingMissedAtStop
<1>1. Started = {}
  <2>1. Cardinality(Started) = 0
    BY SlotsMeaning DEF Known, Slotted, Quiet
  <2>. QED  BY <2>1, StartedFinite, FS_EmptySet
<1>2. ASSUME NEW r \in Reqs
      PROVE  /\ pc[r] \in {"idle", "returned"} /\ pending[r] = 0
             /\ r \in measured <=> got[r] = "Response" /\ r \notin ShortBodies
  <2>1. pc[r] \in {"idle", "returned"} /\ pending[r] \in Nat
    BY <1>1 DEF Started, HoldingSlot, At, Known, Slotted, TypeOK
  <2>2. Good(r)
    BY DEF Known, Truthful
  <2>. QED  BY <2>1, <2>2 DEF Good, Forwarded, Waits
<1>3. measured \subseteq Reqs
  BY DEF Known, Slotted, TypeOK
<1>. QED  BY <1>2, <1>3

(* The histogram printed at the end misses no Response that was decoded,   *)
(* other than those too short to hold the timestamp                        *)
(* (examples/client/main.go:137): the WaitGroup of main is empty only when *)
(* no request is under way, and a request is under way as long as one of   *)
(* its forwardResponses is (examples/client/main.go:229, client.go:276).   *)
THEOREM NothingEverMissedAtStop == Spec => []NothingMissedAtStop
<1>. QED  BY KnownMissesNothing, AlwaysKnown, PTL

-----------------------------------------------------------------------------
(* What a step never does.                                                 *)

(* Only a tick starts a request, and only while main selects.              *)
LEMMA OnlyTicksStart ==
  ASSUME TypeOK, [Next]_vars, main # "select", NEW t \in Reqs, pc[t] = "idle"
  PROVE  pc'[t] = "idle"
<1>1. ASSUME NEW r \in Reqs, NewReq(r) \/ forwardResponse(r)  PROVE pc'[t] = "idle"
  <2>1. CASE t = r
    BY <1>1, <2>1 DEF NewReq, forwardResponse, Decide, OpenStream, OpenFails, Send,
                      SendFails, Receive, ReadEnds, Join, Release, SignOff
  <2>2. CASE t # r
    BY <1>1, <2>2, RequestAlone DEF Unchanged
  <2>. QED  BY <2>1, <2>2
<1>2. CASE mainLoop \/ TimerFires \/ Signalled
  BY <1>2 DEF mainLoop, Tick, ReceiveDone, Stop, TimerFires, Signalled, SendDone, calls
<1>3. CASE Environment \/ UNCHANGED vars
  BY <1>3 DEF Environment, ServerStep, ServerAnswers, ServerRefuses, ServerCloses,
              ServerSays, LinkLost, vars, calls
<1>. QED  BY <1>1, <1>2, <1>3 DEF Next, ClientNext

(* NewReq returns once.                                                    *)
LEMMA ReturnsOnce ==
  ASSUME Known, [Next]_vars, NEW t \in Reqs, result[t] # "none"
  PROVE  result'[t] = result[t]
<1>. TypeOK /\ pc[t] \notin {"open", "send", "join"}
  BY DEF Known, Slotted, Truthful, Good, Progressed
<1>1. ASSUME NEW r \in Reqs, NewReq(r) \/ forwardResponse(r)
      PROVE  result'[t] = result[t]
  <2>1. CASE t = r
    BY <1>1, <2>1 DEF NewReq, forwardResponse, Decide, OpenStream, OpenFails, Send,
                      SendFails, Receive, ReadEnds, Join, Release, SignOff
  <2>2. CASE t # r
    BY <1>1, <2>2, RequestAlone DEF Unchanged
  <2>. QED  BY <2>1, <2>2
<1>2. CASE mainLoop \/ TimerFires \/ Signalled
  BY <1>2 DEF mainLoop, Tick, ReceiveDone, Stop, TimerFires, Signalled, SendDone, calls
<1>3. CASE Environment \/ UNCHANGED vars
  BY <1>3 DEF Environment, ServerStep, ServerAnswers, ServerRefuses, ServerCloses,
              ServerSays, LinkLost, vars, calls
<1>. QED  BY <1>1, <1>2, <1>3 DEF Next, ClientNext

(* Once the process has ended the client does nothing.                     *)
LEMMA StoppedIsStill ==
  ASSUME [Next]_vars, main = "stopped"
  PROVE  measured' = measured /\ main' = main
<1>1. ~ ClientNext
  BY DEF ClientNext, mainLoop, Tick, ReceiveDone, Stop, TimerFires, Signalled,
         SendDone, Running, NewReq, forwardResponse, Decide, OpenStream, OpenFails,
         Send, SendFails, Receive, ReadEnds, Join, Release, SignOff
<1>2. Environment \/ UNCHANGED vars => UNCHANGED <<measured, main>>
  BY DEF Environment, ServerStep, ServerAnswers, ServerRefuses, ServerCloses, ServerSays,
         LinkLost, vars, loop, calls
<1>. QED  BY <1>1, <1>2 DEF Next

(* After Done was received no request starts, what NewReq returned stays,  *)
(* and nothing is added to the histogram once it is printed                *)
(* (examples/client/main.go:226-232).                                      *)
THEOREM WhatIsDoneStays == Spec => DoneIsFinal
<1>. DEFINE Step ==
       /\ main # "select" => \A r \in Reqs : pc[r] = "idle" => pc'[r] = "idle"
       /\ \A r \in Reqs : result[r] # "none" => result'[r] = result[r]
       /\ main = "stopped" => measured' = measured /\ main' = main
<1>1. Known /\ [Next]_vars => [Step]_vars
  BY OnlyTicksStart, ReturnsOnce, StoppedIsStill DEF Known, Slotted
<1>. QED  BY <1>1, AlwaysKnown, PTL DEF Spec, DoneIsFinal

-----------------------------------------------------------------------------
(* One step of the client, as the other end of a stream sees it.  The      *)
(* compositions of the client with servers and proxies rest on this.       *)

(* Why a request may stop reading.                                         *)
Over(t) ==
  \/ link[idx[t]] = "lost"
  \/ t \in fin
  \/ got[t] # "none" /\ Len(reply[t]) > 1

Steps(t) ==
  /\ request'[t] # request[t] => request[t] = "none" /\ request'[t] = "sent" /\ pc'[t] = "read"
  /\ pc[t] = "read" /\ pc'[t] # "read" => Over(t)
  /\ pc'[t] = "join" /\ pc[t] # "join" => Over(t)
  /\ result'[t] = "nil" /\ result[t] # "nil" => pc[t] = "join"

LEMMA WireLeftAlone == ClientNext => UNCHANGED <<reply, fin, link>>
BY DEF ClientNext, mainLoop, Tick, ReceiveDone, Stop, TimerFires, Signalled, SendDone,
       NewReq, forwardResponse, Decide, OpenStream, OpenFails, Send, SendFails, Receive,
       ReadEnds, Join, Release, SignOff, wire

LEMMA NextSteps ==
  ASSUME TypeOK, Truthful, ClientNext, NEW t \in Reqs
  PROVE  Steps(t)
<1>. USE DEF TypeOK
<1>1. ASSUME NEW r \in Reqs, NewReq(r) \/ forwardResponse(r) \/ Tick(r), t # r
      PROVE  Steps(t)
  BY <1>1, RequestAlone DEF Unchanged, Steps
<1>2. CASE Decide(t) \/ OpenStream(t) \/ Release(t) \/ SignOff(t) \/ Tick(t)
  BY <1>2 DEF Decide, OpenStream, Release, SignOff, Tick, wire, Steps
<1>3. CASE OpenFails(t) \/ SendFails(t)
  BY <1>3 DEF OpenFails, SendFails, Fail, wire, Steps
<1>4. CASE Send(t)
  <2>1. request[t] = "none"
    BY <1>4 DEF Send, Truthful, Good, Progressed
  <2>. QED  BY <1>4, <2>1 DEF Send, Steps
<1>5. CASE ReadEnds(t)
  <2>1. Over(t)
    BY <1>5 DEF ReadEnds, Over
  <2>. QED  BY <1>5, <2>1 DEF ReadEnds, wire, Steps
<1>6. CASE Receive(t) \/ Join(t) \/ forwardResponse(t)
  BY <1>6 DEF Receive, Join, forwardResponse, wire, Steps
<1>7. CASE ReceiveDone \/ Stop \/ TimerFires \/ Signalled
  BY <1>7 DEF ReceiveDone, Stop, TimerFires, Signalled, SendDone, wire, calls, Steps
<1>. QED
  BY <1>1, <1>2, <1>3, <1>4, <1>5, <1>6, <1>7 DEF ClientNext, mainLoop, NewReq

(* Where a request is says whether it holds a slot.                        *)
LEMMA ReadersHoldSlots ==
  ASSUME Slotted, NEW S \in SUBSET Reqs, \A r \in S : pc[r] = "read"
  PROVE  IsFiniteSet(S) /\ Cardinality(S) <= MaxConcurrentConnections
<1>1. S \in SUBSET HoldingSlot
  BY DEF HoldingSlot, At
<1>2. IsFiniteSet(S) /\ Cardinality(S) <= Cardinality(HoldingSlot) /\ Cardinality(S) \in Nat
  BY <1>1, StartedFinite, FS_Subset, FS_CardinalityType
<1>3. Cardinality(HoldingSlot) <= MaxConcurrentConnections /\ MaxConcurrentConnections \in Nat
  BY ClientAssumption DEF Slotted, SlotsAccounted
<1>. QED  BY <1>2, <1>3, StartedFinite
=============================================================================
