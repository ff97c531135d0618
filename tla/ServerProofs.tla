---------------------------- MODULE ServerProofs ----------------------------
(***************************************************************************)
(* Theorems about Server, for every set of streams, pool of workers, queue *)
(* capacity, callback and choice of faults.                                *)
(***************************************************************************)
EXTENDS Server, FiniteSetTheorems, SequenceTheorems, TLAPS

-----------------------------------------------------------------------------
(* The inductive invariant, part by part.  TypeOK is not inductive without *)
(* Hands, which says that a worker that is closing a stream has one.       *)

(* A worker is without a job exactly when it waits for one. *)
Hands == \A w \in Workers : worker[w] = "receive" <=> job[w] = NoStream

(* Only the stream of a request that was taken on is ever closed. *)
ClosedWereTaken == \A s \in fin : handler[s] = "queued"

(* A worker that returned did so over a stream its peer stopped reading. *)
Excused ==
  /\ IsFiniteSet(Stopped)
  /\ \A w \in Workers : worker[w] = "returned" => peer[job[w]] = "stopped"

Typed == TypeOK /\ Hands
Owned == Typed /\ ClosedWereTaken /\ OneOwner

-----------------------------------------------------------------------------
(* What Encode leaves in reply, whether the peer still reads or not.       *)
LEMMA EncodeTyped ==
  ASSUME NEW s, NEW type \in MsgTypes, reply \in [Streams -> Seq(MsgTypes)],
         Encode(s, type)
  PROVE  reply' \in [Streams -> Seq(MsgTypes)]
<1>1. CASE peer[s] = "reading" /\ s \in Streams
  <2>1. Append(reply[s], type) \in Seq(MsgTypes)
    BY <1>1, AppendProperties
  <2>. QED  BY <1>1, <2>1 DEF Encode
<1>2. CASE peer[s] = "reading" /\ s \notin Streams
  BY <1>2 DEF Encode
<1>3. CASE peer[s] # "reading"
  BY <1>3 DEF Encode
<1>. QED  BY <1>1, <1>2, <1>3

(* The initial state is well typed. *)
LEMMA InitTyped == Init => Typed
BY ServerAssumption, EmptySeq DEF Init, Typed, TypeOK, Hands

(* Every step of the server and its peers preserves the types. *)
LEMMA NextTyped == Typed /\ [Next]_vars => Typed'
<1>. SUFFICES ASSUME Typed, [Next]_vars  PROVE Typed'
  OBVIOUS
<1>. NoStream \notin Streams
  BY ServerAssumption
<1>. USE DEF Typed, TypeOK, Hands, wire, internals
<1>1. ASSUME NEW s \in Streams, Accept(s)  PROVE Typed'
  BY <1>1 DEF Accept
<1>2. ASSUME NEW s \in Streams, DecodeFails(s)  PROVE Typed'
  BY <1>2 DEF DecodeFails
<1>3. ASSUME NEW s \in Streams, Enqueue(s)  PROVE Typed'
  <2>1. Append(queue, s) \in Seq(Streams)
    BY AppendProperties
  <2>. QED  BY <1>3, <2>1 DEF Enqueue
<1>4. ASSUME NEW s \in Streams, FindFull(s)  PROVE Typed'
  BY <1>4 DEF FindFull
<1>5. ASSUME NEW s \in Streams, HandleQueueFull(s)  PROVE Typed'
  <2>1. reply' \in [Streams -> Seq(MsgTypes)]
    BY <1>5, EncodeTyped DEF HandleQueueFull, MsgTypes
  <2>. QED  BY <1>5, <2>1 DEF HandleQueueFull
<1>6. ASSUME NEW w \in Workers, Receive(w)  PROVE Typed'
  <2>1. Head(queue) \in Streams /\ Tail(queue) \in Seq(Streams)
    BY <1>6, HeadTailProperties DEF Receive
  <2>. QED  BY <1>6, <2>1 DEF Receive
<1>7. ASSUME NEW w \in Workers, Decide(w)  PROVE Typed'
  <2>1. reply' \in [Streams -> Seq(MsgTypes)]
    BY <1>7, EncodeTyped DEF Decide, MsgTypes
  <2>2. attempt' \in [Workers -> Nat]
    BY <1>7 DEF Decide
  <2>3. /\ worker' \in [Workers -> {"receive", "decide", "close", "returned"}]
        /\ \A v \in Workers : worker'[v] = "receive" <=> worker[v] = "receive"
    <3>1. CASE worker' = [worker EXCEPT ![w] = "close"]
      BY <1>7, <3>1 DEF Decide
    <3>2. CASE worker' = worker
      BY <3>2
    <3>. QED  BY <1>7, <3>1, <3>2 DEF Decide
  <2>4. UNCHANGED <<request, fin, peer, up, handler, queue, job>>
    BY <1>7 DEF Decide
  <2>. QED  BY <2>1, <2>2, <2>3, <2>4
<1>8. ASSUME NEW w \in Workers, DecidePanics(w)  PROVE Typed'
  BY <1>8 DEF DecidePanics
<1>9. ASSUME NEW w \in Workers, CloseStream(w)  PROVE Typed'
  <2>1. job[w] \in Streams
    BY <1>9 DEF CloseStream
  <2>. QED  BY <1>9, <2>1 DEF CloseStream
<1>10. ASSUME NEW w \in Workers, CloseFails(w)  PROVE Typed'
  BY <1>10 DEF CloseFails
<1>11. ASSUME Shutdown  PROVE Typed'
  BY <1>11 DEF Shutdown
<1>12. ASSUME NEW s \in Streams, PeerStep(s)  PROVE Typed'
  <2>1. CASE PeerSends(s)
    BY <2>1 DEF PeerSends
  <2>2. CASE PeerStops(s)
    BY <2>2 DEF PeerStops
  <2>3. CASE PeerGone(s)
    BY <2>3 DEF PeerGone
  <2>. QED  BY <1>12, <2>1, <2>2, <2>3 DEF PeerStep
<1>13. ASSUME UNCHANGED vars  PROVE Typed'
  BY <1>13 DEF vars
<1>. QED
  BY <1>1, <1>2, <1>3, <1>4, <1>5, <1>6, <1>7, <1>8, <1>9, <1>10, <1>11, <1>12, <1>13
     DEF Next, ServerNext, HandlerStep, WorkerStep

-----------------------------------------------------------------------------
(* Sequences as sets: what Append and Tail do to the elements of a queue   *)
(* without repetition.                                                     *)
Elems(q) == {q[i] : i \in 1..Len(q)}
Distinct(q) == \A i, j \in 1..Len(q) : q[i] = q[j] => i = j

LEMMA AppendElems ==
  ASSUME NEW q \in Seq(Streams), NEW s \in Streams
  PROVE  /\ Elems(Append(q, s)) = Elems(q) \cup {s}
         /\ Distinct(q) /\ s \notin Elems(q) => Distinct(Append(q, s))
<1>. DEFINE r == Append(q, s)
<1>1. /\ Len(r) = Len(q) + 1 /\ Len(q) \in Nat
      /\ \A i \in 1..Len(q) : r[i] = q[i]
      /\ r[Len(q) + 1] = s
  BY AppendProperties, LenProperties
<1>. HIDE DEF r
<1>2. Elems(r) = Elems(q) \cup {s}
  <2>1. 1..Len(r) = 1..Len(q) \cup {Len(q) + 1}
    BY <1>1
  <2>. QED  BY <1>1, <2>1 DEF Elems
<1>3. ASSUME Distinct(q), s \notin Elems(q)  PROVE Distinct(r)
  BY <1>1, <1>3 DEF Elems, Distinct
<1>. QED  BY <1>2, <1>3 DEF r

LEMMA TailElems ==
  ASSUME NEW q \in Seq(Streams), q # <<>>, Distinct(q)
  PROVE  /\ Head(q) \in Elems(q)
         /\ Elems(Tail(q)) = Elems(q) \ {Head(q)}
         /\ Distinct(Tail(q))
<1>. DEFINE r == Tail(q)
<1>1. /\ Len(q) \in Nat /\ Len(q) > 0 /\ Len(r) = Len(q) - 1
      /\ \A i \in 1..Len(r) : r[i] = q[i + 1]
      /\ Head(q) = q[1]
  BY HeadTailProperties, LenProperties, EmptySeq
<1>. HIDE DEF r
<1>2. Head(q) \in Elems(q)
  BY <1>1 DEF Elems
<1>3. Elems(r) \subseteq Elems(q) \ {Head(q)}
  BY <1>1 DEF Elems, Distinct
<1>4. ASSUME NEW x \in Elems(q) \ {Head(q)}  PROVE x \in Elems(r)
  <2>1. PICK i \in 1..Len(q) : q[i] = x
    BY DEF Elems
  <2>2. i # 1 /\ i - 1 \in 1..Len(r) /\ r[i - 1] = q[i]
    BY <1>1, <2>1
  <2>. QED  BY <2>1, <2>2 DEF Elems
<1>5. Distinct(r)
  BY <1>1 DEF Distinct
<1>. QED  BY <1>2, <1>3, <1>4, <1>5 DEF r

(* A step that moves no job between its owners. *)
LEMMA NothingMoves ==
  ASSUME OneOwner, UNCHANGED <<queue, job>>, Pending' = Pending
  PROVE  OneOwner'
BY DEF OneOwner, Queued, InHand

(* Every step preserves OneOwner, given the types and that only streams of *)
(* requests taken on are closed.                                           *)
LEMMA NextOwned == Owned /\ [Next]_vars => Owned'
<1>. SUFFICES ASSUME Owned, [Next]_vars
              PROVE  ClosedWereTaken' /\ OneOwner'
  BY NextTyped DEF Owned
<1>0. Typed /\ Typed' /\ TypeOK /\ TypeOK' /\ Hands /\ OneOwner /\ ClosedWereTaken
  BY NextTyped DEF Owned, Typed
<1>h. \A s \in Streams : handler[s] # "queued" => s \notin fin
  BY <1>0 DEF ClosedWereTaken
<1>q. Queued = Elems(queue) /\ Distinct(queue) /\ queue \in Seq(Streams)
  BY <1>0 DEF Queued, Elems, OneOwner, Distinct, TypeOK
<1>1. ASSUME UNCHANGED <<fin, queue, job>>,
             \A s \in Streams : handler'[s] = "queued" <=> handler[s] = "queued"
      PROVE  ClosedWereTaken' /\ OneOwner'
  <2>1. Pending' = Pending
    BY <1>1 DEF Pending
  <2>2. fin \subseteq Streams
    BY <1>0 DEF TypeOK
  <2>. QED  BY <1>0, <1>1, <2>1, <2>2, NothingMoves DEF ClosedWereTaken
<1>2. ASSUME NEW s \in Streams, Enqueue(s)  PROVE ClosedWereTaken' /\ OneOwner'
  <2>1. /\ handler[s] = "decode" /\ handler' = [handler EXCEPT ![s] = "queued"]
        /\ queue' = Append(queue, s) /\ UNCHANGED <<fin, job>>
    BY <1>2 DEF Enqueue, wire
  <2>2. Pending' = Pending \cup {s} /\ s \notin Pending
    BY <1>0, <1>h, <2>1 DEF Pending, TypeOK
  <2>3. Queued' = Queued \cup {s} /\ InHand' = InHand
    BY <1>q, <2>1, AppendElems DEF Queued, Elems, InHand
  <2>4. Distinct(queue')
    BY <1>0, <1>q, <2>1, <2>2, AppendElems DEF OneOwner
  <2>5. OneOwner'
    BY <1>0, <2>1, <2>2, <2>3, <2>4 DEF OneOwner, Distinct
  <2>6. ClosedWereTaken'
    BY <1>0, <2>1 DEF ClosedWereTaken, TypeOK
  <2>. QED  BY <2>5, <2>6
<1>3. ASSUME NEW w \in Workers, Receive(w)  PROVE ClosedWereTaken' /\ OneOwner'
  <2>1. /\ worker[w] = "receive" /\ queue # <<>> /\ queue' = Tail(queue)
        /\ job' = [job EXCEPT ![w] = Head(queue)] /\ UNCHANGED <<fin, handler>>
    BY <1>3 DEF Receive, wire
  <2>2. job[w] = NoStream /\ Head(queue) \in Queued /\ Head(queue) # NoStream
    BY <1>0, <1>q, <2>1, TailElems, HeadTailProperties, ServerAssumption DEF Hands
  <2>3. Queued' = Queued \ {Head(queue)} /\ Distinct(queue')
    BY <1>q, <2>1, TailElems DEF Queued, Elems
  <2>4. /\ \A v \in Workers : job'[v] = IF v = w THEN Head(queue) ELSE job[v]
        /\ job'[w] = Head(queue)
    BY <1>0, <2>1 DEF TypeOK
  <2>5. InHand' = InHand \cup {Head(queue)}
    BY <2>2, <2>4 DEF InHand
  <2>6. Head(queue) \notin InHand
    BY <1>0, <2>2 DEF OneOwner
  <2>7. Pending' = Pending
    BY <2>1 DEF Pending
  <2>8. /\ Pending' = Queued' \cup InHand' /\ Queued' \cap InHand' = {}
    BY <1>0, <2>2, <2>3, <2>5, <2>7 DEF OneOwner
  <2>9. \A u, v \in Workers : job'[u] = job'[v] /\ job'[u] # NoStream => u = v
    BY <1>0, <2>2, <2>4, <2>6 DEF OneOwner, InHand
  <2>. QED  BY <1>0, <2>1, <2>3, <2>8, <2>9 DEF OneOwner, Distinct, ClosedWereTaken
<1>4. ASSUME NEW w \in Workers, CloseStream(w)  PROVE ClosedWereTaken' /\ OneOwner'
  <2>1. /\ worker[w] = "close" /\ fin' = fin \cup {job[w]}
        /\ job' = [job EXCEPT ![w] = NoStream] /\ UNCHANGED <<queue, handler>>
    BY <1>4 DEF CloseStream
  <2>2. job[w] # NoStream /\ job[w] \in InHand
    BY <1>0, <2>1 DEF Hands, InHand
  <2>3. job[w] \in Pending /\ job[w] \notin Queued
    BY <1>0, <2>2 DEF OneOwner
  <2>4. /\ \A v \in Workers : job'[v] = IF v = w THEN NoStream ELSE job[v]
        /\ Pending' = Pending \ {job[w]} /\ Queued' = Queued
    BY <1>0, <2>1 DEF TypeOK, Pending, Queued
  <2>5. InHand' = InHand \ {job[w]}
    BY <1>0, <2>2, <2>4 DEF InHand, OneOwner
  <2>6. \A u, v \in Workers : job'[u] = job'[v] /\ job'[u] # NoStream => u = v
    BY <1>0, <2>4 DEF OneOwner
  <2>7. ClosedWereTaken'
    BY <1>0, <2>1, <2>3 DEF ClosedWereTaken, Pending
  <2>. QED  BY <1>0, <2>1, <2>3, <2>4, <2>5, <2>6, <2>7 DEF OneOwner
<1>5. ASSUME NEW s \in Streams, Accept(s) \/ DecodeFails(s) \/ FindFull(s) \/ HandleQueueFull(s)
      PROVE  ClosedWereTaken' /\ OneOwner'
  BY <1>0, <1>1, <1>5 DEF Accept, DecodeFails, FindFull, HandleQueueFull, wire, TypeOK
<1>6. ASSUME NEW w \in Workers, Decide(w) \/ DecidePanics(w) \/ CloseFails(w)
      PROVE  ClosedWereTaken' /\ OneOwner'
  BY <1>1, <1>6 DEF Decide, DecidePanics, CloseFails, wire, internals
<1>7. ASSUME Shutdown \/ UNCHANGED vars  PROVE ClosedWereTaken' /\ OneOwner'
  BY <1>1, <1>7 DEF Shutdown, vars, wire, internals
<1>8. ASSUME NEW s \in Streams, PeerStep(s)  PROVE ClosedWereTaken' /\ OneOwner'
  BY <1>1, <1>8 DEF PeerStep, PeerSends, PeerStops, PeerGone, internals
<1>. QED
  BY <1>2, <1>3, <1>4, <1>5, <1>6, <1>7, <1>8
     DEF Next, ServerNext, HandlerStep, WorkerStep

LEMMA InitOwned == Init => Owned
<1>. SUFFICES ASSUME Init  PROVE Owned
  OBVIOUS
<1>1. Typed
  BY InitTyped
<1>2. Pending = {} /\ Queued = {} /\ InHand = {}
  BY DEF Init, Pending, Queued, InHand
<1>. QED  BY <1>1, <1>2 DEF Init, Owned, OneOwner, ClosedWereTaken

LEMMA AlwaysOwned == Spec => []Owned
<1>1. Init => Owned
  BY InitOwned
<1>2. Owned /\ [Next]_vars => Owned'
  BY NextOwned
<1>. QED  BY <1>1, <1>2, PTL DEF Spec

(* The variables keep their types in every behaviour of the server.        *)
THEOREM TypeCorrect == Spec => []TypeOK
<1>1. Owned => TypeOK
  BY DEF Owned, Typed
<1>. QED  BY <1>1, AlwaysOwned, PTL

(* No job is lost or duplicated between newRequestServer, requestQueue and *)
(* the workers (server.go:281-282, :309-345).                              *)
THEOREM NoJobLostOrDuplicated == Spec => []OneOwner
<1>1. Owned => OneOwner
  BY DEF Owned
<1>. QED  BY <1>1, AlwaysOwned, PTL

-----------------------------------------------------------------------------
(* Only Enqueue lengthens the queue, and only below its capacity. *)
Bounded == Len(queue) <= BufSize

LEMMA NextBounded == Owned /\ Bounded /\ [Next]_vars => Bounded'
<1>. SUFFICES ASSUME Owned, Bounded, [Next]_vars  PROVE Bounded'
  OBVIOUS
<1>0. queue \in Seq(Streams) /\ Len(queue) \in Nat /\ BufSize \in Nat
  BY ServerAssumption, LenProperties DEF Owned, Typed, TypeOK
<1>1. ASSUME NEW s \in Streams, Enqueue(s)  PROVE Bounded'
  BY <1>0, <1>1, AppendProperties DEF Enqueue, Bounded
<1>2. ASSUME NEW w \in Workers, Receive(w)  PROVE Bounded'
  BY <1>0, <1>2, HeadTailProperties DEF Receive, Bounded
<1>3. ASSUME UNCHANGED queue  PROVE Bounded'
  BY <1>3 DEF Bounded
<1>4. ASSUME NEW s \in Streams, Accept(s) \/ DecodeFails(s) \/ FindFull(s) \/ HandleQueueFull(s)
      PROVE  UNCHANGED queue
  BY <1>4 DEF Accept, DecodeFails, FindFull, HandleQueueFull
<1>5. ASSUME NEW w \in Workers, Decide(w) \/ DecidePanics(w) \/ CloseStream(w) \/ CloseFails(w)
      PROVE  UNCHANGED queue
  BY <1>5 DEF Decide, DecidePanics, CloseStream, CloseFails, internals
<1>6. ASSUME Shutdown \/ UNCHANGED vars  PROVE UNCHANGED queue
  BY <1>6 DEF Shutdown, vars, internals
<1>7. ASSUME NEW s \in Streams, PeerStep(s)  PROVE UNCHANGED queue
  BY <1>7 DEF PeerStep, PeerSends, PeerStops, PeerGone, internals
<1>. QED
  BY <1>1, <1>2, <1>3, <1>4, <1>5, <1>6, <1>7
     DEF Next, ServerNext, HandlerStep, WorkerStep

(* There are no more busy workers than workers.                            *)
LEMMA BusyAreWorkers == IsFiniteSet(Busy) /\ Cardinality(Busy) <= Cardinality(Workers)
<1>1. IsFiniteSet(Workers) /\ Busy \in SUBSET Workers
  BY ServerAssumption DEF Busy
<1>. QED  BY <1>1, FS_Subset

(* As every pending request is on the queue or in the hands of a worker of *)
(* its own, there are no more of them than places and busy workers.        *)
LEMMA PendingFits == Owned /\ Bounded => IsFiniteSet(Pending) /\ Backpressure
<1>. SUFFICES ASSUME Owned, Bounded  PROVE IsFiniteSet(Pending) /\ Backpressure
  OBVIOUS
<1>0. /\ queue \in Seq(Streams) /\ Len(queue) \in Nat /\ BufSize \in Nat
      /\ job \in [Workers -> Streams \cup {NoStream}] /\ IsFiniteSet(Workers)
      /\ Pending = Queued \cup InHand
  BY ServerAssumption, LenProperties DEF Owned, Typed, TypeOK, OneOwner
<1>1. IsFiniteSet(Queued) /\ Cardinality(Queued) <= Len(queue)
  <2>1. queue \in Surjection(1..Len(queue), Queued)
    BY <1>0, LenProperties DEF Queued, Surjection
  <2>2. IsFiniteSet(1..Len(queue)) /\ Cardinality(1..Len(queue)) = Len(queue)
    <3>1. 1 \in Int /\ Len(queue) \in Int
      BY <1>0
    <3>2. /\ IsFiniteSet(1..Len(queue))
          /\ Cardinality(1..Len(queue)) = IF 1 > Len(queue) THEN 0 ELSE Len(queue) - 1 + 1
      BY ONLY <3>1, FS_Interval
    <3>. QED  BY <1>0, <3>2
  <2>. QED  BY <2>1, <2>2, FS_Surjection
<1>2. IsFiniteSet(InHand) /\ Cardinality(InHand) <= Cardinality(Busy)
  <2>. DEFINE hand == [w \in Busy |-> job[w]]
  <2>1. hand \in Surjection(Busy, InHand)
    BY <1>0, ServerAssumption DEF Owned, Typed, Hands, InHand, Busy, Surjection
  <2>. QED  BY <2>1, BusyAreWorkers, FS_Surjection
<1>3. /\ Cardinality(Queued \cup InHand)
           = Cardinality(Queued) + Cardinality(InHand) - Cardinality(Queued \cap InHand)
      /\ IsFiniteSet(Queued \cap InHand) /\ IsFiniteSet(Queued \cup InHand)
  BY <1>1, <1>2, FS_Union, FS_Intersection
<1>4. /\ Cardinality(Queued) \in Nat /\ Cardinality(InHand) \in Nat
      /\ Cardinality(Queued \cap InHand) \in Nat /\ Cardinality(Busy) \in Nat
  BY <1>0, <1>1, <1>2, <1>3, BusyAreWorkers, FS_CardinalityType
<1>. QED  BY <1>0, <1>1, <1>2, <1>3, <1>4 DEF Backpressure, Bounded

LEMMA AlwaysBounded == Spec => [](Owned /\ Bounded)
<1>1. Init => Bounded
  BY ServerAssumption, EmptySeq DEF Init, Bounded
<1>2. Owned /\ Bounded /\ [Next]_vars => Bounded'
  BY NextBounded
<1>. QED  BY <1>1, <1>2, AlwaysOwned, PTL DEF Spec

(* However many streams the peers open, the server has taken on no more    *)
(* than its queue and its busy workers hold (server.go:226, :240).         *)
THEOREM LoadIsBounded == Spec => []Backpressure
BY AlwaysBounded, PendingFits, PTL

-----------------------------------------------------------------------------
(* The stream of the job in hand belongs to a request that was taken on    *)
(* and is not closed.                                                      *)
LEMMA JobInHand ==
  ASSUME Owned, NEW w \in Workers, worker[w] # "receive"
  PROVE  job[w] \in Streams /\ handler[job[w]] = "queued" /\ job[w] \notin fin
<1>1. job[w] # NoStream /\ job[w] \in InHand
  BY DEF Owned, Typed, Hands, InHand
<1>2. job[w] \in Pending
  BY <1>1 DEF Owned, OneOwner
<1>. QED  BY <1>2 DEF Pending

(* What Encode makes of one stream's messages; the others are as before.   *)
LEMMA EncodeAppends ==
  ASSUME NEW s \in Streams, NEW type \in MsgTypes, TypeOK, Encode(s, type)
  PROVE  /\ reply'[s] \in {reply[s], Append(reply[s], type)}
         /\ \A t \in Streams : t # s => reply'[t] = reply[t]
<1>1. CASE peer[s] = "reading"
  BY <1>1 DEF Encode, TypeOK
<1>2. CASE peer[s] # "reading"
  BY <1>2 DEF Encode
<1>. QED  BY <1>1, <1>2

LEMMA NextReplies == Owned /\ ReplyMatchesFate /\ [Next]_vars => ReplyMatchesFate'
<1>. SUFFICES ASSUME Owned, ReplyMatchesFate, [Next]_vars  PROVE ReplyMatchesFate'
  OBVIOUS
<1>0. TypeOK /\ Typed
  BY DEF Owned, Typed
<1>1. ASSUME NEW s \in Streams, HandleQueueFull(s)  PROVE ReplyMatchesFate'
  <2>1. /\ handler[s] = "full" /\ handler' = [handler EXCEPT ![s] = "refused"]
        /\ UNCHANGED fin
        /\ \/ UNCHANGED reply
           \/ Encode(s, "QueueFull")
    BY <1>1 DEF HandleQueueFull
  <2>2. reply[s] = <<>> /\ s \notin fin
    BY <2>1 DEF ReplyMatchesFate
  <2>3. reply'[s] \in {<<>>, <<"QueueFull">>}
    <3>1. Append(<<>>, "QueueFull") = <<"QueueFull">>
      OBVIOUS
    <3>. QED  BY <1>0, <2>1, <2>2, <3>1, EncodeAppends DEF MsgTypes
  <2>4. \A t \in Streams : t # s => reply'[t] = reply[t] /\ handler'[t] = handler[t]
    BY <1>0, <2>1, EncodeAppends DEF MsgTypes, TypeOK
  <2>. QED  BY <1>0, <2>1, <2>2, <2>3, <2>4 DEF ReplyMatchesFate, TypeOK
<1>2. ASSUME NEW w \in Workers, Decide(w)  PROVE ReplyMatchesFate'
  <2>. DEFINE s == job[w]
  <2>1. /\ worker[w] = "decide" /\ UNCHANGED <<fin, handler>>
        /\ UNCHANGED reply \/ Encode(s, "Response")
    BY <1>2 DEF Decide
  <2>2. s \in Streams /\ handler[s] = "queued"
    BY <2>1, JobInHand
  <2>3. reply[s] \in Seq(MsgTypes)
    BY <1>0, <2>2 DEF TypeOK
  <2>4. \A i \in 1..Len(Append(reply[s], "Response")) : Append(reply[s], "Response")[i] = "Response"
    <3>1. /\ Len(reply[s]) \in Nat /\ Len(Append(reply[s], "Response")) = Len(reply[s]) + 1
          /\ \A i \in 1..Len(reply[s]) : Append(reply[s], "Response")[i] = reply[s][i]
          /\ Append(reply[s], "Response")[Len(reply[s]) + 1] = "Response"
      BY <2>3, AppendProperties, LenProperties DEF MsgTypes
    <3>. QED  BY <2>2, <3>1 DEF ReplyMatchesFate
  <2>5. \A t \in Streams : t # s => reply'[t] = reply[t]
    BY <1>0, <2>1, <2>2, EncodeAppends DEF MsgTypes
  <2>6. \A i \in 1..Len(reply'[s]) : reply'[s][i] = "Response"
    <3>1. reply'[s] \in {reply[s], Append(reply[s], "Response")}
      BY <1>0, <2>1, <2>2, EncodeAppends DEF MsgTypes
    <3>2. \A i \in 1..Len(reply[s]) : reply[s][i] = "Response"
      BY <2>2 DEF ReplyMatchesFate
    <3>. HIDE DEF s
    <3>3. CASE reply'[s] = reply[s]
      BY <3>2, <3>3
    <3>4. CASE reply'[s] = Append(reply[s], "Response")
      BY <2>4, <3>4
    <3>. QED  BY <3>1, <3>3, <3>4
  <2>. HIDE DEF s
  <2>. QED  BY <2>1, <2>2, <2>5, <2>6 DEF ReplyMatchesFate
<1>3. ASSUME NEW w \in Workers, CloseStream(w)  PROVE ReplyMatchesFate'
  <2>1. worker[w] # "receive" /\ UNCHANGED <<reply, handler>> /\ fin' = fin \cup {job[w]}
    BY <1>3 DEF CloseStream
  <2>2. job[w] \in Streams /\ handler[job[w]] = "queued"
    BY <2>1, JobInHand
  <2>. QED  BY <2>1, <2>2 DEF ReplyMatchesFate
<1>4. ASSUME NEW s \in Streams, Accept(s) \/ DecodeFails(s) \/ Enqueue(s) \/ FindFull(s)
      PROVE  ReplyMatchesFate'
  <2>1. /\ UNCHANGED <<reply, fin>> /\ handler[s] \in {"idle", "decode"}
        /\ \E new \in {"decode", "failed", "queued", "full"} :
             handler' = [handler EXCEPT ![s] = new]
    BY <1>4 DEF Accept, DecodeFails, Enqueue, FindFull, wire
  <2>2. reply[s] = <<>> /\ s \notin fin /\ Len(<<>>) = 0
    BY <2>1, EmptySeq DEF ReplyMatchesFate
  <2>3. \A t \in Streams : t # s => handler'[t] = handler[t]
    BY <1>0, <2>1 DEF TypeOK
  <2>4. handler'[s] # "refused"
    BY <1>0, <2>1 DEF TypeOK
  <2>. QED  BY <2>1, <2>2, <2>3, <2>4 DEF ReplyMatchesFate
<1>5. ASSUME UNCHANGED <<reply, fin, handler>>  PROVE ReplyMatchesFate'
  BY <1>5 DEF ReplyMatchesFate
<1>6. ASSUME NEW w \in Workers, Receive(w) \/ DecidePanics(w) \/ CloseFails(w)
      PROVE  UNCHANGED <<reply, fin, handler>>
  BY <1>6 DEF Receive, DecidePanics, CloseFails, wire, internals
<1>7. ASSUME Shutdown \/ UNCHANGED vars  PROVE UNCHANGED <<reply, fin, handler>>
  BY <1>7 DEF Shutdown, vars, wire, internals
<1>8. ASSUME NEW s \in Streams, PeerStep(s)  PROVE UNCHANGED <<reply, fin, handler>>
  BY <1>8 DEF PeerStep, PeerSends, PeerStops, PeerGone, internals
<1>. QED
  BY <1>1, <1>2, <1>3, <1>4, <1>5, <1>6, <1>7, <1>8
     DEF Next, ServerNext, HandlerStep, WorkerStep

(* No stream is both answered and refused, and none is closed before its   *)
(* request was taken on (server.go:281-286, :330-341).                     *)
THEOREM RepliesMatchFates == Spec => []ReplyMatchesFate
<1>1. Init => ReplyMatchesFate
  BY EmptySeq DEF Init, ReplyMatchesFate
<1>. QED  BY <1>1, NextReplies, AlwaysOwned, PTL DEF Spec

-----------------------------------------------------------------------------
(* A step leaves alone what is closed, refused, failed or down.            *)
LEMMA NextFinal ==
  Owned /\ [Next]_vars =>
    /\ \A s \in fin : s \in fin' /\ reply'[s] = reply[s]
    /\ \A s \in Streams : handler[s] \in {"refused", "failed"} => handler'[s] = handler[s]
    /\ up' => up
<1>. DEFINE Final ==
       /\ \A s \in fin : s \in fin' /\ reply'[s] = reply[s]
       /\ \A s \in Streams : handler[s] \in {"refused", "failed"} => handler'[s] = handler[s]
       /\ up' => up
<1>. SUFFICES ASSUME Owned, [Next]_vars  PROVE Final
  OBVIOUS
<1>0. TypeOK /\ fin \subseteq Streams /\ ClosedWereTaken
  BY DEF Owned, Typed, TypeOK
<1>1. ASSUME NEW s \in Streams, HandleQueueFull(s)  PROVE Final
  <2>1. /\ handler[s] = "full" /\ handler' = [handler EXCEPT ![s] = "refused"]
        /\ UNCHANGED <<fin, up>>
        /\ UNCHANGED reply \/ Encode(s, "QueueFull")
    BY <1>1 DEF HandleQueueFull
  <2>2. s \notin fin
    BY <1>0, <2>1 DEF ClosedWereTaken
  <2>3. \A t \in Streams : t # s => reply'[t] = reply[t] /\ handler'[t] = handler[t]
    BY <1>0, <2>1, EncodeAppends DEF MsgTypes, TypeOK
  <2>. QED  BY <1>0, <2>1, <2>2, <2>3
<1>2. ASSUME NEW w \in Workers, Decide(w)  PROVE Final
  <2>1. /\ worker[w] # "receive" /\ UNCHANGED <<fin, up, handler>>
        /\ UNCHANGED reply \/ Encode(job[w], "Response")
    BY <1>2 DEF Decide
  <2>2. job[w] \in Streams /\ job[w] \notin fin
    BY <2>1, JobInHand
  <2>3. \A t \in Streams : t # job[w] => reply'[t] = reply[t]
    BY <1>0, <2>1, <2>2, EncodeAppends DEF MsgTypes
  <2>. QED  BY <1>0, <2>1, <2>2, <2>3
<1>3. ASSUME NEW s \in Streams, Accept(s) \/ DecodeFails(s) \/ Enqueue(s) \/ FindFull(s)
      PROVE  Final
  <2>1. /\ UNCHANGED <<reply, fin, up>> /\ handler[s] \in {"idle", "decode"}
        /\ \A t \in Streams : t # s => handler'[t] = handler[t]
    BY <1>0, <1>3 DEF Accept, DecodeFails, Enqueue, FindFull, wire, TypeOK
  <2>. QED  BY <2>1
<1>4. ASSUME NEW w \in Workers, Receive(w) \/ DecidePanics(w) \/ CloseStream(w) \/ CloseFails(w)
      PROVE  Final
  BY <1>0, <1>4 DEF Receive, DecidePanics, CloseStream, CloseFails, wire, internals
<1>5. ASSUME Shutdown \/ UNCHANGED vars  PROVE Final
  BY <1>5 DEF Shutdown, vars, wire, internals
<1>6. ASSUME NEW s \in Streams, PeerStep(s)  PROVE Final
  BY <1>6 DEF PeerStep, PeerSends, PeerStops, PeerGone, internals
<1>. HIDE DEF Final
<1>. QED
  BY <1>1, <1>2, <1>3, <1>4, <1>5, <1>6
     DEF Next, ServerNext, HandlerStep, WorkerStep

(* A closed stream is never written again, a verdict on a request is never *)
(* revised, and a server that is down stays down.                          *)
THEOREM FinalStaysFinal == Spec => FinalIsFinal
BY AlwaysOwned, NextFinal, PTL DEF Spec, FinalIsFinal

-----------------------------------------------------------------------------
LEMMA NextExcused == Owned /\ Excused /\ [Next]_vars => Excused'
<1>. SUFFICES ASSUME Owned, Excused, [Next]_vars  PROVE Excused'
  OBVIOUS
<1>0. TypeOK /\ Typed
  BY DEF Owned, Typed
<1>1. ASSUME UNCHANGED <<peer, worker, job>>  PROVE Excused'
  BY <1>1 DEF Excused, Stopped
<1>2. ASSUME NEW s \in Streams, PeerStep(s)  PROVE Excused'
  <2>1. CASE PeerSends(s)
    BY <1>1, <2>1 DEF PeerSends, internals
  <2>2. ASSUME UNCHANGED <<worker, job>>,
               peer[s] = "reading",
               NEW fault \in {"stopped", "gone"}, peer' = [peer EXCEPT ![s] = fault]
        PROVE  Excused'
    <3>1. Stopped' \in SUBSET (Stopped \cup {s})
      BY <1>0, <2>2 DEF Stopped, TypeOK
    <3>2. IsFiniteSet(Stopped')
      BY <3>1, FS_AddElement, FS_Subset DEF Excused
    <3>3. \A w \in Workers : worker[w] = "returned" => job[w] \in Streams
      BY JobInHand DEF Owned
    <3>4. \A t \in Streams : peer[t] = "stopped" => peer'[t] = "stopped"
      BY <1>0, <2>2 DEF TypeOK
    <3>. QED  BY <2>2, <3>2, <3>3, <3>4 DEF Excused
  <2>. QED  BY <1>2, <2>1, <2>2 DEF PeerStep, PeerStops, PeerGone, internals
<1>3. ASSUME NEW w \in Workers, Receive(w) \/ CloseStream(w)  PROVE Excused'
  <2>1. /\ UNCHANGED peer /\ worker'[w] # "returned"
        /\ \A v \in Workers : v # w => worker'[v] = worker[v] /\ job'[v] = job[v]
    BY <1>0, <1>3 DEF Receive, CloseStream, wire, TypeOK
  <2>. QED  BY <2>1 DEF Excused, Stopped
<1>4. ASSUME NEW w \in Workers, Decide(w)  PROVE Excused'
  <2>1. /\ UNCHANGED <<peer, job>>
        /\ \A v \in Workers : worker'[v] = "returned" => worker[v] = "returned"
    <3>1. CASE worker' = [worker EXCEPT ![w] = "close"]
      BY <1>0, <1>4, <3>1 DEF Decide, TypeOK
    <3>2. CASE worker' = worker
      BY <1>4, <3>2 DEF Decide
    <3>. QED  BY <1>4, <3>1, <3>2 DEF Decide
  <2>. QED  BY <2>1 DEF Excused, Stopped
<1>5. ASSUME NEW w \in Workers, CloseFails(w)  PROVE Excused'
  <2>1. /\ UNCHANGED <<peer, job>> /\ peer[job[w]] = "stopped"
        /\ \A v \in Workers : v # w => worker'[v] = worker[v]
    BY <1>0, <1>5 DEF CloseFails, wire, TypeOK
  <2>. QED  BY <2>1 DEF Excused, Stopped
<1>6. ASSUME NEW s \in Streams, HandlerStep(s)  PROVE UNCHANGED <<peer, worker, job>>
  BY <1>6 DEF HandlerStep, Accept, DecodeFails, Enqueue, FindFull, HandleQueueFull, wire
<1>7. ASSUME NEW w \in Workers, DecidePanics(w)  PROVE UNCHANGED <<peer, worker, job>>
  BY <1>7 DEF DecidePanics, internals
<1>8. ASSUME Shutdown \/ UNCHANGED vars  PROVE UNCHANGED <<peer, worker, job>>
  BY <1>8 DEF Shutdown, vars, wire, internals
<1>. QED
  BY <1>1, <1>2, <1>3, <1>4, <1>5, <1>6, <1>7, <1>8 DEF Next, ServerNext, WorkerStep

(* The streams that cost a worker each are stopped, and all different.     *)
LEMMA LossesInjective == Owned /\ Excused => LossesExplained
<1>. SUFFICES ASSUME Owned, Excused  PROVE LossesExplained
  OBVIOUS
<1>. DEFINE f == [w \in WorkersLost |-> job[w]]
<1>1. \A w \in WorkersLost : w \in Workers /\ job[w] \in Stopped /\ job[w] # NoStream
  <2>. SUFFICES ASSUME NEW w \in WorkersLost
                PROVE  w \in Workers /\ job[w] \in Stopped /\ job[w] # NoStream
    OBVIOUS
  <2>1. w \in Workers /\ worker[w] = "returned"
    BY DEF WorkersLost
  <2>2. job[w] \in Streams
    BY <2>1, JobInHand
  <2>. QED  BY <2>1, <2>2, ServerAssumption DEF Excused, Stopped
<1>2. f \in Injection(WorkersLost, Stopped)
  BY <1>1 DEF Owned, OneOwner, Injection, IsInjective
<1>3. IsFiniteSet(Stopped)
  BY DEF Excused
<1>. HIDE DEF f
<1>. QED  BY <1>2, <1>3, FS_Injection DEF LossesExplained

(* Every worker lost is lost to a peer of its own that stopped reading, so *)
(* the pool outlives fewer such peers than it has workers                  *)
(* (server.go:341-344).                                                    *)
THEOREM LossesAreExplained == Spec => []LossesExplained
<1>1. Init => Excused
  <2>1. ASSUME Init  PROVE Stopped = {}
    BY <2>1 DEF Init, Stopped
  <2>. QED  BY <2>1, FS_EmptySet DEF Init, Excused
<1>2. Owned /\ Excused /\ [Next]_vars => Excused'
  BY NextExcused
<1>3. Owned /\ Excused => LossesExplained
  BY LossesInjective
<1>. QED  BY <1>1, <1>2, <1>3, AlwaysOwned, PTL DEF Spec

-----------------------------------------------------------------------------
(* The refinement.  What the abstract specification calls taken is what    *)
(* the server calls pending.                                               *)
Tells == Owned /\ Bounded /\ ReplyMatchesFate
FateOf == [s \in Streams |-> Fate(s)]

LEMMA TakenIsPending == Promise!Taken = Pending
<1>1. \A s \in Streams : Fate(s) = "taken" <=> s \in Pending
  BY DEF Fate, Pending
<1>2. Pending \subseteq Streams
  BY DEF Pending
<1>. QED  BY <1>1, <1>2 DEF Promise!Taken

(* A step that changes no handler's verdict and closes nothing changes no  *)
(* fate.                                                                   *)
LEMMA SameFate ==
  ASSUME UNCHANGED fin,
         \A s \in Streams : \/ handler'[s] = handler[s]
                            \/ /\ handler[s] \in {"idle", "decode", "full"}
                               /\ handler'[s] \in {"idle", "decode", "full"}
  PROVE  FateOf' = FateOf
<1>1. \A s \in Streams : Fate(s)' = Fate(s)
  BY DEF Fate
<1>. QED  BY <1>1 DEF FateOf

(* A step that changes the handler of s alone, and closes nothing. *)
LEMMA NewFate ==
  ASSUME NEW s \in Streams, TypeOK, s \notin fin, UNCHANGED fin,
         handler[s] \in {"idle", "decode", "full"},
         NEW verdict \in {"queued", "refused", "failed"},
         handler' = [handler EXCEPT ![s] = verdict]
  PROVE  /\ FateOf[s] = "new"
         /\ FateOf' = [FateOf EXCEPT ![s] = IF verdict = "queued" THEN "taken" ELSE verdict]
<1>1. Fate(s) = "new" /\ handler'[s] = verdict
  BY DEF Fate, TypeOK
<1>2. Fate(s)' = IF verdict = "queued" THEN "taken" ELSE verdict
  BY <1>1 DEF Fate
<1>3. \A t \in Streams : t # s => Fate(t)' = Fate(t)
  BY DEF Fate, TypeOK
<1>. QED  BY <1>1, <1>2, <1>3 DEF FateOf

LEMMA NextRefines ==
  Tells /\ Tells' /\ [Next]_vars => [Promise!ANext]_(Promise!avars)
<1>. SUFFICES ASSUME Tells, Tells', [Next]_vars, ~ UNCHANGED Promise!avars
              PROVE  Promise!ANext
  OBVIOUS
<1>0. /\ TypeOK /\ Owned /\ Bounded /\ ReplyMatchesFate /\ ClosedWereTaken
      /\ fin \subseteq Streams
  BY DEF Tells, Owned, Typed, TypeOK
<1>a. ~ (FateOf' = FateOf /\ UNCHANGED <<reply, up>>)
  BY DEF Promise!avars, FateOf
<1>1. ASSUME NEW s \in Streams, Enqueue(s)  PROVE Promise!Take(s)
  <2>1. /\ up /\ handler[s] = "decode" /\ handler' = [handler EXCEPT ![s] = "queued"]
        /\ UNCHANGED <<fin, reply, up>>
    BY <1>1 DEF Enqueue, wire
  <2>2. s \notin fin /\ s \notin Pending
    BY <1>0, <2>1 DEF ClosedWereTaken, Pending
  <2>3. FateOf[s] = "new" /\ FateOf' = [FateOf EXCEPT ![s] = "taken"]
    BY <1>0, <2>1, <2>2, NewFate
  <2>4. Pending' = Pending \cup {s}
    BY <1>0, <2>1, <2>2 DEF Pending, TypeOK
  <2>5. Cardinality(Pending) < BufSize + Cardinality(Workers)
    <3>1. IsFiniteSet(Pending)
      BY <1>0, PendingFits
    <3>2. Backpressure'
      BY PendingFits, PTL DEF Tells
    <3>3. Cardinality(Pending') = Cardinality(Pending) + 1
      BY <2>2, <2>4, <3>1, FS_AddElement
    <3>4. Cardinality(Pending) \in Nat /\ Cardinality(Workers) \in Nat /\ BufSize \in Nat
      BY <3>1, ServerAssumption, FS_CardinalityType
    <3>5. Cardinality(Busy') \in Nat /\ Cardinality(Busy') <= Cardinality(Workers)
      <4>1. IsFiniteSet(Workers) /\ Busy' \in SUBSET Workers
        BY ServerAssumption DEF Busy
      <4>. QED  BY <4>1, FS_Subset, FS_CardinalityType
    <3>. QED  BY <3>2, <3>3, <3>4, <3>5 DEF Backpressure
  <2>6. Cardinality(Promise!Taken) < BufSize + Cardinality(Workers)
    BY ONLY <2>5, TakenIsPending
  <2>7. Promise!Take(s) <=> /\ up /\ FateOf[s] = "new"
                           /\ Cardinality(Promise!Taken) < BufSize + Cardinality(Workers)
                           /\ FateOf' = [FateOf EXCEPT ![s] = "taken"]
                           /\ UNCHANGED <<reply, up>>
    <3>1. Promise!Cardinality(Promise!Taken) = Cardinality(Promise!Taken)
      BY DEF Promise!Cardinality, Cardinality
    <3>. QED  BY <3>1 DEF Promise!Take, FateOf
  <2>. QED  BY <2>1, <2>3, <2>6, <2>7
<1>2. ASSUME NEW s \in Streams, DecodeFails(s)  PROVE Promise!Fail(s)
  <2>1. /\ up /\ handler[s] = "decode" /\ handler' = [handler EXCEPT ![s] = "failed"]
        /\ UNCHANGED <<fin, reply, up>>
    BY <1>2 DEF DecodeFails, wire
  <2>2. s \notin fin
    BY <1>0, <2>1 DEF ClosedWereTaken
  <2>3. FateOf[s] = "new" /\ FateOf' = [FateOf EXCEPT ![s] = "failed"]
    BY <1>0, <2>1, <2>2, NewFate
  <2>. QED  BY <2>1, <2>3 DEF Promise!Fail, FateOf
<1>3. ASSUME NEW s \in Streams, HandleQueueFull(s)  PROVE Promise!Refuse(s)
  <2>1. /\ up /\ handler[s] = "full" /\ handler' = [handler EXCEPT ![s] = "refused"]
        /\ UNCHANGED <<fin, up>>
        /\ UNCHANGED reply \/ Encode(s, "QueueFull")
    BY <1>3 DEF HandleQueueFull
  <2>2. s \notin fin /\ reply[s] = <<>>
    BY <1>0, <2>1 DEF ClosedWereTaken, ReplyMatchesFate
  <2>3. FateOf[s] = "new" /\ FateOf' = [FateOf EXCEPT ![s] = "refused"]
    BY <1>0, <2>1, <2>2, NewFate
  <2>4. reply' \in {reply, [reply EXCEPT ![s] = <<"QueueFull">>]}
    <3>1. Append(<<>>, "QueueFull") = <<"QueueFull">>
      OBVIOUS
    <3>. QED  BY <2>1, <2>2, <3>1 DEF Encode
  <2>. QED  BY <2>1, <2>3, <2>4 DEF Promise!Refuse, FateOf
<1>4. ASSUME NEW w \in Workers, Decide(w)  PROVE Promise!Answer(job[w])
  <2>1. /\ up /\ worker[w] # "receive" /\ UNCHANGED <<fin, up, handler>>
        /\ UNCHANGED reply \/ Encode(job[w], "Response")
    BY <1>4 DEF Decide
  <2>2. FateOf' = FateOf
    BY <2>1, SameFate
  <2>3. reply' = [reply EXCEPT ![job[w]] = Append(@, "Response")]
    BY <1>a, <2>1, <2>2 DEF Encode
  <2>4. job[w] \in Streams /\ FateOf[job[w]] = "taken"
    BY <1>0, <2>1, JobInHand DEF FateOf, Fate
  <2>. QED  BY <2>1, <2>2, <2>3, <2>4 DEF Promise!Answer, FateOf
<1>5. ASSUME NEW w \in Workers, CloseStream(w)  PROVE Promise!Finish(job[w])
  <2>1. /\ up /\ worker[w] # "receive" /\ fin' = fin \cup {job[w]}
        /\ UNCHANGED <<reply, up, handler>>
    BY <1>5 DEF CloseStream
  <2>2. job[w] \in Streams /\ FateOf[job[w]] = "taken"
    BY <1>0, <2>1, JobInHand DEF FateOf, Fate
  <2>3. \A t \in Streams : Fate(t)' = IF t = job[w] THEN "done" ELSE Fate(t)
    <3>. SUFFICES ASSUME NEW t \in Streams
                  PROVE  Fate(t)' = IF t = job[w] THEN "done" ELSE Fate(t)
      OBVIOUS
    <3>1. CASE t = job[w]
      <4>1. t \in fin' /\ handler'[t] = "queued"
        BY <2>1, <3>1, JobInHand, <1>0
      <4>. QED  BY <3>1, <4>1 DEF Fate
    <3>2. CASE t # job[w]
      <4>1. (t \in fin' <=> t \in fin) /\ handler'[t] = handler[t]
        BY <2>1, <3>2
      <4>. QED  BY <3>2, <4>1 DEF Fate
    <3>. QED  BY <3>1, <3>2
  <2>4. FateOf' = [FateOf EXCEPT ![job[w]] = "done"]
    BY <2>3 DEF FateOf
  <2>. QED  BY <2>1, <2>2, <2>4 DEF Promise!Finish, FateOf
<1>6. ASSUME Shutdown \/ \E w \in Workers : DecidePanics(w)  PROVE Promise!Stop
  <2>1. up /\ ~ up' /\ UNCHANGED <<fin, reply, handler>>
    BY <1>6 DEF Shutdown, DecidePanics, internals
  <2>2. FateOf' = FateOf
    BY <2>1, SameFate
  <2>. QED  BY <1>0, <2>1, <2>2 DEF Promise!Stop, FateOf
<1>7. ASSUME NEW s \in Streams, Accept(s) \/ FindFull(s)  PROVE FALSE
  <2>1. /\ UNCHANGED <<fin, reply, up>> /\ handler[s] \in {"idle", "decode"}
        /\ handler'[s] \in {"decode", "full"}
        /\ \A t \in Streams : t # s => handler'[t] = handler[t]
    BY <1>0, <1>7 DEF Accept, FindFull, wire, TypeOK
  <2>2. FateOf' = FateOf
    BY <2>1, SameFate
  <2>. QED  BY <1>a, <2>1, <2>2
<1>8. ASSUME UNCHANGED <<fin, reply, up, handler>>  PROVE FALSE
  BY <1>8, <1>a, SameFate
<1>9. ASSUME NEW w \in Workers, Receive(w) \/ CloseFails(w)
      PROVE  UNCHANGED <<fin, reply, up, handler>>
  BY <1>9 DEF Receive, CloseFails, wire
<1>10. ASSUME NEW s \in Streams, PeerStep(s)  PROVE UNCHANGED <<fin, reply, up, handler>>
  BY <1>10 DEF PeerStep, PeerSends, PeerStops, PeerGone, internals
<1>11. ASSUME UNCHANGED vars  PROVE UNCHANGED <<fin, reply, up, handler>>
  BY <1>11 DEF vars, wire, internals
<1>12. ASSUME NEW w \in Workers, WorkerStep(w)  PROVE Promise!ANext
  <2>1. CASE Decide(w)
    BY <1>4, <2>1, <1>0, JobInHand DEF Decide, Promise!ANext
  <2>2. CASE CloseStream(w)
    BY <1>5, <2>2, <1>0, JobInHand DEF CloseStream, Promise!ANext
  <2>. QED  BY <1>6, <1>8, <1>9, <1>12, <2>1, <2>2 DEF WorkerStep, Promise!ANext
<1>. QED
  BY <1>1, <1>2, <1>3, <1>6, <1>7, <1>8, <1>10, <1>11, <1>12
     DEF Next, ServerNext, HandlerStep, Promise!ANext

(* The server implements the request/reply promise its peers rely on, with *)
(* the capacity of its queue and pool.                                     *)
THEOREM ServerImplementsRequestReply == Spec => ImplementsRequestReply
<1>1. Init => Promise!AInit
  BY DEF Init, Promise!AInit, Fate
<1>2. Spec => []Tells
  BY AlwaysBounded, RepliesMatchFates, PTL DEF Tells
<1>. QED  BY <1>1, <1>2, NextRefines, PTL DEF Spec, ImplementsRequestReply, Promise!ASpec

-----------------------------------------------------------------------------
(* One step of the server, as the other end of a stream sees it.  The      *)
(* compositions of the server with clients and proxies rest on this.       *)

(* Nothing has been said on the stream of a request that is still queued.  *)
Unheard == \A s \in Queued : reply[s] = <<>>

(* What a step may change about s, and from where.                         *)
Steps(s) ==
  /\ s \in fin => s \in fin'
  /\ reply[s] # <<>> => reply'[s] # <<>> /\ Head(reply'[s]) = Head(reply[s])
  /\ handler[s] = "idle" /\ handler'[s] # "idle" => request[s] # "none"
  /\ handler'[s] = "full" /\ handler[s] # "full" =>
       handler[s] = "decode" /\ Len(queue) >= BufSize
  /\ handler'[s] = "refused" => handler[s] \in {"full", "refused"}
  /\ s \in Queued' => reply'[s] = reply[s] /\ (s \in Queued \/ handler[s] = "decode")

LEMMA FirstStaysFirst ==
  ASSUME TypeOK, NEW s \in Streams, NEW type \in MsgTypes, reply[s] # <<>>
  PROVE  Append(reply[s], type) # <<>> /\ Head(Append(reply[s], type)) = Head(reply[s])
<1>1. reply[s] \in Seq(MsgTypes)
  BY DEF TypeOK
<1>. QED  BY <1>1

LEMMA NextSteps ==
  ASSUME Owned, ServerNext, NEW s \in Streams
  PROVE  Steps(s)
<1>0. TypeOK /\ queue \in Seq(Streams) /\ OneOwner /\ Distinct(queue)
  BY DEF Owned, Typed, TypeOK, OneOwner, Distinct
<1>1. ASSUME NEW t \in Streams, Accept(t) \/ DecodeFails(t) \/ FindFull(t)  PROVE Steps(s)
  <2>1. UNCHANGED <<reply, fin, queue>>
    BY <1>1 DEF Accept, DecodeFails, FindFull, wire
  <2>2. \/ UNCHANGED handler
        \/ /\ handler[t] = "idle" /\ request[t] # "none"
           /\ handler' = [handler EXCEPT ![t] = "decode"]
        \/ handler[t] = "decode" /\ handler' = [handler EXCEPT ![t] = "failed"]
        \/ /\ handler[t] = "decode" /\ Len(queue) >= BufSize
           /\ handler' = [handler EXCEPT ![t] = "full"]
    BY <1>1 DEF Accept, DecodeFails, FindFull
  <2>3. UNCHANGED Queued
    BY <2>1 DEF Queued
  <2>. QED  BY <1>0, <2>1, <2>2, <2>3 DEF Steps, TypeOK
<1>2. ASSUME NEW t \in Streams, Enqueue(t)  PROVE Steps(s)
  <2>1. /\ handler[t] = "decode" /\ handler' = [handler EXCEPT ![t] = "queued"]
        /\ queue' = Append(queue, t) /\ UNCHANGED <<reply, fin>>
    BY <1>2 DEF Enqueue, wire
  <2>2. Queued' = Queued \cup {t}
    BY <1>0, <2>1, AppendElems DEF Queued, Elems
  <2>. QED  BY <1>0, <2>1, <2>2 DEF Steps, TypeOK
<1>3. ASSUME NEW t \in Streams, HandleQueueFull(t)  PROVE Steps(s)
  <2>1. /\ handler[t] = "full" /\ handler' = [handler EXCEPT ![t] = "refused"]
        /\ UNCHANGED <<fin, queue>>
        /\ UNCHANGED reply \/ Encode(t, "QueueFull")
    BY <1>3 DEF HandleQueueFull
  <2>2. t \notin Queued /\ UNCHANGED Queued
    BY <1>0, <2>1 DEF OneOwner, Pending, Queued
  <2>3. /\ reply'[t] \in {reply[t], Append(reply[t], "QueueFull")}
        /\ s # t => reply'[s] = reply[s]
    BY <1>0, <2>1, EncodeAppends DEF MsgTypes
  <2>4. reply[s] # <<>> => reply'[s] # <<>> /\ Head(reply'[s]) = Head(reply[s])
    BY <1>0, <2>3, FirstStaysFirst DEF MsgTypes
  <2>. QED  BY <1>0, <2>1, <2>2, <2>3, <2>4 DEF Steps, TypeOK
<1>4. ASSUME NEW w \in Workers, Decide(w)  PROVE Steps(s)
  <2>1. /\ worker[w] # "receive" /\ UNCHANGED <<fin, queue, handler>>
        /\ UNCHANGED reply \/ Encode(job[w], "Response")
    BY <1>4 DEF Decide
  <2>2. job[w] \in Streams /\ job[w] \notin Queued /\ UNCHANGED Queued
    <3>1. job[w] \in Streams
      BY <2>1, JobInHand
    <3>2. job[w] \in InHand
      BY <3>1, ServerAssumption DEF InHand
    <3>. QED  BY <1>0, <2>1, <3>1, <3>2 DEF OneOwner, Queued
  <2>3. /\ reply'[job[w]] \in {reply[job[w]], Append(reply[job[w]], "Response")}
        /\ s # job[w] => reply'[s] = reply[s]
    BY <1>0, <2>1, <2>2, EncodeAppends DEF MsgTypes
  <2>4. reply[s] # <<>> => reply'[s] # <<>> /\ Head(reply'[s]) = Head(reply[s])
    BY <1>0, <2>3, FirstStaysFirst DEF MsgTypes
  <2>. QED  BY <1>0, <2>1, <2>2, <2>3, <2>4 DEF Steps
<1>5. ASSUME NEW w \in Workers, Receive(w)  PROVE Steps(s)
  <2>1. queue # <<>> /\ queue' = Tail(queue) /\ UNCHANGED <<reply, fin, handler>>
    BY <1>5 DEF Receive, wire
  <2>2. Queued' \subseteq Queued
    BY <1>0, <2>1, TailElems DEF Queued, Elems
  <2>. QED  BY <2>1, <2>2 DEF Steps
<1>6. ASSUME NEW w \in Workers, DecidePanics(w) \/ CloseStream(w) \/ CloseFails(w)
      PROVE  Steps(s)
  BY <1>6 DEF DecidePanics, CloseStream, CloseFails, wire, internals, Steps, Queued
<1>7. ASSUME Shutdown  PROVE Steps(s)
  BY <1>7 DEF Shutdown, internals, Steps, Queued
<1>. QED
  BY <1>1, <1>2, <1>3, <1>4, <1>5, <1>6, <1>7 DEF ServerNext, HandlerStep, WorkerStep

LEMMA NextUnheard == Owned /\ ReplyMatchesFate /\ Unheard /\ ServerNext => Unheard'
<1>. SUFFICES ASSUME Owned, ReplyMatchesFate, Unheard, ServerNext, NEW s \in Queued'
              PROVE  reply'[s] = <<>>
  BY DEF Unheard
<1>1. s \in Streams
  <2>1. Owned' /\ queue' \in Seq(Streams)
    BY NextOwned DEF Owned, Typed, TypeOK, Next
  <2>. QED  BY <2>1 DEF Queued
<1>. QED  BY <1>1, NextSteps DEF Steps, Unheard, ReplyMatchesFate

(* The queue is no longer than any finite set its requests belong to.      *)
LEMMA QueueFits ==
  ASSUME Owned, NEW S, IsFiniteSet(S), Queued \subseteq S
  PROVE  Len(queue) <= Cardinality(S)
<1>1. queue \in Seq(Streams) /\ Len(queue) \in Nat /\ Distinct(queue)
  BY LenProperties DEF Owned, Typed, TypeOK, OneOwner, Distinct
<1>2. queue \in Injection(1..Len(queue), S)
  <2>1. queue \in [1..Len(queue) -> S]
    BY <1>1, LenProperties DEF Queued
  <2>. QED  BY <1>1, <2>1 DEF Distinct, Injection, IsInjective
<1>3. Cardinality(1..Len(queue)) = Len(queue)
  <2>1. 1 \in Int /\ Len(queue) \in Int
    BY <1>1
  <2>2. Cardinality(1..Len(queue)) = IF 1 > Len(queue) THEN 0 ELSE Len(queue) - 1 + 1
    BY ONLY <2>1, FS_Interval
  <2>. QED  BY <1>1, <2>2
<1>. QED  BY <1>2, <1>3, FS_Injection

(* With a ForwardDecision that asks for one round, as ReplyDecision of the *)
(* server application does, a stream carries one message at most.          *)
OneRound ==
  /\ \A w \in Workers : worker[w] = "decide" => attempt[w] = 0 /\ reply[job[w]] = <<>>
  /\ \A s \in Streams : Len(reply[s]) <= 1

LEMMA NextOneRound ==
  ASSUME Rounds = {1}, Owned, ReplyMatchesFate, Unheard, OneRound, ServerNext
  PROVE  OneRound'
<1>0. TypeOK /\ queue \in Seq(Streams) /\ OneOwner /\ Distinct(queue)
  BY DEF Owned, Typed, TypeOK, OneOwner, Distinct
<1>e. /\ Len(<<>>) = 0
      /\ \A type \in MsgTypes : Append(<<>>, type) = <<type>>
  OBVIOUS
<1>1. ASSUME NEW w \in Workers, Receive(w)  PROVE OneRound'
  <2>1. /\ queue # <<>> /\ job' = [job EXCEPT ![w] = Head(queue)]
        /\ attempt' = [attempt EXCEPT ![w] = 0]
        /\ worker' = [worker EXCEPT ![w] = "decide"] /\ UNCHANGED reply
    BY <1>1 DEF Receive, wire
  <2>2. reply[Head(queue)] = <<>>
    BY <1>0, <2>1, TailElems DEF Unheard, Queued, Elems
  <2>. QED  BY <1>0, <2>1, <2>2 DEF OneRound, TypeOK
<1>2. ASSUME NEW w \in Workers, Decide(w)  PROVE OneRound'
  <2>1. /\ worker[w] = "decide" /\ UNCHANGED job
        /\ attempt' = [attempt EXCEPT ![w] = @ + 1]
        /\ UNCHANGED reply \/ Encode(job[w], "Response")
    BY <1>2 DEF Decide
  <2>2. attempt[w] = 0 /\ attempt'[w] = 1 /\ reply[job[w]] = <<>>
    BY <1>0, <2>1 DEF OneRound, TypeOK
  <2>3. worker' = [worker EXCEPT ![w] = "close"]
    BY <1>2, <2>2 DEF Decide
  <2>4. /\ job[w] \in Streams
        /\ \A v \in Workers : v # w /\ worker[v] = "decide" =>
             job[v] \in Streams /\ job[v] # job[w]
    BY <1>0, <2>1, JobInHand, ServerAssumption DEF OneOwner
  <2>5. /\ reply'[job[w]] \in {reply[job[w]], Append(reply[job[w]], "Response")}
        /\ \A s \in Streams : s # job[w] => reply'[s] = reply[s]
    BY <1>0, <2>1, <2>4, EncodeAppends DEF MsgTypes
  <2>6. Len(reply'[job[w]]) <= 1
    <3>1. reply'[job[w]] = <<>> \/ reply'[job[w]] = <<"Response">>
      BY <1>e, <2>2, <2>5 DEF MsgTypes
    <3>2. CASE reply'[job[w]] = <<>>
      BY <1>e, <3>2
    <3>3. CASE reply'[job[w]] = <<"Response">>
      BY <3>3
    <3>. QED  BY <3>1, <3>2, <3>3
  <2>7. \A v \in Workers : worker'[v] = "decide" =>
          v # w /\ worker[v] = "decide" /\ attempt'[v] = attempt[v]
    BY <1>0, <2>1, <2>3 DEF TypeOK
  <2>. QED  BY <2>1, <2>4, <2>5, <2>6, <2>7 DEF OneRound
<1>3. ASSUME NEW t \in Streams, HandleQueueFull(t)  PROVE OneRound'
  <2>1. /\ handler[t] = "full" /\ UNCHANGED <<worker, job, attempt>>
        /\ UNCHANGED reply \/ Encode(t, "QueueFull")
    BY <1>3 DEF HandleQueueFull
  <2>2. reply[t] = <<>>
    BY <2>1 DEF ReplyMatchesFate
  <2>3. \A v \in Workers : worker[v] = "decide" => job[v] \in Streams /\ job[v] # t
    BY <2>1, JobInHand
  <2>4. /\ reply'[t] \in {reply[t], Append(reply[t], "QueueFull")}
        /\ \A s \in Streams : s # t => reply'[s] = reply[s]
    BY <1>0, <2>1, EncodeAppends DEF MsgTypes
  <2>5. Len(reply'[t]) <= 1
    <3>1. reply'[t] = <<>> \/ reply'[t] = <<"QueueFull">>
      BY <1>e, <2>2, <2>4 DEF MsgTypes
    <3>2. CASE reply'[t] = <<>>
      BY <1>e, <3>2
    <3>3. CASE reply'[t] = <<"QueueFull">>
      BY <3>3
    <3>. QED  BY <3>1, <3>2, <3>3
  <2>. QED  BY <2>1, <2>3, <2>4, <2>5 DEF OneRound
<1>4. ASSUME NEW t \in Streams, Accept(t) \/ DecodeFails(t) \/ Enqueue(t) \/ FindFull(t)
      PROVE  OneRound'
  BY <1>4 DEF Accept, DecodeFails, Enqueue, FindFull, wire, OneRound
<1>5. ASSUME NEW w \in Workers, CloseStream(w) \/ CloseFails(w)  PROVE OneRound'
  <2>1. /\ UNCHANGED <<reply, attempt>>
        /\ \A v \in Workers : worker'[v] = "decide" => worker[v] = "decide" /\ job'[v] = job[v]
    BY <1>0, <1>5 DEF CloseStream, CloseFails, wire, TypeOK
  <2>. QED  BY <2>1 DEF OneRound
<1>6. ASSUME (\E w \in Workers : DecidePanics(w)) \/ Shutdown  PROVE OneRound'
  BY <1>6 DEF DecidePanics, Shutdown, internals, OneRound
<1>. QED
  BY <1>1, <1>2, <1>3, <1>4, <1>5, <1>6 DEF ServerNext, HandlerStep, WorkerStep

(* Unless ForwardDecision suppresses messages, a peer that reads is told   *)
(* something before its stream is closed.                                  *)
ToldFirst ==
  /\ \A w \in Workers :
       worker[w] = "close" /\ peer[job[w]] = "reading" => reply[job[w]] # <<>>
  /\ \A s \in fin : peer[s] = "reading" => reply[s] # <<>>

LEMMA NextToldFirst ==
  ASSUME ~ Suppresses, Owned, ToldFirst, ServerNext
  PROVE  ToldFirst'
<1>0. TypeOK /\ fin \subseteq Streams /\ UNCHANGED peer
  BY DEF Owned, Typed, TypeOK, ServerNext, HandlerStep, WorkerStep, Shutdown, Accept,
         DecodeFails, Enqueue, FindFull, HandleQueueFull, Receive, Decide, DecidePanics,
         CloseStream, CloseFails, wire
<1>1. \A s \in Streams : reply[s] # <<>> => reply'[s] # <<>>
  BY NextSteps DEF Steps
<1>2. \A v \in Workers : worker[v] = "close" => job[v] \in Streams
  BY JobInHand
<1>3. ASSUME NEW w \in Workers, Decide(w)  PROVE ToldFirst'
  <2>1. /\ worker[w] = "decide" /\ UNCHANGED <<job, fin>> /\ Encode(job[w], "Response")
        /\ \A v \in Workers : v # w => worker'[v] = worker[v]
    BY <1>0, <1>3 DEF Decide, TypeOK
  <2>2. job[w] \in Streams
    BY <2>1, JobInHand
  <2>3. peer[job[w]] = "reading" => reply'[job[w]] # <<>>
    <3>1. reply[job[w]] \in Seq(MsgTypes)
      BY <1>0, <2>2 DEF TypeOK
    <3>2. Append(reply[job[w]], "Response") # <<>>
      BY <3>1, AppendProperties DEF MsgTypes
    <3>. QED  BY <1>0, <2>1, <2>2, <3>2 DEF Encode, TypeOK
  <2>. QED  BY <1>0, <1>1, <1>2, <2>1, <2>3 DEF ToldFirst
<1>4. ASSUME NEW w \in Workers, CloseStream(w)  PROVE ToldFirst'
  <2>1. /\ worker[w] = "close" /\ UNCHANGED reply /\ fin' = fin \cup {job[w]}
        /\ \A v \in Workers : v # w => job'[v] = job[v] /\ worker'[v] = worker[v]
        /\ worker'[w] = "receive"
    BY <1>0, <1>4 DEF CloseStream, TypeOK
  <2>. QED  BY <1>0, <2>1 DEF ToldFirst
<1>5. ASSUME NEW w \in Workers, Receive(w) \/ CloseFails(w)  PROVE ToldFirst'
  <2>1. /\ UNCHANGED <<fin, reply>>
        /\ \A v \in Workers : worker'[v] = "close" => worker[v] = "close" /\ job'[v] = job[v]
    BY <1>0, <1>5 DEF Receive, CloseFails, wire, TypeOK
  <2>. QED  BY <1>0, <2>1 DEF ToldFirst
<1>6. ASSUME UNCHANGED <<worker, job, fin>>  PROVE ToldFirst'
  BY <1>0, <1>1, <1>2, <1>6 DEF ToldFirst
<1>7. ASSUME NEW s \in Streams, HandlerStep(s)  PROVE ToldFirst'
  BY <1>6, <1>7 DEF HandlerStep, Accept, DecodeFails, Enqueue, FindFull, HandleQueueFull, wire
<1>8. ASSUME (\E w \in Workers : DecidePanics(w)) \/ Shutdown  PROVE ToldFirst'
  BY <1>6, <1>8 DEF DecidePanics, Shutdown, internals
<1>. QED  BY <1>3, <1>4, <1>5, <1>7, <1>8 DEF ServerNext, WorkerStep
=============================================================================
