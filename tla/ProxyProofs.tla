---------------------------- MODULE ProxyProofs ----------------------------
(***************************************************************************)
(* Theorems about Proxy, for every finite set of client connections and    *)
(* streams, every set of servers, every limit and every choice of faults.  *)
(***************************************************************************)
EXTENDS Proxy, Counting, SequenceTheorems

-----------------------------------------------------------------------------
(* Types *)

Labels == {"idle", "decode", "open", "send", "release", "acquire",
           "await", "deliver", "reply", "done"}

(* TypeOK is not inductive by itself: what newRequest encodes at the end   *)
(* must be known by then.                                                  *)
Known == \A s \in Streams : pc[s] \in {"deliver", "reply"} => result[s] # "none"

Typed == TypeOK /\ Known

LEMMA InitTyped == Init => Typed
BY ProxyAssumption, EmptySeq DEF Init, Typed, TypeOK, Known

LEMMA LeakTyped ==
  ASSUME leak \in [up : Nat, dn : Nat], LeakUp \/ LeakDn
  PROVE  leak' \in [up : Nat, dn : Nat]
BY DEF LeakUp, LeakDn, Put

LEMMA PutTyped == \A n \in Nat : Put(n) \in Nat
BY DEF Put

(* Every step preserves the types; a token is only taken from a channel    *)
(* that has one.                                                           *)
LEMMA NextTyped == Typed /\ [Next]_vars => Typed'
<1>. SUFFICES ASSUME Typed, [Next]_vars  PROVE Typed'
  OBVIOUS
<1>. USE DEF Typed, TypeOK, Known, down, upward, tokens, Results
<1>1. ASSUME NEW c \in Conns, newClient(c)  PROVE Typed'
  <2>1. CASE AcquireUp(c)
    BY <2>1, PutTyped DEF AcquireUp
  <2>2. CASE AcceptFails(c)
    BY <2>2, LeakTyped DEF AcceptFails
  <2>3. CASE \E s \in Streams : AcceptStream(c, s)
    BY <2>3 DEF AcceptStream
  <2>. QED  BY <1>1, <2>1, <2>2, <2>3 DEF newClient
<1>2. ASSUME NEW s \in Streams, newRequest(s)  PROVE Typed'
  <2>1. CASE DecodeFails(s)
    BY <2>1, LeakTyped DEF DecodeFails
  <2>2. CASE NoRoute(s)
    BY <2>2, LeakTyped DEF NoRoute
  <2>3. CASE \E d \in Servers : Route(s, d)
    BY <2>3 DEF Route
  <2>4. CASE OpenStream(s)
    BY <2>4 DEF OpenStream
  <2>5. CASE OpenFails(s)
    BY <2>5, LeakTyped DEF OpenFails
  <2>6. CASE Send(s)
    <3>. pc' = [pc EXCEPT ![s] = "release"]
         /\ UNCHANGED <<down, upReply, upFin, upLink, up, accept, dest, tokens>>
      BY <2>6 DEF Send
    <3>1. CASE upRequest' = [upRequest EXCEPT ![s] = "sent"] /\ UNCHANGED result
      BY <3>1
    <3>2. CASE result' = [result EXCEPT ![s] = "ServerNotFound"] /\ UNCHANGED upRequest
      BY <3>2
    <3>. QED  BY <2>6, <3>1, <3>2 DEF Send
  <2>7. CASE ReleaseUp(s)
    BY <2>7, ProxyAssumption DEF ReleaseUp, TakeToken, Taken, Limited
  <2>8. CASE AcquireDn(s)
    <3>1. /\ dnTokens' \in Nat /\ pc' = [pc EXCEPT ![s] = "await"]
          /\ UNCHANGED <<down, upward, up, accept, dest, result, upTokens, leak>>
      BY <2>8, PutTyped DEF AcquireDn
    <3>. QED  BY <3>1
  <2>9. CASE ReceiveReply(s)
    <3>1. Head(upReply[s]) \in {"Response", "QueueFull"}
      BY <2>9, HeadTailProperties DEF ReceiveReply
    <3>. QED  BY <2>9, <3>1 DEF ReceiveReply
  <2>10. CASE AwaitFails(s)
    BY <2>10, LeakTyped DEF AwaitFails
  <2>11. CASE ReleaseDn(s)
    BY <2>11, ProxyAssumption DEF ReleaseDn, TakeToken, Taken, Limited
  <2>12. CASE Reply(s)
    <3>1. Append(reply[s], result[s]) \in Seq(Results)
      BY <2>12, AppendProperties DEF Reply
    <3>. QED  BY <2>12, <3>1 DEF Reply
  <2>. QED
    BY <1>2, <2>1, <2>2, <2>3, <2>4, <2>5, <2>6, <2>7, <2>8, <2>9, <2>10, <2>11, <2>12
       DEF newRequest
<1>3. ASSUME Shutdown  PROVE Typed'
  BY <1>3 DEF Shutdown
<1>4. ASSUME NEW s \in Streams, ClientSends(s)  PROVE Typed'
  <2>1. ASSUME NEW what \in {"sent", "garbled"}, request' = [request EXCEPT ![s] = what],
               UNCHANGED <<reply, fin, link, upward, up, accept, pc, dest, result, tokens>>
        PROVE  Typed'
    BY <2>1
  <2>. QED  BY <1>4, <2>1 DEF ClientSends
<1>5. ASSUME NEW s \in Streams, ServerStep(s)  PROVE Typed'
  <2>1. ASSUME NEW type \in {"Response", "QueueFull"}, ServerSays(s, type)  PROVE Typed'
    <3>1. Append(upReply[s], type) \in Seq({"Response", "QueueFull"})
      BY AppendProperties
    <3>. QED  BY <2>1, <3>1 DEF ServerSays
  <2>2. CASE ServerCloses(s)
    BY <2>2 DEF ServerCloses
  <2>. QED  BY <1>5, <2>1, <2>2 DEF ServerStep, ServerAnswers, ServerRefuses
<1>6. ASSUME NEW c \in Conns, ClientLost(c)  PROVE Typed'
  BY <1>6 DEF ClientLost
<1>7. ASSUME NEW d \in Servers, ServerLost(d)  PROVE Typed'
  BY <1>7 DEF ServerLost
<1>8. ASSUME UNCHANGED vars  PROVE Typed'
  BY <1>8 DEF vars
<1>. QED
  BY <1>1, <1>2, <1>3, <1>4, <1>5, <1>6, <1>7, <1>8 DEF Next, ProxyNext, Environment

LEMMA AlwaysTyped == Spec => []Typed
BY InitTyped, NextTyped, PTL DEF Spec

(* The state of the proxy has the types Proxy gives it, after any sequence *)
(* of accepts, requests, answers, losses and signals (proxy.go:127-280).   *)
THEOREM TypeCorrect == Spec => []TypeOK
<1>1. Typed => TypeOK
  BY DEF Typed
<1>. QED  BY <1>1, AlwaysTyped, PTL

-----------------------------------------------------------------------------
(* Tokens.  The inductive invariant: no channel is over its capacity, and  *)
(* every element of one has a holder or was leaked.                        *)

Bounded == Limited => upTokens <= ParallelConn /\ dnTokens <= ParallelConn

Accounted == Typed /\ Bounded /\ TokensAccounted

Upward == {"decode", "open", "send", "release"}
Downward == {"await", "deliver"}

LEMMA HoldersFinite ==
  /\ IsFiniteSet(Accepting) /\ Cardinality(Accepting) \in Nat
  /\ IsFiniteSet(Forwarding) /\ Cardinality(Forwarding) \in Nat
  /\ IsFiniteSet(Awaiting) /\ Cardinality(Awaiting) \in Nat
<1>1. Accepting \in SUBSET Conns /\ Forwarding \in SUBSET Streams /\ Awaiting \in SUBSET Streams
  BY DEF Accepting, Forwarding, Awaiting, At
<1>. QED  BY <1>1, ProxyAssumption, FS_Subset, FS_CardinalityType

Moves(s, label) == pc' = [pc EXCEPT ![s] = label]
Listens(c, label) == accept' = [accept EXCEPT ![c] = label]

(* A request that moves from one label to another enters or leaves the     *)
(* sets of holders accordingly.                                            *)
LEMMA RequestMoves ==
  ASSUME TypeOK, NEW s \in Streams, NEW label, Moves(s, label)
  PROVE  /\ Cardinality(Forwarding') = Cardinality(Forwarding)
              + (IF label \in Upward THEN 1 ELSE 0) - (IF pc[s] \in Upward THEN 1 ELSE 0)
         /\ Cardinality(Awaiting') = Cardinality(Awaiting)
              + (IF label \in Downward THEN 1 ELSE 0) - (IF pc[s] \in Downward THEN 1 ELSE 0)
<1>1. /\ Forwarding' = IF label \in Upward THEN Forwarding \cup {s} ELSE Forwarding \ {s}
      /\ s \in Forwarding <=> pc[s] \in Upward
  BY DEF Moves, TypeOK, Forwarding, At, Upward
<1>2. /\ Awaiting' = IF label \in Downward THEN Awaiting \cup {s} ELSE Awaiting \ {s}
      /\ s \in Awaiting <=> pc[s] \in Downward
  BY DEF Moves, TypeOK, Awaiting, At, Downward
<1>3. /\ Cardinality(Forwarding \cup {s}) = Cardinality(Forwarding) + (IF s \in Forwarding THEN 0 ELSE 1)
      /\ Cardinality(Forwarding \ {s}) = Cardinality(Forwarding) - (IF s \in Forwarding THEN 1 ELSE 0)
  BY HoldersFinite, Count
<1>4. /\ Cardinality(Awaiting \cup {s}) = Cardinality(Awaiting) + (IF s \in Awaiting THEN 0 ELSE 1)
      /\ Cardinality(Awaiting \ {s}) = Cardinality(Awaiting) - (IF s \in Awaiting THEN 1 ELSE 0)
  BY HoldersFinite, Count
<1>5. Cardinality(Forwarding) \in Nat /\ Cardinality(Awaiting) \in Nat
  BY HoldersFinite
<1>. QED  BY <1>1, <1>2, <1>3, <1>4, <1>5

(* A newClient that moves starts or stops to hold a token.                 *)
LEMMA ListenerMoves ==
  ASSUME TypeOK, NEW c \in Conns, NEW label, Listens(c, label)
  PROVE  Cardinality(Accepting') = Cardinality(Accepting)
           + (IF label = "accept" THEN 1 ELSE 0) - (IF accept[c] = "accept" THEN 1 ELSE 0)
<1>1. /\ Accepting' = IF label = "accept" THEN Accepting \cup {c} ELSE Accepting \ {c}
      /\ c \in Accepting <=> accept[c] = "accept"
  BY DEF Listens, TypeOK, Accepting
<1>2. /\ Cardinality(Accepting \cup {c}) = Cardinality(Accepting) + (IF c \in Accepting THEN 0 ELSE 1)
      /\ Cardinality(Accepting \ {c}) = Cardinality(Accepting) - (IF c \in Accepting THEN 1 ELSE 0)
      /\ Cardinality(Accepting) \in Nat
  BY HoldersFinite, Count
<1>. QED  BY <1>1, <1>2

LEMMA NobodyMoves ==
  /\ UNCHANGED pc => UNCHANGED <<Forwarding, Awaiting>>
  /\ UNCHANGED accept => UNCHANGED Accepting
BY DEF Forwarding, Awaiting, At, Accepting

(* Clients, servers and the end of the process leave the goroutines where  *)
(* they are.                                                               *)
LEMMA OthersHoldNothing ==
  Shutdown \/ Environment \/ UNCHANGED vars => UNCHANGED <<accept, pc, dest, result, tokens>>
<1>1. Shutdown \/ UNCHANGED vars => UNCHANGED <<accept, pc, dest, result, tokens>>
  BY DEF Shutdown, vars
<1>2. ASSUME NEW s \in Streams, ClientSends(s) \/ ServerStep(s)
      PROVE  UNCHANGED <<accept, pc, dest, result, tokens>>
  BY <1>2 DEF ClientSends, ServerStep, ServerAnswers, ServerRefuses, ServerCloses, ServerSays
<1>3. ASSUME NEW c \in Conns, ClientLost(c)
      PROVE  UNCHANGED <<accept, pc, dest, result, tokens>>
  BY <1>3 DEF ClientLost
<1>4. ASSUME NEW d \in Servers, ServerLost(d)
      PROVE  UNCHANGED <<accept, pc, dest, result, tokens>>
  BY <1>4 DEF ServerLost
<1>. QED  BY <1>1, <1>2, <1>3, <1>4 DEF Environment

LEMMA InitAccounted == Init => Accounted
<1>. SUFFICES ASSUME Init  PROVE Accounted
  OBVIOUS
<1>1. Accepting = {} /\ Forwarding = {} /\ Awaiting = {}
  BY DEF Init, Accepting, Forwarding, Awaiting, At
<1>2. Cardinality({}) = 0
  BY FS_EmptySet
<1>. QED
  BY <1>1, <1>2, InitTyped, ProxyAssumption DEF Init, Accounted, Bounded, TokensAccounted

(* Every step puts in, takes out, hands over or leaks what the sets of     *)
(* holders say.                                                            *)
LEMMA NextAccounted == Accounted /\ [Next]_vars => Accounted'
<1>. SUFFICES ASSUME Accounted, [Next]_vars  PROVE (Bounded /\ TokensAccounted)'
  BY NextTyped DEF Accounted
<1>. TypeOK /\ Bounded /\ TokensAccounted
  BY DEF Accounted, Typed
<1>. upTokens \in Nat /\ dnTokens \in Nat /\ ParallelConn \in Nat
     /\ leak \in [up : Nat, dn : Nat]
  BY ProxyAssumption DEF TypeOK
<1>1. ASSUME NEW c \in Conns, newClient(c)  PROVE (Bounded /\ TokensAccounted)'
  <2>1. CASE AcquireUp(c)
    <3>1. accept[c] = "token" /\ Listens(c, "accept") /\ UNCHANGED pc
      BY <2>1 DEF AcquireUp, Listens
    <3>2. Cardinality(Accepting') = Cardinality(Accepting) + 1 /\ UNCHANGED <<Forwarding, Awaiting>>
      BY <3>1, ListenerMoves, NobodyMoves, HoldersFinite
    <3>. QED  BY <2>1, <3>2, HoldersFinite DEF AcquireUp, PutToken, Put, Bounded, TokensAccounted, Limited
  <2>2. CASE AcceptFails(c)
    <3>1. accept[c] = "accept" /\ Listens(c, "ended") /\ UNCHANGED pc
      BY <2>2 DEF AcceptFails, Listens
    <3>2. Cardinality(Accepting') = Cardinality(Accepting) - 1 /\ UNCHANGED <<Forwarding, Awaiting>>
      BY <3>1, ListenerMoves, NobodyMoves, HoldersFinite
    <3>. QED  BY <2>2, <3>2, HoldersFinite DEF AcceptFails, LeakUp, Put, Bounded, TokensAccounted, Limited
  <2>3. ASSUME NEW s \in Streams, AcceptStream(c, s)  PROVE (Bounded /\ TokensAccounted)'
    <3>1. accept[c] = "accept" /\ Listens(c, "token") /\ pc[s] = "idle" /\ Moves(s, "decode")
      BY <2>3 DEF AcceptStream, Listens, Moves
    <3>2. /\ Cardinality(Accepting') = Cardinality(Accepting) - 1
          /\ Cardinality(Forwarding') = Cardinality(Forwarding) + 1
          /\ Cardinality(Awaiting') = Cardinality(Awaiting)
      BY <3>1, ListenerMoves, RequestMoves, HoldersFinite DEF Upward, Downward
    <3>. QED  BY <2>3, <3>2, HoldersFinite DEF AcceptStream, tokens, Bounded, TokensAccounted, Limited
  <2>. QED  BY <1>1, <2>1, <2>2, <2>3 DEF newClient
<1>2. ASSUME NEW s \in Streams, newRequest(s)  PROVE (Bounded /\ TokensAccounted)'
  <2>1. CASE DecodeFails(s)
    <3>1. pc[s] = "decode" /\ Moves(s, "done") /\ UNCHANGED accept
      BY <2>1 DEF DecodeFails, Moves
    <3>2. /\ Cardinality(Forwarding') = Cardinality(Forwarding) - 1
          /\ Cardinality(Awaiting') = Cardinality(Awaiting)
          /\ UNCHANGED Accepting
      BY <3>1, RequestMoves, NobodyMoves, HoldersFinite DEF Upward, Downward
    <3>. QED
      BY <2>1, <3>2, HoldersFinite DEF DecodeFails, LeakUp, Put, Bounded, TokensAccounted, Limited
  <2>2. CASE NoRoute(s)
    <3>1. pc[s] = "decode" /\ Moves(s, "reply") /\ UNCHANGED accept
      BY <2>2 DEF NoRoute, Moves
    <3>2. /\ Cardinality(Forwarding') = Cardinality(Forwarding) - 1
          /\ Cardinality(Awaiting') = Cardinality(Awaiting)
          /\ UNCHANGED Accepting
      BY <3>1, RequestMoves, NobodyMoves, HoldersFinite DEF Upward, Downward
    <3>. QED
      BY <2>2, <3>2, HoldersFinite DEF NoRoute, LeakUp, Put, Bounded, TokensAccounted, Limited
  <2>3. CASE OpenFails(s)
    <3>1. pc[s] = "open" /\ Moves(s, "reply") /\ UNCHANGED accept
      BY <2>3 DEF OpenFails, Moves
    <3>2. /\ Cardinality(Forwarding') = Cardinality(Forwarding) - 1
          /\ Cardinality(Awaiting') = Cardinality(Awaiting)
          /\ UNCHANGED Accepting
      BY <3>1, RequestMoves, NobodyMoves, HoldersFinite DEF Upward, Downward
    <3>. QED
      BY <2>3, <3>2, HoldersFinite DEF OpenFails, LeakUp, Put, Bounded, TokensAccounted, Limited
  <2>4. CASE ReleaseUp(s)
    <3>. DEFINE next == IF result[s] = "none" THEN "acquire" ELSE "reply"
    <3>1. pc[s] = "release" /\ Moves(s, next) /\ UNCHANGED accept
      BY <2>4 DEF ReleaseUp, Moves
    <3>2. /\ Cardinality(Forwarding') = Cardinality(Forwarding) - 1
          /\ Cardinality(Awaiting') = Cardinality(Awaiting)
          /\ UNCHANGED Accepting
      BY <3>1, RequestMoves, NobodyMoves, HoldersFinite DEF Upward, Downward
    <3>. QED
      BY <2>4, <3>2, HoldersFinite DEF ReleaseUp, TakeToken, Taken, Bounded, TokensAccounted, Limited
  <2>5. CASE AcquireDn(s)
    <3>1. pc[s] = "acquire" /\ Moves(s, "await") /\ UNCHANGED accept
      BY <2>5 DEF AcquireDn, Moves
    <3>2. /\ Cardinality(Forwarding') = Cardinality(Forwarding)
          /\ Cardinality(Awaiting') = Cardinality(Awaiting) + 1
          /\ UNCHANGED Accepting
      BY <3>1, RequestMoves, NobodyMoves, HoldersFinite DEF Upward, Downward
    <3>. QED
      BY <2>5, <3>2, HoldersFinite DEF AcquireDn, PutToken, Put, Bounded, TokensAccounted, Limited
  <2>6. CASE AwaitFails(s)
    <3>1. pc[s] = "await" /\ Moves(s, "reply") /\ UNCHANGED accept
      BY <2>6 DEF AwaitFails, Moves
    <3>2. /\ Cardinality(Forwarding') = Cardinality(Forwarding)
          /\ Cardinality(Awaiting') = Cardinality(Awaiting) - 1
          /\ UNCHANGED Accepting
      BY <3>1, RequestMoves, NobodyMoves, HoldersFinite DEF Upward, Downward
    <3>. QED
      BY <2>6, <3>2, HoldersFinite DEF AwaitFails, LeakDn, Put, Bounded, TokensAccounted, Limited
  <2>7. CASE ReleaseDn(s)
    <3>1. pc[s] = "deliver" /\ Moves(s, "reply") /\ UNCHANGED accept
      BY <2>7 DEF ReleaseDn, Moves
    <3>2. /\ Cardinality(Forwarding') = Cardinality(Forwarding)
          /\ Cardinality(Awaiting') = Cardinality(Awaiting) - 1
          /\ UNCHANGED Accepting
      BY <3>1, RequestMoves, NobodyMoves, HoldersFinite DEF Upward, Downward
    <3>. QED
      BY <2>7, <3>2, HoldersFinite DEF ReleaseDn, TakeToken, Taken, Bounded, TokensAccounted, Limited
  <2>8. CASE (\E d \in Servers : Route(s, d)) \/ OpenStream(s) \/ Send(s) \/ ReceiveReply(s) \/ Reply(s)
    <3>1. /\ \/ pc[s] = "decode" /\ Moves(s, "open")
             \/ pc[s] = "open" /\ Moves(s, "send")
             \/ pc[s] = "send" /\ Moves(s, "release")
             \/ pc[s] = "await" /\ Moves(s, "deliver")
             \/ pc[s] = "reply" /\ Moves(s, "done")
          /\ UNCHANGED <<accept, tokens>>
      BY <2>8 DEF Route, OpenStream, Send, ReceiveReply, Reply, Moves
    <3>2. /\ Cardinality(Forwarding') = Cardinality(Forwarding)
          /\ Cardinality(Awaiting') = Cardinality(Awaiting)
          /\ UNCHANGED Accepting
      BY <3>1, RequestMoves, NobodyMoves, HoldersFinite DEF Upward, Downward
    <3>. QED  BY <3>1, <3>2 DEF tokens, Bounded, TokensAccounted
  <2>. QED
    BY <1>2, <2>1, <2>2, <2>3, <2>4, <2>5, <2>6, <2>7, <2>8 DEF newRequest
<1>3. ASSUME UNCHANGED <<accept, pc, tokens>>  PROVE (Bounded /\ TokensAccounted)'
  BY <1>3, NobodyMoves DEF tokens, Bounded, TokensAccounted
<1>4. ASSUME Shutdown \/ Environment \/ UNCHANGED vars  PROVE UNCHANGED <<accept, pc, tokens>>
  BY <1>4, OthersHoldNothing
<1>. QED  BY <1>1, <1>2, <1>3, <1>4 DEF Next, ProxyNext

LEMMA AlwaysAccounted == Spec => []Accounted
BY InitAccounted, NextAccounted, PTL DEF Spec

(* No goroutine takes a token that another one still counts on: whatever   *)
(* is in the two channels is held or leaked (proxy.go:137, :246, :256,     *)
(* :277).                                                                  *)
THEOREM TokensAlwaysAccounted == Spec => []TokensAccounted
<1>1. Accounted => TokensAccounted
  BY DEF Accounted
<1>. QED  BY <1>1, AlwaysAccounted, PTL

(* A goroutine about to give a token back is one of the holders counted,   *)
(* so the channel is not empty and the receive does not block.             *)
THEOREM NeverStuckGivingBack == Spec => []GivingBackNeverBlocks
<1>1. Accounted => GivingBackNeverBlocks
  <2>. SUFFICES ASSUME Accounted  PROVE GivingBackNeverBlocks
    OBVIOUS
  <2>2. /\ At({"release"}) \subseteq Forwarding
        /\ At({"deliver"}) \subseteq Awaiting
    BY DEF At, Forwarding, Awaiting
  <2>3. leak.up \in Nat /\ leak.dn \in Nat
    BY DEF Accounted, Typed, TypeOK
  <2>4. ASSUME NEW s \in At({"release"})  PROVE TakeToken(upTokens)
    <3>1. Cardinality(Forwarding) > 0
      BY <2>2, HoldersFinite, Inhabited
    <3>2. Limited => upTokens = Cardinality(Accepting) + Cardinality(Forwarding) + leak.up
      BY DEF Accounted, TokensAccounted
    <3>. QED  BY <2>3, <3>1, <3>2, HoldersFinite DEF TakeToken
  <2>5. ASSUME NEW s \in At({"deliver"})  PROVE TakeToken(dnTokens)
    <3>1. Cardinality(Awaiting) > 0
      BY <2>2, HoldersFinite, Inhabited
    <3>2. Limited => dnTokens = Cardinality(Awaiting) + leak.dn
      BY DEF Accounted, TokensAccounted
    <3>. QED  BY <2>3, <3>1, <3>2, HoldersFinite DEF TakeToken
  <2>. QED  BY <2>4, <2>5 DEF GivingBackNeverBlocks
<1>. QED  BY <1>1, AlwaysAccounted, PTL

(* The limit limits: what is between the accept and the server, and what   *)
(* waits for an answer, holds a token each, and a channel holds no more    *)
(* than ParallelConn of them.                                              *)
THEOREM PhasesAlwaysBounded == Spec => []PhasesBounded
<1>1. Accounted => PhasesBounded
  <2>. SUFFICES ASSUME Accounted, Limited  PROVE PhasesBounded
    BY DEF PhasesBounded
  <2>1. /\ upTokens = Cardinality(Accepting) + Cardinality(Forwarding) + leak.up
        /\ dnTokens = Cardinality(Awaiting) + leak.dn
        /\ upTokens <= ParallelConn /\ dnTokens <= ParallelConn
        /\ leak.up \in Nat /\ leak.dn \in Nat
    BY DEF Accounted, Typed, TypeOK, TokensAccounted, Bounded
  <2>. QED  BY <2>1, HoldersFinite, ProxyAssumption DEF PhasesBounded
<1>. QED  BY <1>1, AlwaysAccounted, PTL

-----------------------------------------------------------------------------
(* Answers.  The inductive invariant follows each request through          *)
(* newRequest and forwardRequest: what is known at each place of what was  *)
(* sent to the server, what came back, and what is going to be said.       *)

(* The message that explains what happened to s.                           *)
Explained(s) ==
  /\ result[s] \in {"Response", "QueueFull"} =>
       upRequest[s] = "sent" /\ upReply[s] # <<>> /\ Head(upReply[s]) = result[s]
  /\ result[s] \in {"NoRoute", "ServerNotFound"} => upRequest[s] = "none"
  /\ result[s] = "ServerTimeout" => upRequest[s] = "sent"

Progressed(s) ==
  /\ pc[s] \in {"idle", "decode"} => dest[s] = NoServer
  /\ pc[s] \in {"open", "send", "release", "acquire", "await"} => dest[s] \in Servers
  /\ pc[s] \in {"idle", "decode", "open", "send"} =>
       result[s] = "none" /\ upRequest[s] = "none"
  /\ pc[s] \in {"acquire", "await"} => result[s] = "none" /\ upRequest[s] = "sent"
  /\ pc[s] = "release" /\ result[s] = "none" => upRequest[s] = "sent"

Relayed(s) ==
  /\ pc[s] # "done" => reply[s] = <<>>
  /\ reply[s] \in {<<>>, <<result[s]>>}
  /\ s \in fin <=> pc[s] = "done"

Good(s) == Explained(s) /\ Progressed(s) /\ Relayed(s)
Truthful == \A s \in Streams : Good(s)

Unchanged(t) ==
  /\ pc'[t] = pc[t] /\ dest'[t] = dest[t] /\ result'[t] = result[t]
  /\ upRequest'[t] = upRequest[t] /\ upReply'[t] = upReply[t]
  /\ reply'[t] = reply[t] /\ (t \in fin' <=> t \in fin)

LEMMA StaysGood == \A t \in Streams : Good(t) /\ Unchanged(t) => Good(t)'
BY DEF Unchanged, Good, Explained, Progressed, Relayed

LEMMA InitTruthful == Init => Truthful
BY DEF Init, Truthful, Good, Explained, Progressed, Relayed

(* What a step of one request does to the others, which is nothing.        *)
LEMMA RequestAlone ==
  ASSUME Typed, NEW s \in Streams, newRequest(s), NEW t \in Streams, t # s
  PROVE  Unchanged(t)
<1>. USE DEF Typed, TypeOK, down, upward, Unchanged
<1>1. CASE DecodeFails(s) \/ NoRoute(s) \/ (\E d \in Servers : Route(s, d))
  BY <1>1 DEF DecodeFails, NoRoute, Route
<1>2. CASE OpenStream(s) \/ OpenFails(s) \/ ReleaseUp(s) \/ AcquireDn(s)
  BY <1>2 DEF OpenStream, OpenFails, ReleaseUp, AcquireDn
<1>3. CASE Send(s) \/ ReceiveReply(s)
  BY <1>3 DEF Send, ReceiveReply
<1>4. CASE AwaitFails(s) \/ ReleaseDn(s)
  BY <1>4 DEF AwaitFails, ReleaseDn
<1>5. CASE Reply(s)
  BY <1>5 DEF Reply
<1>. QED  BY <1>1, <1>2, <1>3, <1>4, <1>5 DEF newRequest

(* A request that is good makes only good steps.                           *)
LEMMA RequestGood ==
  ASSUME Typed, NEW s \in Streams, Good(s), newRequest(s)
  PROVE  Good(s)'
<1>. USE DEF Typed, TypeOK, down, upward, Good, Explained, Progressed, Relayed
<1>1. CASE DecodeFails(s)
  BY <1>1 DEF DecodeFails
<1>2. CASE NoRoute(s)
  BY <1>2 DEF NoRoute
<1>3. CASE \E d \in Servers : Route(s, d)
  BY <1>3 DEF Route
<1>4. CASE OpenStream(s)
  BY <1>4 DEF OpenStream
<1>5. CASE OpenFails(s)
  BY <1>5 DEF OpenFails
<1>6. CASE Send(s)
  BY <1>6 DEF Send
<1>7. CASE ReleaseUp(s)
  BY <1>7 DEF ReleaseUp
<1>8. CASE AcquireDn(s)
  BY <1>8 DEF AcquireDn
<1>9. CASE ReceiveReply(s)
  <2>1. /\ upReply[s] # <<>> /\ pc[s] = "await" /\ pc' = [pc EXCEPT ![s] = "deliver"]
        /\ result' = [result EXCEPT ![s] = Head(upReply[s])]
        /\ UNCHANGED <<down, upward, up, accept, dest, tokens>>
    BY <1>9 DEF ReceiveReply
  <2>2. Head(upReply[s]) \in {"Response", "QueueFull"}
    BY <2>1, HeadTailProperties
  <2>. QED  BY <2>1, <2>2
<1>10. CASE AwaitFails(s)
  BY <1>10 DEF AwaitFails
<1>11. CASE ReleaseDn(s)
  BY <1>11 DEF ReleaseDn
<1>12. CASE Reply(s)
  <2>1. reply[s] = <<>> /\ Append(reply[s], result[s]) = <<result[s]>>
    BY <1>12 DEF Reply
  <2>. QED  BY <1>12, <2>1 DEF Reply
<1>. QED
  BY <1>1, <1>2, <1>3, <1>4, <1>5, <1>6, <1>7, <1>8, <1>9, <1>10, <1>11, <1>12
     DEF newRequest

(* An accepted stream enters newRequest with nothing known.                *)
LEMMA AcceptGood ==
  ASSUME Typed, NEW c \in Conns, NEW s \in Streams, AcceptStream(c, s), Good(s)
  PROVE  Good(s)'
<1>1. /\ pc'[s] = "decode" /\ pc[s] = "idle"
      /\ UNCHANGED <<dest, result, upRequest, upReply, reply, fin>>
  BY DEF Typed, TypeOK, AcceptStream, down, upward
<1>. QED  BY <1>1 DEF Good, Explained, Progressed, Relayed

LEMMA AcceptAlone ==
  ASSUME Typed, NEW c \in Conns, NEW s \in Streams, AcceptStream(c, s),
         NEW t \in Streams, t # s
  PROVE  Unchanged(t)
BY DEF Typed, TypeOK, AcceptStream, down, upward, Unchanged

(* A server that goes on talking does not change what it said first.       *)
LEMMA SaysGood ==
  ASSUME Typed, NEW s \in Streams, NEW type \in {"Response", "QueueFull"},
         ServerSays(s, type), Good(s)
  PROVE  Good(s)'
<1>1. upReply[s] \in Seq({"Response", "QueueFull"})
  BY DEF Typed, TypeOK
<1>2. upReply[s] # <<>> =>
        Append(upReply[s], type) # <<>> /\ Head(Append(upReply[s], type)) = Head(upReply[s])
  BY <1>1
<1>3. /\ upReply'[s] = Append(upReply[s], type)
      /\ UNCHANGED <<pc, dest, result, upRequest, reply, fin>>
  BY DEF Typed, TypeOK, ServerSays, down
<1>. QED  BY <1>2, <1>3 DEF Good, Explained, Progressed, Relayed

LEMMA SaysAlone ==
  ASSUME Typed, NEW s \in Streams, NEW type \in {"Response", "QueueFull"},
         ServerSays(s, type), NEW t \in Streams, t # s
  PROVE  Unchanged(t)
BY DEF Typed, TypeOK, ServerSays, down, Unchanged

(* The rest concerns the connections and the tokens only.                  *)
LEMMA ElsewhereAlone ==
  ASSUME NEW t \in Streams,
         \/ \E c \in Conns : AcquireUp(c) \/ AcceptFails(c) \/ ClientLost(c)
         \/ \E s \in Streams : ClientSends(s) \/ ServerCloses(s)
         \/ \E d \in Servers : ServerLost(d)
         \/ Shutdown \/ UNCHANGED vars
  PROVE  Unchanged(t)
<1>. SUFFICES UNCHANGED <<pc, dest, result, upRequest, upReply, reply, fin>>
  BY DEF Unchanged
<1>1. CASE \E c \in Conns : AcquireUp(c) \/ AcceptFails(c) \/ ClientLost(c)
  BY <1>1 DEF AcquireUp, AcceptFails, ClientLost, down, upward
<1>2. CASE \E s \in Streams : ClientSends(s) \/ ServerCloses(s)
  BY <1>2 DEF ClientSends, ServerCloses, down, upward
<1>3. CASE \E d \in Servers : ServerLost(d)
  BY <1>3 DEF ServerLost, down
<1>4. CASE Shutdown \/ UNCHANGED vars
  BY <1>4 DEF Shutdown, vars, down, upward
<1>. QED  BY <1>1, <1>2, <1>3, <1>4

LEMMA NextTruthful == Typed /\ Truthful /\ [Next]_vars => Truthful'
<1>. SUFFICES ASSUME Typed, Truthful, [Next]_vars, NEW t \in Streams  PROVE Good(t)'
  BY DEF Truthful
<1>1. Good(t)
  BY DEF Truthful
<1>2. ASSUME NEW s \in Streams, newRequest(s)  PROVE Good(t)'
  BY <1>1, <1>2, RequestGood, RequestAlone, StaysGood
<1>3. ASSUME NEW c \in Conns, NEW s \in Streams, AcceptStream(c, s)  PROVE Good(t)'
  BY <1>1, <1>3, AcceptGood, AcceptAlone, StaysGood
<1>4. ASSUME NEW s \in Streams, ServerAnswers(s) \/ ServerRefuses(s)  PROVE Good(t)'
  BY <1>1, <1>4, SaysGood, SaysAlone, StaysGood DEF ServerAnswers, ServerRefuses
<1>5. ASSUME \/ \E c \in Conns : AcquireUp(c) \/ AcceptFails(c) \/ ClientLost(c)
             \/ \E s \in Streams : ClientSends(s) \/ ServerCloses(s)
             \/ \E d \in Servers : ServerLost(d)
             \/ Shutdown \/ UNCHANGED vars
      PROVE  Good(t)'
  BY <1>1, <1>5, ElsewhereAlone, StaysGood
<1>. QED  BY <1>2, <1>3, <1>4, <1>5
          DEF Next, ProxyNext, newClient, Environment, ServerStep

LEMMA AlwaysTruthful == Spec => [](Typed /\ Truthful)
<1>. QED  BY AlwaysTyped, InitTruthful, NextTruthful, PTL DEF Spec

(* What a client is told is what happened to its own request, whatever     *)
(* the order of replies, lost connections and late answers: at most one    *)
(* message per stream, the server's first one if the server answered, and  *)
(* an error that says truly whether the request was sent                   *)
(* (proxy.go:184-213, :217-280).                                           *)
THEOREM AlwaysToldTheTruth == Spec => []ToldTheTruth
<1>1. Typed /\ Truthful => ToldTheTruth
  <2>. SUFFICES ASSUME Typed, Truthful, NEW s \in Streams
                PROVE  /\ Len(reply[s]) <= 1
                       /\ \A i \in 1..Len(reply[s]) :
                            /\ reply[s][i] = result[s]
                            /\ result[s] \in {"Response", "QueueFull"} =>
                                 /\ upRequest[s] = "sent"
                                 /\ Answered(s) /\ Head(upReply[s]) = result[s]
                            /\ result[s] \in {"NoRoute", "ServerNotFound"} =>
                                 upRequest[s] = "none"
                            /\ result[s] = "ServerTimeout" => upRequest[s] = "sent"
                       /\ s \in fin <=> pc[s] = "done"
    BY DEF ToldTheTruth
  <2>1. Good(s)
    BY DEF Truthful
  <2>2. Len(reply[s]) <= 1 /\ \A i \in 1..Len(reply[s]) : reply[s][i] = result[s]
    <3>1. reply[s] = <<>> \/ reply[s] = <<result[s]>>
      BY <2>1 DEF Good, Relayed
    <3>2. CASE reply[s] = <<>>
      BY <3>2
    <3>3. CASE reply[s] = <<result[s]>>
      <4>1. Len(<<result[s]>>) = 1 /\ <<result[s]>>[1] = result[s]
        OBVIOUS
      <4>. QED  BY <3>3, <4>1
    <3>. QED  BY <3>1, <3>2, <3>3
  <2>3. upReply[s] # <<>> => Answered(s)
    <3>1. upReply[s] \in Seq({"Response", "QueueFull"})
      BY DEF Typed, TypeOK
    <3>. QED  BY <3>1, EmptySeq DEF Answered
  <2>. QED  BY <2>1, <2>2, <2>3 DEF Good, Explained, Relayed
<1>. QED  BY <1>1, AlwaysTruthful, PTL

-----------------------------------------------------------------------------
(* What a step never does.                                                 *)

(* What a request keeps.                                                   *)
Keeps(t) ==
  /\ t \in fin => t \in fin' /\ reply'[t] = reply[t]
  /\ dest[t] # NoServer => dest'[t] = dest[t]

LEMMA UnchangedKeeps == \A t \in Streams : Unchanged(t) => Keeps(t)
BY DEF Unchanged, Keeps

LEMMA RequestKeeps ==
  ASSUME Typed, NEW s \in Streams, Good(s), newRequest(s)
  PROVE  Keeps(s)
<1>1. s \notin fin
  BY DEF newRequest, DecodeFails, NoRoute, Route, OpenStream, OpenFails, Send,
         ReleaseUp, AcquireDn, ReceiveReply, AwaitFails, ReleaseDn, Reply, Good, Relayed
<1>2. dest[s] # NoServer => dest'[s] = dest[s]
  <2>1. ASSUME NEW d \in Servers, Route(s, d)  PROVE dest[s] = NoServer
    BY <2>1 DEF Route, Good, Progressed
  <2>2. (\E d \in Servers : Route(s, d)) \/ UNCHANGED dest
    BY DEF newRequest, DecodeFails, NoRoute, OpenStream, OpenFails, Send,
           ReleaseUp, AcquireDn, ReceiveReply, AwaitFails, ReleaseDn, Reply
  <2>. QED  BY <2>1, <2>2
<1>. QED  BY <1>1, <1>2 DEF Keeps

LEMMA NextKeeps ==
  ASSUME Typed, Truthful, [Next]_vars, NEW t \in Streams
  PROVE  Keeps(t)
<1>1. Good(t)
  BY DEF Truthful
<1>2. ASSUME NEW s \in Streams, newRequest(s)  PROVE Keeps(t)
  BY <1>1, <1>2, RequestKeeps, RequestAlone, UnchangedKeeps
<1>3. ASSUME NEW c \in Conns, NEW s \in Streams, AcceptStream(c, s)  PROVE Keeps(t)
  BY <1>3 DEF AcceptStream, down, Keeps
<1>4. ASSUME NEW s \in Streams, ServerAnswers(s) \/ ServerRefuses(s)  PROVE Keeps(t)
  BY <1>4 DEF ServerAnswers, ServerRefuses, ServerSays, down, Keeps
<1>5. ASSUME \/ \E c \in Conns : AcquireUp(c) \/ AcceptFails(c) \/ ClientLost(c)
             \/ \E s \in Streams : ClientSends(s) \/ ServerCloses(s)
             \/ \E d \in Servers : ServerLost(d)
             \/ Shutdown \/ UNCHANGED vars
      PROVE  Keeps(t)
  BY <1>5, ElsewhereAlone, UnchangedKeeps
<1>. QED  BY <1>2, <1>3, <1>4, <1>5
          DEF Next, ProxyNext, newClient, Environment, ServerStep

(* A client stream that newRequest has closed is never written again; a    *)
(* request is sent at most once, and to the server it was routed to,       *)
(* whatever is lost or late (proxy.go:152-213, :217-280).                  *)
THEOREM WhatIsFinalStays == Spec => FinalIsFinal
<1>. DEFINE Step ==
       /\ \A s \in fin : s \in fin' /\ reply'[s] = reply[s]
       /\ \A s \in Streams : Send(s) => upRequest[s] = "none"
       /\ \A s \in Streams : dest[s] # NoServer => dest'[s] = dest[s]
<1>1. Typed /\ Truthful /\ [Next]_vars => Step
  <2>. SUFFICES ASSUME Typed, Truthful, [Next]_vars  PROVE Step
    OBVIOUS
  <2>1. fin \subseteq Streams
    BY DEF Typed, TypeOK
  <2>2. \A s \in Streams : Send(s) => upRequest[s] = "none"
    BY DEF Send, Truthful, Good, Progressed
  <2>. QED  BY <2>1, <2>2, NextKeeps DEF Keeps
<1>2. Typed /\ Truthful /\ [Next]_vars => [Step]_vars
  BY <1>1
<1>. QED  BY <1>2, AlwaysTruthful, PTL DEF Spec, FinalIsFinal

-----------------------------------------------------------------------------
(* One step of the proxy, as the client and the server see it.  The        *)
(* composition of the three programs rests on this.                        *)

LEMMA WireLeftAlone ==
  ProxyNext => UNCHANGED <<request, link, upReply, upFin, upLink>>
BY DEF ProxyNext, newClient, newRequest, Shutdown, AcquireUp, AcceptStream, AcceptFails,
       DecodeFails, NoRoute, Route, OpenStream, OpenFails, Send, ReleaseUp, AcquireDn,
       ReceiveReply, AwaitFails, ReleaseDn, Reply, down, upward

(* Nothing is written after the one message, and a request that was sent   *)
(* stays sent.  A time-out is reported only when waiting has failed.       *)
Steps(t) ==
  /\ t \in fin => t \in fin'
  /\ reply[t] # <<>> => reply'[t] = reply[t]
  /\ upRequest[t] = "sent" => upRequest'[t] = "sent"
  /\ result'[t] = "ServerTimeout" /\ result[t] # "ServerTimeout" =>
       (dest[t] \in Servers /\ upLink[dest[t]] = "lost") \/ (t \in upFin /\ upReply[t] = <<>>)

LEMMA NextSteps ==
  ASSUME Typed, Truthful, ProxyNext, NEW t \in Streams
  PROVE  Steps(t)
<1>1. Keeps(t) /\ (reply[t] # <<>> => t \in fin)
  BY NextKeeps DEF Truthful, Good, Relayed, Next
<1>2. ASSUME NEW s \in Streams, newRequest(s), s # t  PROVE Steps(t)
  BY <1>1, <1>2, RequestAlone DEF Unchanged, Keeps, Steps
<1>3. CASE newRequest(t)
  <2>1. upRequest[t] = "sent" => upRequest'[t] = "sent"
    BY <1>3 DEF newRequest, DecodeFails, NoRoute, Route, OpenStream, OpenFails, Send,
           ReleaseUp, AcquireDn, ReceiveReply, AwaitFails, ReleaseDn, Reply, upward,
           Typed, TypeOK
  <2>2. result'[t] = "ServerTimeout" /\ result[t] # "ServerTimeout" =>
          \/ dest[t] \in Servers /\ upLink[dest[t]] = "lost"
          \/ t \in upFin /\ upReply[t] = <<>>
    <3>0. pc[t] = "await" => dest[t] \in Servers
      BY DEF Truthful, Good, Progressed
    <3>1. CASE ReceiveReply(t)
      <4>1. Head(upReply[t]) \in {"Response", "QueueFull"}
        BY <3>1, HeadTailProperties DEF ReceiveReply, Typed, TypeOK
      <4>. QED  BY <3>1, <4>1 DEF ReceiveReply, Typed, TypeOK
    <3>2. CASE ~ ReceiveReply(t)
      BY <1>3, <3>0, <3>2 DEF newRequest, DecodeFails, NoRoute, Route, OpenStream, OpenFails,
             Send, ReleaseUp, AcquireDn, AwaitFails, ReleaseDn, Reply, Typed, TypeOK
    <3>. QED  BY <3>1, <3>2
  <2>. QED  BY <1>1, <2>1, <2>2 DEF Keeps, Steps
<1>4. CASE Shutdown \/ \E c \in Conns : newClient(c)
  BY <1>1, <1>4 DEF Shutdown, newClient, AcquireUp, AcceptStream, AcceptFails, upward,
                    Keeps, Steps
<1>. QED  BY <1>1, <1>2, <1>3, <1>4 DEF ProxyNext
=============================================================================
