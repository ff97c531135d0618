---------------------------- MODULE RoutingProofs ----------------------------
(***************************************************************************)
(* Theorems about Routing, for every set of callers, probabilities,        *)
(* capacity of the averages and lengths of bodies.                         *)
(*                                                                         *)
(* A moving average is a ring that wraps, with a sum kept up to date by    *)
(* difference: Holds says what it stands for, a queue of the last numbers  *)
(* pushed.  The policies then come down to what the queue is of.           *)
(***************************************************************************)
EXTENDS Routing, Counting

-----------------------------------------------------------------------------
(* A moving average as the program can leave it.                           *)
Ring == {x \in [vec : Seq(Nat), size : {TimeWindow}, begin : 0..(TimeWindow - 1),
                end : 0..TimeWindow, sum : Int] : Len(x.vec) <= TimeWindow}

(* The moving average x holds the n numbers w, oldest first.               *)
Holds(x, n, w) ==
  /\ x \in Ring /\ Len(x.vec) = n
  /\ n < TimeWindow => x.begin = 0 /\ x.end = n
  /\ Laid(TimeWindow, x.vec, x.begin, n, w)
  /\ x.sum = SumFunctionOnSet(w, 1..n)

(* A new average holds nothing.                                            *)
LEMMA NewHolds == \A w : Holds(NewMavg(TimeWindow), 0, w)
<1>1. \A w : SumFunctionOnSet(w, 1..0) = 0
  <2>1. 1..0 = {}
    OBVIOUS
  <2>. QED  BY <2>1, SumEmpty
<1>2. Len(<<>>) = 0
  OBVIOUS
<1>. QED  BY <1>1, <1>2, RoutingPolicyAssumption DEF Holds, Laid, Ring, NewMavg

(* Mavg_push keeps a moving average: whatever it has held and however      *)
(* often it has wrapped, what it holds afterwards are its entries without  *)
(* the oldest and with the new one, and the sum, kept up to date by        *)
(* difference, is theirs.                                                  *)
LEMMA PushHolds ==
  ASSUME NEW n \in 0..TimeWindow, NEW w, \A k \in 1..n : w[k] \in Nat,
         NEW x, Holds(x, n, w), NEW y \in Nat, NEW v, Slides(TimeWindow, n, w, y, v)
  PROVE  Holds(Mavg_push(x, y), Next1(TimeWindow, n), v)
<1>00. SumFunctionOnSet(v, 1..Next1(TimeWindow, n)) =
         SumFunctionOnSet(w, 1..n) + y - (IF n < TimeWindow THEN 0 ELSE w[1])
  BY RoutingPolicyAssumption, SlideSum
<1>. DEFINE z == Mavg_push(x, y)
<1>. PICK u \in Seq(Nat), b \in 0..(TimeWindow-1), e \in 0..TimeWindow, s \in Int :
       x = [vec |-> u, size |-> TimeWindow, begin |-> b, end |-> e, sum |-> s]
  BY DEF Holds, Ring
<1>0. /\ TimeWindow \in Nat \ {0} /\ n \in Nat
      /\ Len(u) = n /\ s = SumFunctionOnSet(w, 1..n)
      /\ n < TimeWindow => b = 0 /\ e = n
      /\ Laid(TimeWindow, u, b, n, w)
  BY RoutingPolicyAssumption DEF Holds
<1>1. CASE n < TimeWindow
  <2>1. z = [vec |-> Append(u, y), size |-> TimeWindow, begin |-> 0, end |-> n + 1,
      sum |-> s + y]
    BY <1>0, <1>1 DEF Mavg_push, Grow
  <2>2. /\ Append(u, y) \in Seq(Nat) /\ Len(Append(u, y)) = n + 1
        /\ Laid(TimeWindow, Append(u, y), 0, n + 1, v)
    <3>1. Laid(TimeWindow, u, 0, n, w)
      BY <1>0, <1>1
    <3>. DEFINE r == Append(u, y)
    <3>. HIDE DEF z
    <3>2. r \in Seq(Nat) /\ Len(r) = n + 1 /\ (\A k \in 1..n : r[k] = u[k]) /\ r[n+1] = y
      <4>1. Len(u) = n /\ n \in Nat
        BY <1>0
      <4>. QED  BY <4>1
    <3>3. Laid(TimeWindow, r, 0, n + 1, v)
      <4>. HIDE DEF r
      <4>. QED  BY <1>0, <1>1, <3>1, <3>2, GrowSlots
    <3>. QED  BY <3>2, <3>3
  <2>3. s + y = SumFunctionOnSet(v, 1..(n+1))
    BY <1>0, <1>00, <1>1 DEF Next1
  <2>4. Next1(TimeWindow, n) = n + 1 /\ n + 1 \in 1..TimeWindow
    BY <1>0, <1>1 DEF Next1
  <2>. HIDE DEF z
  <2>5. z \in Ring
    BY <1>0, <2>1, <2>2, <2>4 DEF Ring
  <2>6. Holds(z, n + 1, v)
    BY <2>1, <2>2, <2>3, <2>4, <2>5 DEF Holds
  <2>. QED  BY <2>4, <2>6 DEF z
<1>2. CASE n = TimeWindow
  <2>. DEFINE first == (b + 1) % n  last == (e + 1) % n  r == [u EXCEPT ![b+1] = y]
  <2>1. /\ first = (IF b + 1 = TimeWindow THEN 0 ELSE b + 1)
        /\ first \in 0..(TimeWindow - 1) /\ last \in 0..TimeWindow
    <3>1. b + 1 \in 0..n /\ n \in Nat \ {0}
      BY <1>0, <1>2
    <3>2. first = (IF b + 1 = n THEN 0 ELSE b + 1)
      BY <3>1, Remainder
    <3>3. last \in 0..TimeWindow
      BY <1>0, <1>2
    <3>4. first \in 0..(TimeWindow - 1)
      BY <1>0, <1>2
    <3>. QED  BY <1>2, <3>2, <3>3, <3>4
  <2>2. z = [vec |-> r, size |-> TimeWindow, begin |-> first, end |-> last,
      sum |-> s - u[b+1] + y]
    <3>1. z = Overwrite(x, y, first, last)
      BY <1>0, <1>2 DEF Mavg_push
    <3>. HIDE DEF first, last, z
    <3>. QED  BY <3>1 DEF Overwrite
  <2>. HIDE DEF first, last, z
  <2>3. /\ r \in Seq(Nat) /\ Len(r) = n /\ u[b+1] = w[1]
        /\ Laid(TimeWindow, r, first, n, v)
    <3>1. /\ TimeWindow \in Nat \ {0} /\ n = TimeWindow /\ Len(u) = n /\ b \in 0..(TimeWindow - 1)
          /\ Laid(TimeWindow, u, b, n, w)
          /\ first = (IF b + 1 = TimeWindow THEN 0 ELSE b + 1)
      BY <1>0, <1>2, <2>1
    <3>2. r \in Seq(Nat) /\ Len(r) = n /\ Replaced(u, b, n, y, r)
      <4>1. DOMAIN u = 1..n /\ \A k \in 1..n : u[k] \in Nat
        BY <1>0
      <4>2. r = [k \in 1..n |-> IF k = b + 1 THEN y ELSE u[k]]
        BY <4>1
      <4>. QED  BY <3>1, <4>1, <4>2 DEF Replaced
    <3>. HIDE DEF r
    <3>3. /\ n \in Nat \ {0} /\ b \in 0..(n - 1) /\ first = Wrapped(n, b)
          /\ Laid(n, u, b, n, w) /\ Slides(n, n, w, y, v)
      BY <1>2, <3>1 DEF Wrapped
    <3>4. u[b+1] = w[1] /\ Laid(n, r, first, n, v)
      BY <3>2, <3>3, OverwriteSlots
    <3>. QED  BY <1>2, <3>2, <3>4
  <2>4. s - u[b+1] + y = SumFunctionOnSet(v, 1..n) /\ w[1] \in Nat
    <3>1. SumFunctionOnSet(v, 1..n) = SumFunctionOnSet(w, 1..n) + y - w[1]
      <4>1. ~ (n < TimeWindow) /\ Next1(TimeWindow, n) = n
        BY <1>0, <1>2 DEF Next1
      <4>. QED  BY <1>00, <4>1
    <3>2. w[1] \in Nat
      BY <1>0, <1>2
    <3>. QED  BY <1>0, <2>3, <3>1, <3>2
  <2>5. Next1(TimeWindow, n) = n
    BY <1>0, <1>2 DEF Next1
  <2>. HIDE DEF z, r
  <2>6. z \in Ring
    <3>1. s - u[b+1] + y \in Int
      BY <2>3, <2>4
    <3>. QED  BY <1>0, <1>2, <2>1, <2>2, <2>3, <3>1 DEF Ring
  <2>7. Holds(z, n, v)
    BY <1>0, <1>2, <2>2, <2>3, <2>4, <2>6 DEF Holds
  <2>. QED  BY <2>5, <2>7 DEF z
<1>. QED  BY <1>0, <1>1, <1>2

-----------------------------------------------------------------------------
(* The bytes routed to each sink, without those of the calls still asleep. *)
Sent == [i \in Sinks |-> routed[i] - Latency!Pending(i)]

(* The two entry points of a drawing policy, in terms of the bytes sent    *)
(* before and after: of the weighted policy sent is routed, of the latency *)
(* policy it is Sent.  A response that is credited is counted for the sink *)
(* it came from; the latency policy may miss it.                           *)
Pushes(up, down) ==
  /\ b_up_i' = [i \in Sinks |-> Mavg_push(b_up_i[i], up[i])]
  /\ b_down_i' = [i \in Sinks |-> Mavg_push(b_down_i[i], down[i])]
  /\ b_up' = Mavg_push(b_up, Total(up)) /\ b_down' = Mavg_push(b_down, Total(down))

Remembers(sent, answered) ==
  LET all == Append(past, [routed |-> sent, returned |-> answered])
  IN past' = IF Len(all) > TimeWindow THEN Tail(all) ELSE all

Decides(sink, body, sent, after) ==
  /\ started' = TRUE
  /\ \/ /\ cup' = [cup EXCEPT ![sink] = @ + body]
        /\ after = [sent EXCEPT ![sink] = @ + body]
        /\ UNCHANGED <<cdw, b_up, b_down, b_up_i, b_down_i, returned, past>>
     \/ /\ started
        /\ Pushes([cup EXCEPT ![sink] = @ + body], cdw)
        /\ cup' = Zeros /\ cdw' = Zeros
        /\ after = Zeros /\ returned' = Zeros
        /\ Remembers([sent EXCEPT ![sink] = @ + body], returned)

Credits(sink, body, counted, sent, after) ==
  /\ counted \/ policy = "latency"
  /\ cdw' = IF counted THEN [cdw EXCEPT ![sink] = @ + body] ELSE cdw
  /\ returned' = [returned EXCEPT ![sink] = @ + body]
  /\ after = sent
  /\ UNCHANGED <<cup, started, b_up, b_down, b_up_i, b_down_i, past>>

Stutters(sent, after) ==
  after = sent /\ UNCHANGED <<cup, cdw, started, b_up, b_down, b_up_i, b_down_i,
                              returned, past>>

(* The instances say the same thing of the same values. FoldFunction and   *)
(* its like come from the community modules, and each INSTANCE has its     *)
(* own.                                                                    *)
LEMMA Totals == \A f :
  /\ Total(f) = SumFunctionOnSet(f, DOMAIN f)
  /\ Weighted!Total(f) = Total(f)
  /\ Latency!Total(f) = Total(f)
  /\ Latency!Policy!Total(f) = Total(f)
BY DEF Total, Weighted!Total, Latency!Total, Latency!Policy!Total,
  FoldFunction, FoldFunctionOnSet, MapThenFoldSet, SumFunctionOnSet,
  Weighted!FoldFunction, Weighted!FoldFunctionOnSet, Weighted!MapThenFoldSet,
  Latency!FoldFunction, Latency!FoldFunctionOnSet, Latency!MapThenFoldSet,
  Latency!Policy!FoldFunction, Latency!Policy!FoldFunctionOnSet, Latency!Policy!MapThenFoldSet

LEMMA Sums ==
  /\ \A f : Latency!Policy!Over(f) = SumFunctionOnSet(f, DOMAIN f)
  /\ \A f : Weighted!Over(f) = SumFunctionOnSet(f, DOMAIN f)
  /\ \A f : Fixed!SumFunction(f) = SumFunctionOnSet(f, DOMAIN f)
BY DEF Latency!Policy!Over, Latency!Policy!FoldSeq, 
  Weighted!Over, Weighted!FoldSeq,
  Weighted!FoldFunction, Weighted!FoldFunctionOnSet, Weighted!MapThenFoldSet,
  Latency!Policy!FoldFunction, Latency!Policy!FoldFunctionOnSet, Latency!Policy!MapThenFoldSet,
  FoldFunctionOnSet, MapThenFoldSet, SumFunctionOnSet,
  Fixed!SumFunction, Fixed!SumFunctionOnSet, Fixed!FoldFunctionOnSet, Fixed!MapThenFoldSet

LEMMA Names ==
  /\ Weighted!Sinks = Sinks /\ Latency!Sinks = Sinks /\ Latency!Policy!Sinks = Sinks
  /\ Weighted!Zeros = Zeros /\ Latency!Zeros = Zeros /\ Latency!Policy!Zeros = Zeros
BY DEF Sinks, Zeros, Weighted!Sinks, Latency!Sinks, Latency!Policy!Sinks,
  Weighted!Zeros, Latency!Zeros, Latency!Policy!Zeros

LEMMA Draws == \A d :
  Weighted!Chosen(d) = Chosen(d) /\ Latency!Chosen(d) = Chosen(d)
                                     /\ Latency!Policy!Chosen(d) = Chosen(d)
BY DEF Chosen, Latency!Chosen, Weighted!Chosen, Latency!Policy!Chosen, 
  Sinks, Latency!Sinks, Weighted!Sinks, Latency!Policy!Sinks,
  Cumulated, Latency!Cumulated, Weighted!Cumulated, Latency!Policy!Cumulated,
  FoldSeq, FoldFunction, FoldFunctionOnSet, MapThenFoldSet,
  Latency!FoldSeq,  Latency!FoldFunction, Latency!FoldFunctionOnSet, Latency!MapThenFoldSet,
  Weighted!FoldSeq,  Weighted!FoldFunction, Weighted!FoldFunctionOnSet, Weighted!MapThenFoldSet,
  Latency!Policy!FoldSeq,  Latency!Policy!FoldFunction, Latency!Policy!FoldFunctionOnSet,
      Latency!Policy!MapThenFoldSet

LEMMA Pushing == \A x, y :
  /\ Weighted!Mavg_push(x, y) = Mavg_push(x, y)
  /\ Latency!Mavg_push(x, y) = Mavg_push(x, y)
  /\ Latency!Policy!Mavg_push(x, y) = Mavg_push(x, y)
  /\ Fixed!Mavg_push(x, y) = Mavg_push(x, y)
BY DEF Mavg_push, Grow, Overwrite, Weighted!Mavg_push, Weighted!Grow, Weighted!Overwrite, 
  Latency!Mavg_push, Latency!Grow, Latency!Overwrite, 
  Latency!Policy!Mavg_push, Latency!Policy!Grow, Latency!Policy!Overwrite, 
  Fixed!Mavg_push, Fixed!Grow, Fixed!Overwrite

(* What the actions of the weighted policy do.                             *)
LEMMA WeightedMeans ==
  ASSUME NEW draw, NEW type, NEW source \in Sinks \cup {0}, NEW body
  PROVE  /\ Weighted!Decision(draw, body) => Decides(Chosen(draw), body, routed, routed')
         /\ Weighted!SetLastResponse(type, source, body)
              => \/ source \in Sinks /\ Credits(source, body, TRUE, routed, routed')
                 \/ Stutters(routed, routed')
<1>1. \A up : Weighted!CloseWindow(up) <=> Pushes(up, cdw) /\ cup' = Zeros /\ cdw' = Zeros
  BY Names, Totals, Pushing DEF Weighted!CloseWindow, Weighted!PushAll, Pushes
<1>2. Weighted!Decision(draw, body) => Decides(Chosen(draw), body, routed, routed')
  BY <1>1, Names, Draws DEF Weighted!Decision, Decides, Remembers
<1>3. Weighted!SetLastResponse(type, source, body)
        => \/ source \in Sinks /\ Credits(source, body, TRUE, routed, routed')
           \/ Stutters(routed, routed')
  BY Names DEF Weighted!SetLastResponse, Credits, Stutters
<1>. QED  BY <1>2, <1>3

-----------------------------------------------------------------------------
(* Who may hold plMutex, and what a call under way knows: the body it      *)
(* counts, the sink that its draw chose, and that a window has begun.      *)
Loads == [Sinks -> Nat]

Called ==
  /\ policy \in {"fixed", "probability", "latency"}
  /\ plMutex \in Callers \cup {Nobody}
  /\ pc \in [Callers -> {"idle", "lockUp", "sleepUp", "forwarded", "lockDown", "sleepDown"}]
  /\ req \in [Callers -> [sink : Sinks, body : Nat, answer : Latency!Answers]]
  /\ routed \in Loads

Serial == \A c \in Callers : Latency!Sleeping(c) => plMutex = c

Elsewhere == policy # "latency" => \A c \in Callers : pc[c] = "idle"

Asked(c) ==
  /\ pc[c] # "idle" => req[c].body \in Bodies
  /\ pc[c] = "sleepUp" => \E draw \in 0..(Scale-1) : req[c].sink = Chosen(draw)
  /\ pc[c] \in {"forwarded", "lockDown", "sleepDown"} => started

Calls == Called /\ Serial /\ Elsewhere /\ \A c \in Callers : Asked(c)

(* The draw always chooses a sink: the loop stops at the last one at the   *)
(* latest (probability.go:88-97, probabilityLatency.go:94-103).            *)
LEMMA ChosenIsSink == \A draw \in Nat : Chosen(draw) \in Sinks
<1>. SUFFICES ASSUME NEW draw \in Nat  PROVE Chosen(draw) \in Sinks
  OBVIOUS
<1>0. Len(Weights) \in Nat \ {0} /\ \A i \in Sinks : Weights[i] \in Nat
  BY RoutingPolicyAssumption DEF Sinks
<1>1. \A i \in Sinks : Cumulated(i) \in Int
  <2>. SUFFICES ASSUME NEW i \in Sinks  PROVE Cumulated(i) \in Int
    OBVIOUS
  <2>. DEFINE w == SubSeq(Weights, 1, i)
  <2>1. i \in 1..Len(Weights) /\ Weights \in Seq(Nat)
    BY RoutingPolicyAssumption DEF Sinks
  <2>2. DOMAIN w = 1..i /\ \A k \in 1..i : w[k] \in Int
    BY <2>1
  <2>3. Cumulated(i) = SumFunctionOnSet(w, DOMAIN w)
    BY DEF Cumulated, FoldSeq, FoldFunction, SumFunctionOnSet
  <2>. HIDE DEF w
  <2>4. IsFiniteSet(1..i)
    BY <2>1, FS_Interval
  <2>5. SumFunctionOnSet(w, 1..i) \in Int
    BY <2>2, <2>4, SumType
  <2>. QED  BY <2>2, <2>3, <2>5
<1>. DEFINE Stops == {i \in Sinks : i = Len(Weights) \/ Cumulated(i) >= draw}
<1>2. PICK i \in Stops : \A j \in Stops : i <= j
  <2>1. Stops \in SUBSET Nat /\ Len(Weights) \in Stops
    BY <1>0 DEF Sinks
  <2>. HIDE DEF Stops
  <2>. QED  BY <2>1, Least
<1>3. \A j \in 1..(i-1) : Cumulated(j) < draw
  <2>. SUFFICES ASSUME NEW j \in 1..(i-1)  PROVE Cumulated(j) < draw
    OBVIOUS
  <2>1. j \in Sinks /\ j < i /\ j # Len(Weights)
    BY <1>0 DEF Sinks
  <2>2. ~ (Cumulated(j) >= draw)
    BY <1>2, <2>1
  <2>. QED  BY <1>1, <2>1, <2>2
<1>4. \E k \in Sinks : /\ k = Len(Weights) \/ Cumulated(k) >= draw
                       /\ \A j \in 1..(k-1) : Cumulated(j) < draw
  BY <1>2, <1>3
<1>. QED  BY <1>4 DEF Chosen

(* The calls, step by step.                                                *)
LEMMA InitCalls == Init => Calls
<1>. SUFFICES ASSUME Init  PROVE Calls
  OBVIOUS
<1>1. 1 \in Sinks
  BY RoutingPolicyAssumption DEF Sinks
<1>. QED  BY <1>1, Names DEF Init, Latency!Init, Calls, Called, Serial, Elsewhere, Asked, Loads,
          Latency!NoCall, Latency!Answers, Latency!Sleeping, Zeros

(* A step of one caller.                                                   *)
LEMMA CallerStep ==
  ASSUME Calls, policy = "latency", policy' = policy, NEW c \in Callers,
         \/ \E body \in Bodies : Latency!CallUp(c, body)
         \/ Latency!Unanswered(c)
         \/ \E answer \in Latency!Answers, body \in Bodies : Latency!CallDown(c, answer, body)
         \/ Latency!Step(c)
  PROVE  Calls'
<1>. USE DEF Calls, Called, Serial, Elsewhere, Asked, Latency!Sleeping
<1>0. Bodies \subseteq Nat /\ Nobody \notin Callers /\ 1 \in Sinks
  BY RoutingPolicyAssumption, RoutingAssumption DEF Sinks
<1>1. CASE \E body \in Bodies : Latency!CallUp(c, body)
  BY <1>0, <1>1 DEF Latency!CallUp, Latency!router
<1>2. CASE Latency!Unanswered(c)
  BY <1>0, <1>2 DEF Latency!Unanswered, Latency!router, Latency!NoCall, Latency!Answers
<1>3. CASE \E answer \in Latency!Answers, body \in Bodies : Latency!CallDown(c, answer, body)
  <2>. PICK answer \in Latency!Answers, body \in Bodies : Latency!CallDown(c, answer, body)
    BY <1>3
  <2>1. /\ pc[c] = "forwarded" /\ pc' = [pc EXCEPT ![c] = "lockDown"]
        /\ req' = [req EXCEPT ![c].answer = answer, ![c].body = body]
        /\ UNCHANGED <<plMutex, started, routed>>
    BY DEF Latency!CallDown, Latency!router
  <2>2. req' \in [Callers -> [sink : Sinks, body : Nat, answer : Latency!Answers]]
    <3>. DEFINE first == [req EXCEPT ![c].answer = answer]
    <3>1. first \in [Callers -> [sink : Sinks, body : Nat, answer : Latency!Answers]]
      OBVIOUS
    <3>2. req' = [first EXCEPT ![c].body = body]
      BY <2>1
    <3>. HIDE DEF first
    <3>. QED  BY <1>0, <3>1, <3>2
  <2>3. req'[c].body = body /\ \A d \in Callers \ {c} : req'[d] = req[d]
    BY <2>1
  <2>. QED  BY <1>0, <2>1, <2>2, <2>3
<1>4. CASE \E draw \in 0..(Scale-1) : Latency!LockUp(c, draw)
  <2>. PICK draw \in 0..(Scale-1) : Latency!LockUp(c, draw)
    BY <1>4
  <2>1. Chosen(draw) \in Sinks
    BY RoutingPolicyAssumption, ChosenIsSink
  <2>2. /\ pc[c] = "lockUp" /\ plMutex = Nobody /\ plMutex' = c
        /\ pc' = [pc EXCEPT ![c] = "sleepUp"]
        /\ req' = [req EXCEPT ![c].sink = Chosen(draw)]
        /\ routed' = [routed EXCEPT ![Chosen(draw)] = @ + req[c].body]
        /\ started' = started
    BY Draws DEF Latency!LockUp, Latency!Lock, Latency!router
  <2>3. routed' \in Loads
    BY <2>1, <2>2 DEF Loads
  <2>. QED  BY <1>0, <2>1, <2>2, <2>3
<1>5. CASE Latency!WakeUp(c)
  <2>1. Zeros \in Loads
    BY DEF Zeros, Loads
  <2>2. routed' \in Loads
    BY <1>5, <2>1, Names DEF Latency!WakeUp
  <2>. QED  BY <1>0, <1>5, <2>2 DEF Latency!WakeUp, Latency!Return
<1>6. CASE Latency!LockDown(c)
  BY <1>0, <1>6 DEF Latency!LockDown, Latency!Lock, Latency!router
<1>7. CASE Latency!WakeDown(c)
  BY <1>0, <1>7 DEF Latency!WakeDown, Latency!Return, Latency!NoCall, Latency!Answers
<1>. QED  BY <1>1, <1>2, <1>3, <1>4, <1>5, <1>6, <1>7 DEF Latency!Step

(* The weighted policy leaves the calls alone: there are none.             *)
LEMMA WeightedKeeps ==
  ASSUME Calls, WeightedStep, policy' = policy
  PROVE  Calls'
<1>. USE DEF Calls, Called, Serial, Elsewhere, Asked, Latency!Sleeping
<1>0. policy = "probability" /\ UNCHANGED sleeping /\ \A c \in Callers : pc[c] = "idle"
  BY DEF WeightedStep
<1>1. routed' \in Loads
  <2>1. CASE \E draw \in 0..(Scale-1), body \in Bodies : Weighted!Decision(draw, body)
    <3>. PICK draw \in 0..(Scale-1), body \in Bodies : Weighted!Decision(draw, body)
      BY <2>1
    <3>1. Chosen(draw) \in Sinks /\ body \in Nat
      BY RoutingPolicyAssumption, ChosenIsSink
    <3>2. Decides(Chosen(draw), body, routed, routed')
      BY WeightedMeans
    <3>. QED  BY <3>1, <3>2 DEF Decides, Loads, Zeros
  <2>2. CASE \E type \in {"Response", "QueueFull"}, source \in Weighted!Sinks \cup {0},
                body \in Bodies : Weighted!SetLastResponse(type, source, body)
    BY <2>2 DEF Weighted!SetLastResponse
  <2>. QED  BY <2>1, <2>2 DEF WeightedStep, Weighted!Next
<1>. QED  BY <1>0, <1>1 DEF sleeping

(* Every step keeps what is known of the calls.                            *)
LEMMA NextCalls == Calls /\ [Next]_vars => Calls'
<1>. SUFFICES ASSUME Calls, [Next]_vars  PROVE Calls'
  OBVIOUS
<1>1. CASE FixedStep /\ policy' = policy
  BY <1>1 DEF FixedStep, Calls, Called, Serial, Elsewhere, Asked, Latency!Sleeping,
      drawing, sleeping
<1>2. CASE WeightedStep /\ policy' = policy
  BY <1>2, WeightedKeeps
<1>3. CASE LatencyStep /\ policy' = policy
  BY <1>3, CallerStep DEF LatencyStep, Latency!Next
<1>4. CASE UNCHANGED vars
  BY <1>4 DEF vars, Calls, Called, Serial, Elsewhere, Asked, Latency!Sleeping, drawing, sleeping
<1>. QED  BY <1>1, <1>2, <1>3, <1>4 DEF Next

(* While one call sleeps, every other call of the proxy waits for it       *)
(* (probabilityLatency.go:90, :146), for every set of callers and of       *)
(* sinks: plMutex is held by whoever sleeps, and is given to nobody        *)
(* meanwhile.                                                              *)
THEOREM DelaysAdd == Spec => DelaysAreSerial
<1>1. Calls /\ [Next]_vars => 
       [\A c, d \in Callers :
       c # d /\ Latency!Sleeping(c) /\ pc'[c] = pc[c]
         => ~ Latency!Sleeping(d) /\ (pc[d] \in {"lockUp", "lockDown"} => pc'[d] =
                                      pc[d])]_Latency!vars
  <2>. SUFFICES ASSUME Calls, [Next]_vars, NEW c \in Callers, NEW d \in Callers, c # d,
                       Latency!Sleeping(c), pc'[c] = pc[c]
                PROVE  ~ Latency!Sleeping(d) /\ (pc[d] \in {"lockUp", "lockDown"} =>
                                                 pc'[d] = pc[d])
    OBVIOUS
  <2>1. plMutex = c /\ Nobody \notin Callers /\ ~ Latency!Sleeping(d)
    BY RoutingAssumption DEF Calls, Serial
  <2>2. ASSUME LatencyStep  PROVE pc[d] \in {"lockUp", "lockDown"} => pc'[d] = pc[d]
    <3>. PICK e \in Callers :
         \/ \E body \in Bodies : Latency!CallUp(e, body)
         \/ Latency!Unanswered(e)
         \/ \E answer \in Latency!Answers, body \in Bodies : Latency!CallDown(e, answer, body)
         \/ Latency!Step(e)
      BY <2>2 DEF LatencyStep, Latency!Next
    <3>. QED  BY <2>1 DEF Latency!CallUp, Latency!Unanswered, Latency!CallDown,
        Latency!Step, Latency!LockUp,
           Latency!WakeUp, Latency!LockDown, Latency!WakeDown, Latency!Lock,
               Latency!Return, Calls, Called
  <2>. QED  BY <2>1, <2>2 DEF Next, FixedStep, WeightedStep, vars, sleeping
<1>. QED  BY <1>1, InitCalls, NextCalls, PTL DEF Spec, DelaysAreSerial, Latency!DelaysAreSerial

-----------------------------------------------------------------------------
(* Sent again, over the state it is computed from, so that its next value  *)
(* can be spoken of.                                                       *)
BytesOf(r, S) == SumFunctionOnSet([c \in Callers |-> r[c].body], S)
AsleepAt(p, r, i) == {c \in Callers : p[c] = "sleepUp" /\ r[c].sink = i}
SentOf(p, r, t) == [i \in Sinks |-> t[i] - BytesOf(r, AsleepAt(p, r, i))]

LEMMA SentIs == Sent = SentOf(pc, req, routed) /\ Sent' = SentOf(pc', req', routed')
BY DEF Sent, SentOf, BytesOf, AsleepAt, Latency!Pending, Latency!Asleep, Latency!Bytes,
  Latency!SumFunctionOnSet, Latency!FoldFunctionOnSet, Latency!MapThenFoldSet,
  FoldFunctionOnSet, MapThenFoldSet, SumFunctionOnSet

(* With nobody asleep, what is sent is what was routed.                    *)
LEMMA SentNone ==
  ASSUME NEW p, NEW r, NEW t \in Loads, \A c \in Callers : p[c] # "sleepUp"
  PROVE  SentOf(p, r, t) = t
<1>1. \A i \in Sinks : AsleepAt(p, r, i) = {}
  BY DEF AsleepAt
<1>2. \A i \in Sinks : BytesOf(r, AsleepAt(p, r, i)) = 0
  BY <1>1, SumEmpty DEF BytesOf
<1>. QED  BY <1>2 DEF SentOf, Loads

(* A record of loads with so many bytes more, or fewer, at one sink.       *)
More(t, s, b) == [t EXCEPT ![s] = @ + b]
Fewer(t, s, b) == [t EXCEPT ![s] = @ - b]

(* What is added and taken away again leaves no trace.                     *)
LEMMA BackAndForth ==
  ASSUME NEW t \in Loads, NEW s, NEW b \in Nat
  PROVE  /\ Fewer(t, s, b) = [i \in Sinks |-> IF i = s THEN t[i] - b ELSE t[i]]
         /\ Fewer(More(t, s, b), s, b) = t
         /\ More(Fewer(t, s, b), s, b) = t
<1>1. t = [i \in Sinks |-> t[i]] /\ \A i \in Sinks : t[i] \in Nat
  BY DEF Loads
<1>2. [t EXCEPT ![s] = @ - b] = [i \in Sinks |-> IF i = s THEN t[i] - b ELSE t[i]]
  BY <1>1
<1>3. [t EXCEPT ![s] = @ + b] = [i \in Sinks |-> IF i = s THEN t[i] + b ELSE t[i]]
  BY <1>1
<1>4. [[t EXCEPT ![s] = @ + b] EXCEPT ![s] = @ - b] = t
  <2>. DEFINE u == [t EXCEPT ![s] = @ + b]  v == [u EXCEPT ![s] = @ - b]
  <2>1. u = [i \in Sinks |-> IF i = s THEN t[i] + b ELSE t[i]]
    BY <1>3
  <2>. HIDE DEF u
  <2>2. v = [i \in Sinks |-> IF i = s THEN u[i] - b ELSE u[i]]
    BY <2>1
  <2>3. \A i \in Sinks : v[i] = t[i]
    BY <1>1, <2>1, <2>2
  <2>. QED  BY <1>1, <2>2, <2>3 DEF u
<1>5. [[t EXCEPT ![s] = @ - b] EXCEPT ![s] = @ + b] = t
  <2>. DEFINE u == [t EXCEPT ![s] = @ - b]  v == [u EXCEPT ![s] = @ + b]
  <2>1. u = [i \in Sinks |-> IF i = s THEN t[i] - b ELSE t[i]]
    BY <1>2
  <2>. HIDE DEF u
  <2>2. v = [i \in Sinks |-> IF i = s THEN u[i] + b ELSE u[i]]
    BY <2>1
  <2>3. \A i \in Sinks : v[i] = t[i]
    BY <1>1, <2>1, <2>2
  <2>. QED  BY <1>1, <2>2, <2>3 DEF u
<1>. QED  BY <1>2, <1>4, <1>5 DEF More, Fewer

(* With one caller asleep, its bytes are missing at the sink it drew.      *)
LEMMA SentOne ==
  ASSUME NEW p, NEW r, NEW t \in Loads, NEW c \in Callers, p[c] = "sleepUp",
         \A d \in Callers \ {c} : p[d] # "sleepUp", r[c].body \in Nat
  PROVE  SentOf(p, r, t) = [t EXCEPT ![r[c].sink] = @ - r[c].body]
<1>1. \A i \in Sinks : AsleepAt(p, r, i) = IF i = r[c].sink THEN {c} ELSE {}
  BY DEF AsleepAt
<1>2. BytesOf(r, {}) = 0
  BY SumEmpty DEF BytesOf
<1>3. BytesOf(r, {c}) = r[c].body
  <2>. DEFINE f == [d \in Callers |-> r[d].body]
  <2>1. f[c] = r[c].body /\ IsFiniteSet({}) /\ {} \cup {c} = {c}
    BY FS_EmptySet
  <2>. HIDE DEF f
  <2>2. SumFunctionOnSet(f, {} \cup {c}) = f[c] + SumFunctionOnSet(f, {})
    BY <2>1, SumAdded
  <2>3. SumFunctionOnSet(f, {c}) = r[c].body
    BY <2>1, <2>2, SumEmpty
  <2>. QED  BY <2>3 DEF f, BytesOf
<1>4. \A i \in Sinks : BytesOf(r, AsleepAt(p, r, i)) = IF i = r[c].sink THEN r[c].body ELSE 0
  BY <1>1, <1>2, <1>3
<1>. DEFINE s == r[c].sink  b == r[c].body
<1>5. [t EXCEPT ![s] = @ - b] = [i \in Sinks |-> IF i = s THEN t[i] - b ELSE t[i]]
  <2>1. b \in Nat
    OBVIOUS
  <2>. HIDE DEF s, b
  <2>2. Fewer(t, s, b) = [i \in Sinks |-> IF i = s THEN t[i] - b ELSE t[i]]
    BY <2>1, BackAndForth
  <2>. QED  BY <2>2 DEF Fewer
<1>6. \A i \in Sinks : t[i] \in Nat
  BY DEF Loads
<1>. QED  BY <1>4, <1>5, <1>6 DEF SentOf

(* Sent changes only when somebody goes to sleep or wakes up.              *)
LEMMA SentSame ==
  ASSUME Calls, Calls', routed' = routed,
         \A d \in Callers : /\ pc'[d] = "sleepUp" <=> pc[d] = "sleepUp"
                            /\ pc[d] = "sleepUp" => req'[d] = req[d]
  PROVE  Sent' = Sent
<1>1. CASE \A c \in Callers : pc[c] # "sleepUp"
  BY <1>1, SentIs, SentNone DEF Calls, Called
<1>2. ASSUME NEW c \in Callers, pc[c] = "sleepUp"  PROVE Sent' = Sent
  <2>1. \A d \in Callers \ {c} : pc[d] # "sleepUp" /\ pc'[d] # "sleepUp"
    BY <1>2 DEF Calls, Serial, Latency!Sleeping
  <2>2. req'[c] = req[c] /\ req[c].body \in Nat /\ pc'[c] = "sleepUp" /\ routed \in Loads
    BY <1>2 DEF Calls, Called
  <2>3. SentOf(pc, req, routed) = [routed EXCEPT ![req[c].sink] = @ - req[c].body]
    BY <1>2, <2>1, <2>2, SentOne
  <2>4. SentOf(pc', req', routed) = [routed EXCEPT ![req'[c].sink] = @ - req'[c].body]
    BY <2>1, <2>2, SentOne
  <2>. QED  BY <2>2, <2>3, <2>4, SentIs
<1>. QED  BY <1>1, <1>2

-----------------------------------------------------------------------------
(* The counters hold the bytes sent in this window, and of those returned  *)
(* at most as many: all of them, unless the policy is the latency one.     *)
Counted ==
  /\ cup \in Loads /\ cdw \in Loads /\ returned \in Loads
  /\ cup = Sent
  /\ \A i \in Sinks : cdw[i] <= returned[i]
  /\ policy # "latency" => cdw = returned

(* What a step of either policy may do.                                    *)
PolicySteps ==
  \/ \E draw \in 0..(Scale-1), body \in Bodies : Decides(Chosen(draw), body, Sent, Sent')
  \/ \E sink \in Sinks, body \in Nat, counted \in BOOLEAN :
       Credits(sink, body, counted, Sent, Sent')
  \/ Stutters(Sent, Sent')

(* Falling asleep: the bytes routed now are not yet sent.                  *)
LEMMA LockUpStutters ==
  ASSUME Calls, Calls', NEW c \in Callers, NEW draw \in 0..(Scale-1), Latency!LockUp(c, draw)
  PROVE  Stutters(Sent, Sent')
<1>. USE DEF Calls, Called
<1>. DEFINE s == Chosen(draw)  b == req[c].body
<1>1. /\ pc[c] = "lockUp" /\ plMutex = Nobody /\ pc' = [pc EXCEPT ![c] = "sleepUp"]
      /\ req' = [req EXCEPT ![c].sink = s] /\ routed' = [routed EXCEPT ![s] = @ + b]
      /\ UNCHANGED <<cup, cdw, started, b_up, b_down, b_up_i, b_down_i, returned, past>>
  BY Draws DEF Latency!LockUp, Latency!Lock, Latency!router, Latency!averages
<1>2. s \in Sinks /\ b \in Nat
  BY RoutingPolicyAssumption, ChosenIsSink
<1>3. (\A d \in Callers : pc[d] # "sleepUp") /\ \A d \in Callers \ {c} : pc'[d] # "sleepUp"
  BY <1>1, RoutingAssumption DEF Serial, Latency!Sleeping
<1>4. pc'[c] = "sleepUp" /\ req'[c].sink = s /\ req'[c].body = b
  BY <1>1
<1>5. Sent = routed
  BY <1>3, SentIs, SentNone
<1>6. Sent' = [routed' EXCEPT ![s] = @ - b]
  <2>. HIDE DEF s, b
  <2>. QED  BY <1>2, <1>3, <1>4, SentIs, SentOne
<1>7. [routed' EXCEPT ![s] = @ - b] = routed
  <2>. HIDE DEF s, b
  <2>1. [[routed EXCEPT ![s] = @ + b] EXCEPT ![s] = @ - b] = routed
    <3>1. routed \in Loads /\ b \in Nat
      BY <1>2
    <3>2. Fewer(More(routed, s, b), s, b) = routed
      BY <3>1, BackAndForth
    <3>. QED  BY <3>2 DEF More, Fewer
  <2>. QED  BY <1>1, <2>1
<1>. QED  BY <1>1, <1>5, <1>6, <1>7 DEF Stutters

(* Waking up: the bytes of the call are counted for the sink it drew       *)
(* before it slept (probabilityLatency.go:113), or go into the windows     *)
(* that are closed.                                                        *)
LEMMA WakeUpDecides ==
  ASSUME Calls, Calls', NEW c \in Callers, Latency!WakeUp(c)
  PROVE  Decides(req[c].sink, req[c].body, Sent, Sent')
<1>. USE DEF Calls, Called
<1>. DEFINE s == req[c].sink  b == req[c].body
<1>1. /\ pc[c] = "sleepUp" /\ pc' = [pc EXCEPT ![c] = "forwarded"] /\ req' = req
                               /\ started' = TRUE
      /\ s \in Sinks /\ b \in Nat
  BY DEF Latency!WakeUp, Latency!Return
<1>2. \A d \in Callers \ {c} : pc[d] # "sleepUp"
  BY <1>1 DEF Serial, Latency!Sleeping
<1>3. Sent = [routed EXCEPT ![s] = @ - b]
  <2>. HIDE DEF s, b
  <2>1. SentOf(pc, req, routed) = [routed EXCEPT ![req[c].sink] = @ - req[c].body]
    BY <1>1, <1>2, SentOne DEF s, b
  <2>. QED  BY <2>1, SentIs DEF s, b
<1>4. Sent' = routed'
  <2>1. (\A d \in Callers : pc'[d] # "sleepUp") /\ routed' \in Loads
    BY <1>1, <1>2
  <2>. QED  BY <2>1, SentIs, SentNone
<1>5. [Sent EXCEPT ![s] = @ + b] = routed
  <2>. HIDE DEF s, b
  <2>1. [[routed EXCEPT ![s] = @ - b] EXCEPT ![s] = @ + b] = routed
    <3>1. routed \in Loads /\ b \in Nat
      BY <1>1
    <3>2. More(Fewer(routed, s, b), s, b) = routed
      BY <3>1, BackAndForth
    <3>. QED  BY <3>2 DEF More, Fewer
  <2>. QED  BY <1>3, <2>1
<1>. HIDE DEF s, b
<1>6. CASE /\ cup' = [cup EXCEPT ![s] = @ + b]
           /\ UNCHANGED <<cdw, b_up, b_down, b_up_i, b_down_i, routed, returned, past>>
  BY <1>1, <1>4, <1>5, <1>6 DEF Decides, s, b
<1>7. CASE /\ started
           /\ Latency!PushAll([cup EXCEPT ![s] = @ + b], cdw)
           /\ cup' = Zeros /\ cdw' = Zeros /\ routed' = Zeros /\ returned' = Zeros
           /\ Remembers(routed, returned)
  <2>1. Pushes([cup EXCEPT ![s] = @ + b], cdw)
    BY <1>7, Names, Totals, Pushing DEF Latency!PushAll, Pushes
  <2>. QED  BY <1>1, <1>4, <1>5, <1>7, <2>1 DEF Decides, s, b
<1>. QED  BY <1>6, <1>7, Names DEF Latency!WakeUp, Latency!averages, Remembers, s, b

-----------------------------------------------------------------------------
(* Sums of loads.                                                          *)
LEMMA SumsAreNat ==
  ASSUME NEW t \in Loads
  PROVE  Total(t) \in Nat
<1>1. IsFiniteSet(Sinks)
  BY RoutingPolicyAssumption, FS_Interval DEF Sinks
<1>2. DOMAIN t = Sinks /\ \A i \in Sinks : t[i] \in Nat
  BY DEF Loads
<1>3. SumFunctionOnSet(t, Sinks) \in Nat
  BY <1>1, <1>2, SumNat
<1>. QED  BY <1>2, <1>3, Totals

LEMMA MoreTotal ==
  ASSUME NEW t \in Loads, NEW s \in Sinks, NEW b \in Nat
  PROVE  More(t, s, b) \in Loads /\ Total(More(t, s, b)) = Total(t) + b
<1>. DEFINE u == More(t, s, b)
<1>1. u \in Loads /\ u[s] = t[s] + b /\ \A i \in Sinks \ {s} : u[i] = t[i]
  BY DEF More, Loads
<1>. HIDE DEF u
<1>2. IsFiniteSet(Sinks)
  BY RoutingPolicyAssumption, FS_Interval DEF Sinks
<1>3. DOMAIN t = Sinks /\ DOMAIN u = Sinks /\ \A i \in Sinks : t[i] \in Int /\ u[i] \in Int
  BY <1>1 DEF Loads
<1>4. SumFunctionOnSet(u, Sinks) = SumFunctionOnSet(t, Sinks) + u[s] - t[s]
  BY <1>1, <1>2, <1>3, SumChanged
<1>5. SumFunctionOnSet(t, Sinks) \in Int
  BY <1>2, <1>3, SumType
<1>6. Total(u) = Total(t) + b
  BY <1>1, <1>3, <1>4, <1>5, Totals
<1>. QED  BY <1>1, <1>6 DEF u

LEMMA ZeroTotal == Zeros \in Loads /\ Total(Zeros) = 0
<1>1. IsFiniteSet(Sinks)
  BY RoutingPolicyAssumption, FS_Interval DEF Sinks
<1>2. DOMAIN Zeros = Sinks /\ \A i \in Sinks : Zeros[i] = 0
  BY DEF Zeros
<1>3. SumFunctionOnSet(Zeros, Sinks) = 0
  BY <1>1, <1>2, SumZero
<1>. QED  BY <1>2, <1>3, Totals DEF Loads, Zeros

-----------------------------------------------------------------------------
(* An answer is counted for the sink that returned it, or is not counted   *)
(* (probabilityLatency.go:154).                                            *)
LEMMA WakeDownCredits ==
  ASSUME Calls, Calls', policy = "latency", NEW c \in Callers, Latency!WakeDown(c)
  PROVE  PolicySteps
<1>. USE DEF Calls, Called
<1>. DEFINE counted == req[c].answer = "echoed"
<1>1. /\ pc[c] = "sleepDown" /\ pc' = [pc EXCEPT ![c] = "idle"] /\ routed' = routed
      /\ req' = [req EXCEPT ![c] = Latency!NoCall]
      /\ UNCHANGED <<cup, started, b_up, b_down, b_up_i, b_down_i, past>>
  BY DEF Latency!WakeDown, Latency!Return, Latency!averages
<1>2. req[c].sink \in Sinks /\ req[c].body \in Nat /\ counted \in BOOLEAN
  OBVIOUS
<1>3. Sent' = Sent
  <2>1. \A d \in Callers : /\ pc'[d] = "sleepUp" <=> pc[d] = "sleepUp"
                           /\ pc[d] = "sleepUp" => req'[d] = req[d]
    BY <1>1
  <2>. QED  BY <1>1, <2>1, SentSame
<1>4. CASE req[c].answer = "refused"
  <2>1. cdw' = cdw /\ returned' = returned
    BY <1>4 DEF Latency!WakeDown
  <2>. QED  BY <1>1, <1>3, <2>1 DEF Stutters, PolicySteps
<1>5. CASE req[c].answer # "refused"
  <2>1. /\ cdw' = IF counted THEN [cdw EXCEPT ![req[c].sink] = @ + req[c].body] ELSE cdw
        /\ returned' = [returned EXCEPT ![req[c].sink] = @ + req[c].body]
    BY <1>5 DEF Latency!WakeDown
  <2>2. Credits(req[c].sink, req[c].body, counted, Sent, Sent')
    BY <1>1, <1>3, <2>1 DEF Credits
  <2>. HIDE DEF counted
  <2>. QED  BY <1>2, <2>2 DEF PolicySteps
<1>. QED  BY <1>4, <1>5

(* Each step of a caller decides, credits or changes nothing.              *)
LEMMA CallerRefines ==
  ASSUME Calls, Calls', policy = "latency", NEW c \in Callers,
         \/ \E body \in Bodies : Latency!CallUp(c, body)
         \/ Latency!Unanswered(c)
         \/ \E answer \in Latency!Answers, body \in Bodies : Latency!CallDown(c, answer, body)
         \/ Latency!Step(c)
  PROVE  PolicySteps
<1>. USE DEF Calls, Called
<1>1. ASSUME /\ UNCHANGED <<cup, cdw, started, b_up, b_down, b_up_i, b_down_i, routed,
                 returned, past>>
             /\ pc[c] # "sleepUp" /\ pc'[c] # "sleepUp"
             /\ \A d \in Callers \ {c} : pc'[d] = pc[d] /\ req'[d] = req[d]
      PROVE  PolicySteps
  <2>1. Sent' = Sent
    BY <1>1, SentSame
  <2>. QED  BY <1>1, <2>1 DEF Stutters, PolicySteps
<1>2. CASE \E body \in Bodies : Latency!CallUp(c, body)
  BY <1>1, <1>2 DEF Latency!CallUp, Latency!router, Latency!averages
<1>3. CASE Latency!Unanswered(c)
  BY <1>1, <1>3 DEF Latency!Unanswered, Latency!router, Latency!averages
<1>4. CASE \E answer \in Latency!Answers, body \in Bodies : Latency!CallDown(c, answer, body)
  BY <1>1, <1>4 DEF Latency!CallDown, Latency!router, Latency!averages
<1>5. CASE \E draw \in 0..(Scale-1) : Latency!LockUp(c, draw)
  BY <1>5, LockUpStutters DEF PolicySteps
<1>6. CASE Latency!WakeUp(c)
  <2>1. Decides(req[c].sink, req[c].body, Sent, Sent')
    BY <1>6, WakeUpDecides
  <2>2. pc[c] = "sleepUp"
    BY <1>6 DEF Latency!WakeUp, Latency!Return
  <2>3. PICK draw \in 0..(Scale-1) : req[c].sink = Chosen(draw)
    BY <2>2 DEF Asked
  <2>4. req[c].body \in Bodies
    BY <2>2 DEF Asked
  <2>. QED  BY <2>1, <2>3, <2>4 DEF PolicySteps
<1>7. CASE Latency!LockDown(c)
  BY <1>1, <1>7 DEF Latency!LockDown, Latency!Lock, Latency!router, Latency!averages
<1>8. CASE Latency!WakeDown(c)
  BY <1>8, WakeDownCredits
<1>. QED  BY <1>2, <1>3, <1>4, <1>5, <1>6, <1>7, <1>8 DEF Latency!Step

(* And so is each step of the proxy, whichever its policy.                 *)
LEMMA NextRefines ==
  ASSUME Calls, Calls', [Next]_vars
  PROVE  PolicySteps
<1>. USE DEF Calls, Called
<1>1. CASE FixedStep
  <2>1. Sent' = Sent
    BY <1>1, SentSame DEF FixedStep, drawing, sleeping
  <2>. QED  BY <1>1, <2>1 DEF FixedStep, drawing, Stutters, PolicySteps
<1>2. CASE WeightedStep
  <2>1. \A c \in Callers : pc[c] # "sleepUp" /\ pc'[c] # "sleepUp"
    BY <1>2 DEF WeightedStep, Elsewhere, sleeping
  <2>2. Sent = routed /\ Sent' = routed'
    BY <2>1, SentIs, SentNone
  <2>3. CASE \E draw \in 0..(Scale-1), body \in Bodies : Weighted!Decision(draw, body)
    BY <2>2, <2>3, WeightedMeans DEF PolicySteps
  <2>4. CASE \E type \in {"Response", "QueueFull"}, source \in Sinks \cup {0}, body \in Bodies :
               Weighted!SetLastResponse(type, source, body)
    <3>. PICK type \in {"Response", "QueueFull"}, source \in Sinks \cup {0}, body \in Bodies :
               Weighted!SetLastResponse(type, source, body)
      BY <2>4
    <3>1. \/ source \in Sinks /\ Credits(source, body, TRUE, Sent, Sent')
          \/ Stutters(Sent, Sent')
      BY <2>2, WeightedMeans
    <3>2. body \in Nat
      BY RoutingPolicyAssumption
    <3>. QED  BY <3>1, <3>2 DEF PolicySteps
  <2>. QED  BY <1>2, <2>3, <2>4, Names DEF WeightedStep, Weighted!Next
<1>3. CASE LatencyStep
  BY <1>3, CallerRefines DEF LatencyStep, Latency!Next
<1>4. CASE UNCHANGED vars
  <2>1. Sent' = Sent
    BY <1>4, SentSame DEF vars, drawing, sleeping
  <2>. QED  BY <1>4, <2>1 DEF vars, drawing, Stutters, PolicySteps
<1>. QED  BY <1>1, <1>2, <1>3, <1>4 DEF Next

-----------------------------------------------------------------------------
(* A record of loads that is changed is one.                               *)
LEMMA CreditedIsLoad ==
  ASSUME NEW f \in Loads, NEW sink \in Sinks, NEW body \in Nat
  PROVE  [f EXCEPT ![sink] = @ + body] \in Loads
BY DEF Loads

(* The counters follow.                                                    *)
LEMMA NextCounted == Counted /\ PolicySteps /\ policy' = policy => Counted'
<1>. SUFFICES ASSUME Counted, PolicySteps, policy' = policy  PROVE Counted'
  OBVIOUS
<1>1. CASE \E draw \in 0..(Scale-1), body \in Bodies : Decides(Chosen(draw), body, Sent, Sent')
  <2>. PICK draw \in 0..(Scale-1), body \in Bodies : Decides(Chosen(draw), body, Sent, Sent')
    BY <1>1
  <2>1. Chosen(draw) \in Sinks /\ body \in Nat
    BY RoutingPolicyAssumption, ChosenIsSink
  <2>2. More(cup, Chosen(draw), body) \in Loads /\ Zeros \in Loads
        /\ \A i \in Sinks : Zeros[i] <= Zeros[i]
    BY <2>1, MoreTotal, ZeroTotal DEF Counted, Zeros
  <2>. QED  BY <2>2 DEF Counted, Decides, More
<1>2. ASSUME NEW sink \in Sinks, NEW body \in Nat, NEW counted \in BOOLEAN,
             Credits(sink, body, counted, Sent, Sent')
      PROVE  Counted'
  <2>1. cdw' \in Loads /\ returned' \in Loads
    BY <1>2, CreditedIsLoad DEF Counted, Credits
  <2>2. \A i \in Sinks : cdw[i] \in Nat /\ returned[i] \in Nat
    BY DEF Counted, Loads
  <2>3. \A i \in Sinks : /\ cdw'[i] \in {cdw[i], cdw[i] + IF i = sink THEN body ELSE 0}
                         /\ returned'[i] = returned[i] + IF i = sink THEN body ELSE 0
    BY <1>2, <2>2 DEF Counted, Credits, Loads
  <2>4. \A i \in Sinks : cdw'[i] <= returned'[i]
    BY <2>2, <2>3 DEF Counted
  <2>5. policy # "latency" => cdw' = returned'
    BY <1>2 DEF Counted, Credits
  <2>. QED  BY <1>2, <2>1, <2>4, <2>5 DEF Counted, Credits
<1>3. CASE Stutters(Sent, Sent')
  BY <1>3 DEF Counted, Stutters
<1>. QED  BY <1>1, <1>2, <1>3 DEF PolicySteps

LEMMA InitCounted == Init => Counted
<1>. SUFFICES ASSUME Init  PROVE Counted
  OBVIOUS
<1>1. /\ cup = Zeros /\ cdw = Zeros /\ routed = Zeros /\ returned = Zeros
      /\ \A c \in Callers : pc[c] = "idle"
  BY Names DEF Init, Latency!Init
<1>2. Sent = Zeros
  BY <1>1, SentIs, SentNone, ZeroTotal
<1>3. \A i \in Sinks : Zeros[i] <= Zeros[i]
  BY DEF Zeros
<1>. QED  BY <1>1, <1>2, <1>3, ZeroTotal DEF Counted

-----------------------------------------------------------------------------
(* The averages. What a ring holds is a column of the last windows.        *)
Windows == [routed : Loads, returned : Loads]

SinkUp(q, i) == [k \in 1..Len(q) |-> q[k].routed[i]]
SinkDown(q, i) == [k \in 1..Len(q) |-> q[k].returned[i]]
AllUp(q) == [k \in 1..Len(q) |-> Total(q[k].routed)]
AllDown(q) == [k \in 1..Len(q) |-> Total(q[k].returned)]

(* The rings hold the columns of the windows q. *)
Held(q) ==
  /\ \A i \in Sinks : /\ Holds(b_up_i[i], Len(q), SinkUp(q, i))
                      /\ Holds(b_down_i[i], Len(q), SinkDown(q, i))
  /\ Holds(b_up, Len(q), AllUp(q)) /\ Holds(b_down, Len(q), AllDown(q))

(* A window as it was counted, and as it was.                              *)
Within(e, f) ==
  /\ e.routed = f.routed
  /\ \A i \in Sinks : e.returned[i] <= f.returned[i]
  /\ policy # "latency" => e.returned = f.returned

Counts(q) ==
  q \in Seq(Windows) /\ Len(q) = Len(past) /\ \A k \in 1..Len(q) : Within(q[k], past[k])

Averaged ==
  /\ started \in BOOLEAN
  /\ past \in Seq(Windows) /\ Len(past) \in 0..TimeWindow
  /\ DOMAIN b_up_i = Sinks /\ DOMAIN b_down_i = Sinks
  /\ \E q : Counts(q) /\ Held(q)

(* The last windows are a queue that slides.                               *)
Queued(q, e, r) ==
  r = IF Len(Append(q, e)) > TimeWindow THEN Tail(Append(q, e)) ELSE Append(q, e)

LEMMA QueueSlides ==
  ASSUME NEW S, NEW q \in Seq(S), Len(q) \in 0..TimeWindow, NEW e \in S, NEW r, Queued(q, e, r)
  PROVE  /\ r \in Seq(S) /\ Len(r) = Next1(TimeWindow, Len(q)) /\ Len(r) \in 0..TimeWindow
         /\ Slides(TimeWindow, Len(q), q, e, r)
<1>0. TimeWindow \in Nat \ {0}
  BY RoutingPolicyAssumption
<1>. DEFINE all == Append(q, e)
<1>1. /\ all \in Seq(S) /\ Len(all) = Len(q) + 1 /\ all[Len(q) + 1] = e
      /\ \A k \in 1..Len(q) : all[k] = q[k]
  OBVIOUS
<1>. HIDE DEF all
<1>2. CASE Len(q) < TimeWindow
  <2>1. r = all
    BY <1>0, <1>1, <1>2 DEF Queued, all
  <2>. QED  BY <1>0, <1>1, <1>2, <2>1 DEF Next1, Slides
<1>3. CASE Len(q) = TimeWindow
  <2>1. r = Tail(all)
    BY <1>0, <1>1, <1>3 DEF Queued, all
  <2>2. r \in Seq(S) /\ Len(r) = Len(q) /\ \A k \in 1..Len(q) : r[k] = all[k+1]
    BY <1>0, <1>1, <1>3, <2>1
  <2>. QED  BY <1>0, <1>1, <1>3, <2>2 DEF Next1, Slides
<1>. QED  BY <1>0, <1>2, <1>3

(* If it slides, so does each of its columns.                              *)
LEMMA ColumnsSlide ==
  ASSUME NEW q \in Seq(Windows), Len(q) \in 0..TimeWindow, NEW e \in Windows,
         NEW r \in Seq(Windows), Len(r) = Next1(TimeWindow, Len(q)),
         Slides(TimeWindow, Len(q), q, e, r)
  PROVE  /\ \A i \in Sinks :
              /\ Slides(TimeWindow, Len(q), SinkUp(q, i), e.routed[i], SinkUp(r, i))
              /\ Slides(TimeWindow, Len(q), SinkDown(q, i), e.returned[i], SinkDown(r, i))
         /\ Slides(TimeWindow, Len(q), AllUp(q), Total(e.routed), AllUp(r))
         /\ Slides(TimeWindow, Len(q), AllDown(q), Total(e.returned), AllDown(r))
<1>1. ASSUME NEW f, NEW a, NEW b, Image(f, q, Len(q), a), Image(f, r, Len(r), b)
      PROVE  Slides(TimeWindow, Len(q), a, f[e], b)
  BY <1>1, RoutingPolicyAssumption, ImageSlides
<1>2. (\A k \in 1..Len(q) : q[k] \in Windows) /\ (\A k \in 1..Len(r) : r[k] \in Windows)
  OBVIOUS
<1>3. ASSUME NEW i \in Sinks
      PROVE  Slides(TimeWindow, Len(q), SinkUp(q, i), e.routed[i], SinkUp(r, i))
  <2>. DEFINE f == [x \in Windows |-> x.routed[i]]
  <2>1. Image(f, q, Len(q), SinkUp(q, i)) /\ Image(f, r, Len(r), SinkUp(r, i))
    BY <1>2 DEF Image, SinkUp
  <2>2. f[e] = e.routed[i]
    OBVIOUS
  <2>. HIDE DEF f
  <2>. QED  BY <1>1, <2>1, <2>2
<1>4. ASSUME NEW i \in Sinks
      PROVE  Slides(TimeWindow, Len(q), SinkDown(q, i), e.returned[i], SinkDown(r, i))
  <2>. DEFINE f == [x \in Windows |-> x.returned[i]]
  <2>1. Image(f, q, Len(q), SinkDown(q, i)) /\ Image(f, r, Len(r), SinkDown(r, i))
    BY <1>2 DEF Image, SinkDown
  <2>2. f[e] = e.returned[i]
    OBVIOUS
  <2>. HIDE DEF f
  <2>. QED  BY <1>1, <2>1, <2>2
<1>5. Slides(TimeWindow, Len(q), AllUp(q), Total(e.routed), AllUp(r))
  <2>. DEFINE f == [x \in Windows |-> Total(x.routed)]
  <2>1. Image(f, q, Len(q), AllUp(q)) /\ Image(f, r, Len(r), AllUp(r))
    BY <1>2 DEF Image, AllUp
  <2>2. f[e] = Total(e.routed)
    OBVIOUS
  <2>. HIDE DEF f
  <2>. QED  BY <1>1, <2>1, <2>2
<1>6. Slides(TimeWindow, Len(q), AllDown(q), Total(e.returned), AllDown(r))
  <2>. DEFINE f == [x \in Windows |-> Total(x.returned)]
  <2>1. Image(f, q, Len(q), AllDown(q)) /\ Image(f, r, Len(r), AllDown(r))
    BY <1>2 DEF Image, AllDown
  <2>2. f[e] = Total(e.returned)
    OBVIOUS
  <2>. HIDE DEF f
  <2>. QED  BY <1>1, <2>1, <2>2
<1>. QED  BY <1>3, <1>4, <1>5, <1>6

(* The entries of the columns are numbers of bytes.                        *)
LEMMA ColumnsAreNat ==
  ASSUME NEW q \in Seq(Windows)
  PROVE  \A k \in 1..Len(q) : /\ \A i \in Sinks : SinkUp(q, i)[k] \in Nat /\ SinkDown(q,
                                  i)[k] \in Nat
                              /\ AllUp(q)[k] \in Nat /\ AllDown(q)[k] \in Nat
<1>1. \A k \in 1..Len(q) : q[k].routed \in Loads /\ q[k].returned \in Loads
  <2>1. \A k \in 1..Len(q) : q[k] \in Windows
    OBVIOUS
  <2>. QED  BY <2>1 DEF Windows
<1>2. \A k \in 1..Len(q) : Total(q[k].routed) \in Nat /\ Total(q[k].returned) \in Nat
  BY <1>1, SumsAreNat
<1>. QED  BY <1>1, <1>2 DEF SinkUp, SinkDown, AllUp, AllDown, Loads

(* The averages, step by step.                                             *)
LEMMA InitAveraged == Init => Averaged
<1>. SUFFICES ASSUME Init  PROVE Averaged
  OBVIOUS
<1>1. /\ past = <<>> /\ started = FALSE
      /\ b_up = NewMavg(TimeWindow) /\ b_down = NewMavg(TimeWindow)
      /\ b_up_i = [i \in Sinks |-> NewMavg(TimeWindow)]
      /\ b_down_i = [i \in Sinks |-> NewMavg(TimeWindow)]
  BY Names DEF Init, Weighted!Init, Weighted!NewMavg, NewMavg
<1>2. past \in Seq(Windows) /\ Len(past) = 0
  BY <1>1
<1>3. \A w : Holds(NewMavg(TimeWindow), Len(past), w)
  BY <1>2, NewHolds
<1>4. /\ Held(past) /\ Counts(past)
      /\ DOMAIN b_up_i = Sinks /\ DOMAIN b_down_i = Sinks
  BY <1>1, <1>2, <1>3 DEF Held, Counts
<1>5. Len(past) \in 0..TimeWindow
  <2>1. 0 \in 0..TimeWindow
    BY RoutingPolicyAssumption
  <2>. QED  BY <1>2, <2>1
<1>6. started \in BOOLEAN
  BY <1>1
<1>. QED  BY <1>2, <1>4, <1>5, <1>6 DEF Averaged

(* What is in a window as it was counted was in it, when both have slid.   *)
LEMMA WithinSlides ==
  ASSUME NEW n \in Nat, n <= TimeWindow, NEW q, NEW p, \A k \in 1..n : Within(q[k], p[k]),
         NEW e, NEW f, Within(e, f), NEW r, NEW t,
         Slides(TimeWindow, n, q, e, r), Slides(TimeWindow, n, p, f, t)
  PROVE  \A k \in 1..Next1(TimeWindow, n) : Within(r[k], t[k])
<1>0. TimeWindow \in Nat \ {0}
  BY RoutingPolicyAssumption
<1>1. CASE n < TimeWindow
  <2>1. \A k \in 1..(n+1) : k = n + 1 \/ k \in 1..n
    OBVIOUS
  <2>2. /\ (\A k \in 1..n : r[k] = q[k]) /\ r[n+1] = e
        /\ (\A k \in 1..n : t[k] = p[k]) /\ t[n+1] = f
    BY <1>1 DEF Slides
  <2>3. \A k \in 1..(n+1) : Within(r[k], t[k])
    BY <2>1, <2>2, Zenon
  <2>. QED  BY <1>1, <2>3 DEF Next1
<1>2. CASE n = TimeWindow
  <2>1. \A k \in 1..n : k = n \/ (k \in 1..(n-1) /\ k + 1 \in 1..n)
    OBVIOUS
  <2>2. /\ (\A k \in 1..(n-1) : r[k] = q[k+1]) /\ r[n] = e
        /\ (\A k \in 1..(n-1) : t[k] = p[k+1]) /\ t[n] = f
    BY <1>0, <1>2 DEF Slides
  <2>3. \A k \in 1..n : Within(r[k], t[k])
    BY <2>1, <2>2, Zenon
  <2>. QED  BY <1>0, <1>2, <2>3 DEF Next1
<1>. QED  BY <1>0, <1>1, <1>2

(* All rings are pushed to at once, each what its column gains.            *)
LEMMA PushesAverage ==
  ASSUME Averaged, policy' = policy, started' = TRUE,
         NEW up \in Loads, NEW down \in Loads, NEW back \in Loads,
         Within([routed |-> up, returned |-> down], [routed |-> up, returned |-> back]),
         Pushes(up, down), Remembers(up, back)
  PROVE  Averaged'
<1>. DEFINE e == [routed |-> up, returned |-> down]  f == [routed |-> up, returned |-> back]
<1>1. /\ e \in Windows /\ e.routed = up /\ e.returned = down
      /\ f \in Windows /\ Within(e, f)
  BY DEF Windows
<1>2. Queued(past, f, past')
  BY DEF Remembers, Queued
<1>. HIDE DEF e, f
<1>. PICK q : Counts(q) /\ Held(q)
  BY DEF Averaged
<1>. DEFINE r == IF Len(Append(q, e)) > TimeWindow THEN Tail(Append(q, e)) ELSE Append(q, e)
<1>22. Queued(q, e, r)
  BY DEF Queued
<1>. HIDE DEF r
<1>3. /\ past \in Seq(Windows) /\ Len(past) \in 0..TimeWindow
      /\ q \in Seq(Windows) /\ Len(q) = Len(past) /\ Len(q) \in 0..TimeWindow
  BY DEF Averaged, Counts
<1>4. /\ past' \in Seq(Windows) /\ Len(past') = Next1(TimeWindow, Len(past))
      /\ Len(past') \in 0..TimeWindow
      /\ Slides(TimeWindow, Len(past), past, f, past')
  BY <1>1, <1>2, <1>3, QueueSlides
<1>44. /\ r \in Seq(Windows) /\ Len(r) = Next1(TimeWindow, Len(q))
       /\ Slides(TimeWindow, Len(q), q, e, r)
  BY <1>1, <1>22, <1>3, QueueSlides
<1>5. /\ \A i \in Sinks :
           /\ Slides(TimeWindow, Len(q), SinkUp(q, i), up[i], SinkUp(r, i))
           /\ Slides(TimeWindow, Len(q), SinkDown(q, i), down[i], SinkDown(r, i))
      /\ Slides(TimeWindow, Len(q), AllUp(q), Total(up), AllUp(r))
      /\ Slides(TimeWindow, Len(q), AllDown(q), Total(down), AllDown(r))
  BY <1>1, <1>3, <1>44, ColumnsSlide
<1>6. /\ \A i \in Sinks : up[i] \in Nat /\ down[i] \in Nat
      /\ Total(up) \in Nat /\ Total(down) \in Nat
  BY SumsAreNat DEF Loads
<1>7. ASSUME NEW i \in Sinks
      PROVE  /\ Holds(b_up_i'[i], Len(r), SinkUp(r, i))
             /\ Holds(b_down_i'[i], Len(r), SinkDown(r, i))
  <2>1. /\ b_up_i'[i] = Mavg_push(b_up_i[i], up[i])
        /\ b_down_i'[i] = Mavg_push(b_down_i[i], down[i])
    BY DEF Pushes
  <2>2. /\ \A k \in 1..Len(q) : SinkUp(q, i)[k] \in Nat
        /\ \A k \in 1..Len(q) : SinkDown(q, i)[k] \in Nat
    BY <1>3, ColumnsAreNat
  <2>3. /\ Holds(b_up_i[i], Len(q), SinkUp(q, i))
        /\ Holds(b_down_i[i], Len(q), SinkDown(q, i))
    BY DEF Held
  <2>4. Holds(Mavg_push(b_up_i[i], up[i]), Next1(TimeWindow, Len(q)), SinkUp(r, i))
    BY <1>3, <1>5, <1>6, <2>2, <2>3, PushHolds
  <2>5. Holds(Mavg_push(b_down_i[i], down[i]), Next1(TimeWindow, Len(q)), SinkDown(r, i))
    BY <1>3, <1>5, <1>6, <2>2, <2>3, PushHolds
  <2>. QED  BY <1>44, <2>1, <2>4, <2>5
<1>8. Holds(b_up', Len(r), AllUp(r)) /\ Holds(b_down', Len(r), AllDown(r))
  <2>1. b_up' = Mavg_push(b_up, Total(up)) /\ b_down' = Mavg_push(b_down, Total(down))
    BY DEF Pushes
  <2>2. /\ \A k \in 1..Len(q) : AllUp(q)[k] \in Nat
        /\ \A k \in 1..Len(q) : AllDown(q)[k] \in Nat
    BY <1>3, ColumnsAreNat
  <2>3. Holds(b_up, Len(q), AllUp(q)) /\ Holds(b_down, Len(q), AllDown(q))
    BY DEF Held
  <2>4. Holds(Mavg_push(b_up, Total(up)), Next1(TimeWindow, Len(q)), AllUp(r))
    BY <1>3, <1>5, <1>6, <2>2, <2>3, PushHolds
  <2>5. Holds(Mavg_push(b_down, Total(down)), Next1(TimeWindow, Len(q)), AllDown(r))
    BY <1>3, <1>5, <1>6, <2>2, <2>3, PushHolds
  <2>. QED  BY <1>44, <2>1, <2>4, <2>5
<1>9. DOMAIN b_up_i' = Sinks /\ DOMAIN b_down_i' = Sinks
  BY DEF Pushes
<1>10. \A k \in 1..Len(r) : Within(r[k], past'[k])
  <2>1. Len(q) \in Nat /\ Len(q) <= TimeWindow /\ \A k \in 1..Len(q) : Within(q[k], past[k])
    BY <1>3, RoutingPolicyAssumption DEF Counts
  <2>. QED  BY <1>1, <1>3, <1>4, <1>44, <2>1, WithinSlides
<1>11. Counts(r)'
  BY <1>3, <1>4, <1>44, <1>10 DEF Counts, Within
<1>12. Held(r)'
  BY <1>7, <1>8 DEF Held
<1>. QED  BY <1>4, <1>9, <1>11, <1>12 DEF Averaged

LEMMA NextAveraged == Counted /\ Averaged /\ PolicySteps /\ policy' = policy => Averaged'
<1>. SUFFICES ASSUME Counted, Averaged, PolicySteps, policy' = policy  PROVE Averaged'
  OBVIOUS
<1>0. ASSUME UNCHANGED <<b_up, b_down, b_up_i, b_down_i, past>>, started' \in BOOLEAN
      PROVE  Averaged'
  BY <1>0 DEF Averaged, Counts, Held, Within
<1>1. CASE \E draw \in 0..(Scale-1), body \in Bodies : Decides(Chosen(draw), body, Sent, Sent')
  <2>. PICK draw \in 0..(Scale-1), body \in Bodies : Decides(Chosen(draw), body, Sent, Sent')
    BY <1>1
  <2>1. CASE UNCHANGED <<b_up, b_down, b_up_i, b_down_i, past>>
    BY <1>0, <2>1 DEF Decides
  <2>2. CASE /\ Pushes([cup EXCEPT ![Chosen(draw)] = @ + body], cdw)
             /\ Remembers([Sent EXCEPT ![Chosen(draw)] = @ + body], returned)
    <3>. DEFINE up == More(cup, Chosen(draw), body)
    <3>0. Chosen(draw) \in Sinks /\ body \in Nat
      BY RoutingPolicyAssumption, ChosenIsSink
    <3>1. up \in Loads /\ cdw \in Loads /\ returned \in Loads
      BY <3>0, MoreTotal DEF Counted
    <3>2. Pushes(up, cdw) /\ Remembers(up, returned) /\ started' = TRUE
      BY <2>2 DEF More, Counted, Decides
    <3>3. Within([routed |-> up, returned |-> cdw], [routed |-> up, returned |-> returned])
      BY DEF Counted, Within
    <3>. HIDE DEF up
    <3>. QED  BY <3>1, <3>2, <3>3, PushesAverage
  <2>. QED  BY <2>1, <2>2 DEF Decides
<1>2. CASE \E sink \in Sinks, body \in Nat, counted \in BOOLEAN :
             Credits(sink, body, counted, Sent, Sent')
  BY <1>0, <1>2 DEF Credits, Averaged
<1>3. CASE Stutters(Sent, Sent')
  BY <1>0, <1>3 DEF Stutters, Averaged
<1>. QED  BY <1>1, <1>2, <1>3 DEF PolicySteps

-----------------------------------------------------------------------------
(* The uplink of the weighted policy, as the latency policy implements it. *)
(* What is left of the windows are the requests in them.                   *)
Column(q) == [k \in 1..Len(q) |-> q[k].routed]

LEMMA ColumnQueued ==
  ASSUME NEW q \in Seq(Windows), NEW e \in Windows, NEW r, Queued(q, e, r)
  PROVE  Column(r) = LET all == Append(Column(q), e.routed)
                     IN IF Len(all) > TimeWindow THEN Tail(all) ELSE all
<1>. DEFINE all == Append(q, e)  col == Append(Column(q), e.routed)
<1>1. /\ all \in Seq(Windows) /\ Len(all) = Len(q) + 1 /\ all[Len(q) + 1] = e
      /\ \A k \in 1..Len(q) : all[k] = q[k]
  OBVIOUS
<1>2. Column(q) \in Seq(Loads) /\ Len(Column(q)) = Len(q)
  <2>1. \A k \in 1..Len(q) : q[k] \in Windows
    OBVIOUS
  <2>2. Column(q) \in [1..Len(q) -> Loads]
    BY <2>1 DEF Column, Windows
  <2>. QED  BY <2>2
<1>3. /\ col \in Seq(Loads) /\ Len(col) = Len(q) + 1 /\ col[Len(q) + 1] = e.routed
      /\ \A k \in 1..Len(q) : col[k] = q[k].routed
  BY <1>2 DEF Column, Windows
<1>. HIDE DEF all, col
<1>4. \A k \in 1..Len(all) : col[k] = all[k].routed
  BY <1>1, <1>3
<1>5. Len(q) \in Nat
  OBVIOUS
<1>6. CASE Len(all) > TimeWindow
  <2>1. r = Tail(all) /\ Len(r) = Len(q) /\ \A k \in 1..Len(q) : r[k] = all[k+1]
    BY <1>1, <1>5, <1>6 DEF Queued, all
  <2>2. /\ Tail(col) \in Seq(Loads) /\ Len(Tail(col)) = Len(q)
        /\ \A k \in 1..Len(q) : Tail(col)[k] = col[k+1]
    BY <1>3, <1>5
  <2>3. \A k \in 1..Len(q) : k + 1 \in 1..Len(all)
    BY <1>1, <1>5
  <2>4. Tail(col) = [k \in 1..Len(q) |-> r[k].routed]
    <3>1. \A k \in 1..Len(q) : Tail(col)[k] = r[k].routed
      BY <1>4, <2>1, <2>2, <2>3
    <3>. DEFINE rest == Tail(col)
    <3>2. rest \in Seq(Loads) /\ Len(rest) = Len(q)
      BY <2>2
    <3>. HIDE DEF rest
    <3>3. rest = [k \in 1..Len(q) |-> rest[k]]
      BY <3>2
    <3>. QED  BY <3>1, <3>3 DEF rest
  <2>. QED  BY <1>1, <1>3, <1>6, <2>1, <2>4 DEF Column, col
<1>7. CASE ~ (Len(all) > TimeWindow)
  <2>1. r = all
    BY <1>7 DEF Queued, all
  <2>2. col = [k \in 1..Len(all) |-> all[k].routed]
    BY <1>1, <1>3, <1>4
  <2>. QED  BY <1>1, <1>3, <1>7, <2>1, <2>2 DEF Column, col
<1>. QED  BY <1>6, <1>7

(* What the one action of that specification does.                         *)
DecidesUplink(sink, body, sent, after) ==
  LET all == Append(Column(past), [sent EXCEPT ![sink] = @ + body])
  IN /\ started' = TRUE
     /\ \/ /\ cup' = [cup EXCEPT ![sink] = @ + body]
           /\ after = [sent EXCEPT ![sink] = @ + body]
           /\ UNCHANGED <<b_up, b_up_i>> /\ Column(past') = Column(past)
        \/ /\ started
           /\ b_up' = Mavg_push(b_up, Total([cup EXCEPT ![sink] = @ + body]))
           /\ b_up_i' = [i \in Sinks |->
                           Mavg_push(b_up_i[i], [cup EXCEPT ![sink] = @ + body][i])]
           /\ cup' = Zeros /\ after = Zeros
           /\ Column(past') = IF Len(all) > TimeWindow THEN Tail(all) ELSE all

LEMMA UplinkMeans ==
  ASSUME NEW sink, NEW body
  PROVE  DecidesUplink(sink, body, Sent, Sent') <=> Latency!Policy!UplinkDecision(sink, body)
<1>1. /\ Latency!Policy!routedInPast = Column(past)
      /\ Latency!Policy!routedInPast' = Column(past')
  BY DEF Latency!Policy!routedInPast, Column
<1>. QED  BY <1>1, Names, Totals, Pushing
     DEF DecidesUplink, Latency!Policy!UplinkDecision, Sent

(* A request decided on is one decided on at once.                         *)
LEMMA StepsRefine ==
  ASSUME Counted, Averaged, PolicySteps
  PROVE  [Latency!Policy!UplinkNext]_(Latency!Policy!uplink)
<1>0. /\ Latency!Policy!routedInPast = Column(past)
      /\ Latency!Policy!routedInPast' = Column(past')
  BY DEF Latency!Policy!routedInPast, Column
<1>1. ASSUME UNCHANGED <<cup, started, b_up, b_up_i, Sent, past>>
      PROVE  UNCHANGED Latency!Policy!uplink
  BY <1>0, <1>1, Names DEF Latency!Policy!uplink, Sent
<1>2. CASE \E draw \in 0..(Scale-1), body \in Bodies : Decides(Chosen(draw), body, Sent, Sent')
  <2>. PICK draw \in 0..(Scale-1), body \in Bodies : Decides(Chosen(draw), body, Sent, Sent')
    BY <1>2
  <2>. DEFINE counted == [cup EXCEPT ![Chosen(draw)] = @ + body]
              sent == [Sent EXCEPT ![Chosen(draw)] = @ + body]
              all == Append(Column(past), sent)
  <2>0. Chosen(draw) \in Latency!Policy!Sinks /\ Chosen(draw) \in Sinks /\ body \in Nat
    BY RoutingPolicyAssumption, ChosenIsSink, Names
  <2>1. CASE /\ cup' = counted /\ Sent' = sent
             /\ UNCHANGED <<b_up, b_up_i, past>>
    <3>1. DecidesUplink(Chosen(draw), body, Sent, Sent')
      BY <2>1 DEF Decides, DecidesUplink
    <3>. QED  BY <2>0, <3>1, UplinkMeans DEF Latency!Policy!UplinkNext
  <2>2. CASE /\ started /\ Pushes(counted, cdw) /\ cup' = Zeros /\ Sent' = Zeros
             /\ Remembers(sent, returned)
    <3>1. sent \in Loads /\ returned \in Loads /\ past \in Seq(Windows)
      BY <2>0, CreditedIsLoad DEF Counted, Averaged
    <3>. DEFINE e == [routed |-> sent, returned |-> returned]
    <3>2. e \in Windows /\ e.routed = sent /\ Queued(past, e, past')
      BY <2>2, <3>1 DEF Windows, Queued, Remembers
    <3>3. Column(past') = IF Len(all) > TimeWindow THEN Tail(all) ELSE all
      <4>. HIDE DEF e, sent
      <4>. QED  BY <3>1, <3>2, ColumnQueued
    <3>4. DecidesUplink(Chosen(draw), body, Sent, Sent')
      BY <2>2, <3>3 DEF Decides, Pushes, DecidesUplink
    <3>. QED  BY <2>0, <3>4, UplinkMeans DEF Latency!Policy!UplinkNext
  <2>. QED  BY <2>1, <2>2 DEF Decides
<1>3. CASE \E sink \in Sinks, body \in Nat, counted \in BOOLEAN :
             Credits(sink, body, counted, Sent, Sent')
  BY <1>1, <1>3 DEF Credits
<1>4. CASE Stutters(Sent, Sent')
  BY <1>1, <1>4 DEF Stutters
<1>. QED  BY <1>2, <1>3, <1>4 DEF PolicySteps

LEMMA InitUplink == Init => Latency!Policy!UplinkInit
<1>. SUFFICES ASSUME Init  PROVE Latency!Policy!UplinkInit
  OBVIOUS
<1>1. routed = Zeros /\ (\A c \in Callers : pc[c] = "idle") /\ past = <<>>
  BY Names DEF Init, Latency!Init
<1>2. Sent = Zeros
  BY <1>1, SentIs, SentNone, ZeroTotal
<1>3. Latency!Policy!routedInPast = <<>>
  BY <1>1 DEF Latency!Policy!routedInPast
<1>. QED  BY <1>2, <1>3, Names DEF Init, Weighted!Init, Latency!Policy!UplinkInit, Sent, Zeros,
    Weighted!NewMavg, Latency!Policy!NewMavg

-----------------------------------------------------------------------------
(* What the rings hold says what the properties claim.                     *)
LEMMA RingsAreOK ==
  ASSUME NEW x \in Ring
  PROVE  Weighted!RingOK(x) /\ Latency!RingOK(x) /\ Fixed!RingOK(x)
<1>1. /\ x.vec \in Seq(Nat) /\ x.size = TimeWindow /\ Len(x.vec) <= x.size
      /\ x.begin \in 0..(x.size - 1) /\ x.end \in 0..x.size
  BY DEF Ring
<1>. QED  BY <1>1 DEF Weighted!RingOK, Latency!RingOK, Fixed!RingOK

(* By sink.                                                                *)
LEMMA CountedWindows == Counted /\ Averaged => WindowsAreSliding
<1>. SUFFICES ASSUME Counted, Averaged  PROVE WindowsAreSliding
  OBVIOUS
<1>. PICK q : Counts(q) /\ Held(q)
  BY DEF Averaged
<1>. DEFINE n == Len(past)
            Up(i) == [k \in 1..n |-> past[k].routed[i]]
            Down(i) == [k \in 1..n |-> past[k].returned[i]]
<1>1. cup = [i \in Latency!Sinks |-> routed[i] - Latency!Pending(i)]
  BY Names DEF Counted, Sent
<1>2. /\ n \in Nat /\ IsFiniteSet(1..n) /\ Len(q) = n
      /\ \A k \in 1..n : past[k] \in Windows /\ q[k] \in Windows /\ Within(q[k], past[k])
  <2>1. n \in Nat /\ past \in Seq(Windows) /\ q \in Seq(Windows) /\ Len(q) = n
    BY DEF Averaged, Counts
  <2>. HIDE DEF n
  <2>2. IsFiniteSet(1..n)
    BY <2>1, FS_Interval
  <2>. QED  BY <2>1, <2>2 DEF Counts, n
<1>. HIDE DEF n
<1>3. ASSUME NEW i \in Sinks
      PROVE  /\ Len(b_up_i[i].vec) = n /\ Len(b_down_i[i].vec) = n
             /\ b_up_i[i].sum = SumFunctionOnSet(Up(i), 1..n)
             /\ b_down_i[i].sum <= SumFunctionOnSet(Down(i), 1..n)
             /\ policy # "latency" => b_down_i[i].sum = SumFunctionOnSet(Down(i), 1..n)
  <2>1. /\ Holds(b_up_i[i], n, SinkUp(q, i)) /\ Holds(b_down_i[i], n, SinkDown(q, i))
    BY <1>2 DEF Held
  <2>2. SinkUp(q, i) = Up(i)
    BY <1>2 DEF SinkUp, Within
  <2>3. \A k \in 1..n : /\ SinkDown(q, i)[k] \in Nat /\ Down(i)[k] \in Nat
                        /\ SinkDown(q, i)[k] <= Down(i)[k]
    BY <1>2 DEF SinkDown, Within, Windows, Loads
  <2>4. SumFunctionOnSet(SinkDown(q, i), 1..n) <= SumFunctionOnSet(Down(i), 1..n)
    <3>. HIDE DEF Down
    <3>. QED  BY <1>2, <2>3, SumBelow
  <2>5. policy # "latency" => SinkDown(q, i) = Down(i)
    BY <1>2 DEF SinkDown, Within
  <2>. HIDE DEF Up, Down
  <2>. QED  BY <2>1, <2>2, <2>4, <2>5 DEF Holds
<1>4. \A i \in Sinks : /\ Latency!Policy!Over(Up(i)) = SumFunctionOnSet(Up(i), 1..n)
                       /\ Latency!Policy!Over(Down(i)) = SumFunctionOnSet(Down(i), 1..n)
                       /\ Weighted!Over(Down(i)) = SumFunctionOnSet(Down(i), 1..n)
  <2>1. \A i \in Sinks : DOMAIN Up(i) = 1..n /\ DOMAIN Down(i) = 1..n
    OBVIOUS
  <2>. HIDE DEF Up, Down
  <2>. QED  BY <2>1, Sums
<1>5. Latency!Policy!UplinkSlides
  BY <1>1, <1>3, <1>4, Names DEF Latency!Policy!UplinkSlides, n
<1>6. CASE policy = "latency"
  <2>1. Latency!DownlinkWithin
    BY <1>3, <1>4, Names DEF Latency!DownlinkWithin, Counted, n
  <2>. QED  BY <1>5, <1>6, <2>1 DEF WindowsAreSliding
<1>7. CASE policy # "latency"
  <2>1. Weighted!DownlinkSlides
    BY <1>3, <1>4, <1>7, Names DEF Weighted!DownlinkSlides, Counted, n
  <2>. QED  BY <1>5, <1>7, <2>1 DEF WindowsAreSliding
<1>. QED  BY <1>6, <1>7

(* Over all sinks: the ring of the totals adds up the rows of a table      *)
(* whose columns are held by the rings of the sinks.                       *)
Table(f, n) == \A k \in 1..n : f[k] \in Loads
RowTotals(f, a, n) == \A k \in 1..n : a[k] = Total(f[k])
SinkColumns(f, c, n) == \A i \in Sinks : \A k \in 1..n : c[i][k] = f[k][i]
HoldColumns(xs, c, n) == \A i \in Sinks : Holds(xs[i], n, c[i])

(* So both add up to the same.                                             *)
LEMMA Sideways ==
  ASSUME NEW n \in Nat, NEW f, Table(f, n), NEW x, NEW a, Holds(x, n, a), RowTotals(f, a, n),
         NEW xs, NEW c, HoldColumns(xs, c, n), SinkColumns(f, c, n)
  PROVE  x.sum = Total([i \in Sinks |-> xs[i].sum])
<1>. DEFINE b == [i \in Sinks |-> xs[i].sum]
<1>1. IsFiniteSet(Sinks)
  BY RoutingPolicyAssumption, FS_Interval DEF Sinks
<1>2. ColumnsOf(f, c, n, Sinks)
  BY DEF ColumnsOf, Loads, Table, SinkColumns
<1>3. RowSums(f, a, n, Sinks)
  <2>1. \A k \in 1..n : DOMAIN f[k] = Sinks
    BY DEF Loads, Table
  <2>. QED  BY <2>1, Totals DEF RowTotals, RowSums
<1>4. ColumnSums(c, b, n, Sinks)
  BY DEF ColumnSums, Holds, HoldColumns
<1>5. DOMAIN b = Sinks
  OBVIOUS
<1>. HIDE DEF b
<1>6. SumFunctionOnSet(a, 1..n) = SumFunctionOnSet(b, Sinks)
  BY <1>1, <1>2, <1>3, <1>4, SumSwapped
<1>7. Total(b) = SumFunctionOnSet(b, Sinks)
  BY <1>5, Totals
<1>. QED  BY <1>6, <1>7 DEF Holds, b

(* Hence for up and for down.                                              *)
LEMMA AveragedTotals == Averaged => TotalsAgree
<1>. SUFFICES ASSUME Averaged  PROVE TotalsAgree
  OBVIOUS
<1>. PICK q : Counts(q) /\ Held(q)
  BY DEF Averaged
<1>. DEFINE n == Len(q)
            up == [k \in 1..n |-> q[k].routed]
            down == [k \in 1..n |-> q[k].returned]
            ups == [i \in Sinks |-> SinkUp(q, i)]
            downs == [i \in Sinks |-> SinkDown(q, i)]
<1>1. n \in Nat /\ \A k \in 1..n : q[k] \in Windows
  BY DEF Counts
<1>2. Table(up, n) /\ Table(down, n)
  BY <1>1 DEF Windows, Table
<1>3. RowTotals(up, AllUp(q), n) /\ RowTotals(down, AllDown(q), n)
  BY DEF AllUp, AllDown, RowTotals
<1>4. HoldColumns(b_up_i, ups, n) /\ HoldColumns(b_down_i, downs, n)
  BY DEF Held, HoldColumns
<1>5. SinkColumns(up, ups, n) /\ SinkColumns(down, downs, n)
  BY DEF SinkUp, SinkDown, SinkColumns
<1>6. Holds(b_up, n, AllUp(q)) /\ Holds(b_down, n, AllDown(q))
  BY DEF Held
<1>. HIDE DEF n, up, down, ups, downs
<1>7. b_up.sum = Total([i \in Sinks |-> b_up_i[i].sum])
  BY <1>1, <1>2, <1>3, <1>4, <1>5, <1>6, Sideways
<1>8. b_down.sum = Total([i \in Sinks |-> b_down_i[i].sum])
  BY <1>1, <1>2, <1>3, <1>4, <1>5, <1>6, Sideways
<1>. QED  BY <1>7, <1>8, Names, Totals DEF TotalsAgree, Weighted!TotalsAgree

(* The type invariants of the drawing policies.                            *)
LEMMA PolicyTypes == Calls /\ Counted /\ Averaged => Weighted!TypeOK /\ Latency!TypeOK
<1>. SUFFICES ASSUME Calls, Counted, Averaged  PROVE Weighted!TypeOK /\ Latency!TypeOK
  OBVIOUS
<1>1. /\ b_up \in Ring /\ b_down \in Ring
      /\ \A i \in Sinks : b_up_i[i] \in Ring /\ b_down_i[i] \in Ring
  BY DEF Averaged, Held, Holds
<1>2. \A x \in Weighted!Rings : Weighted!RingOK(x)
  BY <1>1, RingsAreOK, Names DEF Weighted!Rings
<1>3. \A x \in Latency!Rings : Latency!RingOK(x)
  BY <1>1, RingsAreOK, Names DEF Latency!Rings
<1>. QED  BY <1>2, <1>3, Names DEF Weighted!TypeOK, Latency!TypeOK, Calls, Called,
    Counted, Averaged, Loads

-----------------------------------------------------------------------------
(* The fixed policy.                                                       *)
Volumes == [up : Nat, down : Nat]
Ups(q) == [k \in 1..Len(q) |-> q[k].up]
Downs(q) == [k \in 1..Len(q) |-> q[k].down]

Kept ==
  /\ cu \in Nat /\ cd \in Nat /\ stim \in BOOLEAN
  /\ now \in Volumes
  /\ recent \in Seq(Volumes) /\ Len(recent) \in 0..TimeWindow

(* The moving average x has an entry for each of n windows, and no entry   *)
(* less than the bytes u of its window.                                    *)
AtLeast(n, w, u) == \A k \in 1..n : w[k] \in Nat /\ w[k] >= u[k]
Covers(x, n, u) == \E w : Holds(x, n, w) /\ AtLeast(n, w, u)

Carried ==
  /\ Covers(b_u, Len(recent), Ups(recent)) /\ Covers(b_d, Len(recent), Downs(recent))
  /\ cu >= now.up /\ cd >= now.down

(* A queue with one entry more can always be given.                        *)
LEMMA SlidesTo ==
  ASSUME NEW n \in 0..TimeWindow, NEW w, NEW y
  PROVE  \E v : Slides(TimeWindow, n, w, y, v)
<1>. DEFINE grown == [k \in 1..(n+1) |-> IF k = n + 1 THEN y ELSE w[k]]
            slid == [k \in 1..n |-> IF k = n THEN y ELSE w[k+1]]
<1>0. TimeWindow \in Nat \ {0} /\ n \in Nat
  BY RoutingPolicyAssumption
<1>1. CASE n < TimeWindow
  <2>1. Slides(TimeWindow, n, w, y, grown)
    BY <1>0, <1>1 DEF Slides
  <2>. QED  BY <2>1
<1>2. CASE ~ (n < TimeWindow)
  <2>1. Slides(TimeWindow, n, w, y, slid)
    BY <1>0, <1>2 DEF Slides
  <2>. QED  BY <2>1
<1>. QED  BY <1>1, <1>2

(* A push of no less than a window carried keeps a moving average that     *)
(* covers the windows one that does.                                       *)
LEMMA PushCovers ==
  ASSUME NEW n \in 0..TimeWindow, NEW x, NEW u, Covers(x, n, u),
         NEW y \in Nat, NEW b \in Nat, y >= b, NEW s, Slides(TimeWindow, n, u, b, s)
  PROVE  Covers(Mavg_push(x, y), Next1(TimeWindow, n), s)
<1>0. TimeWindow \in Nat \ {0} /\ n \in Nat /\ n <= TimeWindow
  BY RoutingPolicyAssumption
<1>. PICK w : Holds(x, n, w) /\ AtLeast(n, w, u)
  BY DEF Covers
<1>. PICK v : Slides(TimeWindow, n, w, y, v)
  BY SlidesTo
<1>1. \A k \in 1..n : w[k] \in Nat /\ w[k] >= u[k]
  BY DEF AtLeast
<1>2. Holds(Mavg_push(x, y), Next1(TimeWindow, n), v)
  BY <1>1, PushHolds
<1>3. CASE n < TimeWindow
  <2>1. /\ (\A k \in 1..n : v[k] = w[k]) /\ v[n+1] = y
        /\ (\A k \in 1..n : s[k] = u[k]) /\ s[n+1] = b
    BY <1>3 DEF Slides
  <2>2. \A k \in 1..(n+1) : k = n + 1 \/ k \in 1..n
    BY <1>0
  <2>3. AtLeast(n + 1, v, s)
    BY <1>1, <2>1, <2>2 DEF AtLeast
  <2>. QED  BY <1>2, <1>3, <2>3 DEF Covers, Next1
<1>4. CASE n = TimeWindow
  <2>1. /\ (\A k \in 1..(n-1) : v[k] = w[k+1]) /\ v[n] = y
        /\ (\A k \in 1..(n-1) : s[k] = u[k+1]) /\ s[n] = b
    BY <1>0, <1>4 DEF Slides
  <2>2. \A k \in 1..n : k = n \/ (k \in 1..(n-1) /\ k + 1 \in 1..n)
    BY <1>0
  <2>3. AtLeast(n, v, s)
    BY <1>1, <2>1, <2>2 DEF AtLeast
  <2>4. Next1(TimeWindow, n) = n
    BY <1>0, <1>4 DEF Next1
  <2>. QED  BY <1>2, <2>3, <2>4 DEF Covers
<1>. QED  BY <1>0, <1>3, <1>4

(* The columns of the windows slide with them.                             *)
LEMMA VolumesSlide ==
  ASSUME NEW q \in Seq(Volumes), Len(q) \in 0..TimeWindow, NEW e \in Volumes,
         NEW r \in Seq(Volumes), Len(r) = Next1(TimeWindow, Len(q)),
         Slides(TimeWindow, Len(q), q, e, r)
  PROVE  /\ Slides(TimeWindow, Len(q), Ups(q), e.up, Ups(r))
         /\ Slides(TimeWindow, Len(q), Downs(q), e.down, Downs(r))
<1>1. ASSUME NEW f, NEW a, NEW b, Image(f, q, Len(q), a), Image(f, r, Len(r), b)
      PROVE  Slides(TimeWindow, Len(q), a, f[e], b)
  BY <1>1, RoutingPolicyAssumption, ImageSlides
<1>2. (\A k \in 1..Len(q) : q[k] \in Volumes) /\ (\A k \in 1..Len(r) : r[k] \in Volumes)
  OBVIOUS
<1>3. Slides(TimeWindow, Len(q), Ups(q), e.up, Ups(r))
  <2>. DEFINE f == [x \in Volumes |-> x.up]
  <2>1. Image(f, q, Len(q), Ups(q)) /\ Image(f, r, Len(r), Ups(r))
    BY <1>2 DEF Image, Ups
  <2>2. f[e] = e.up
    OBVIOUS
  <2>. HIDE DEF f
  <2>. QED  BY <1>1, <2>1, <2>2
<1>4. Slides(TimeWindow, Len(q), Downs(q), e.down, Downs(r))
  <2>. DEFINE f == [x \in Volumes |-> x.down]
  <2>1. Image(f, q, Len(q), Downs(q)) /\ Image(f, r, Len(r), Downs(r))
    BY <1>2 DEF Image, Downs
  <2>2. f[e] = e.down
    OBVIOUS
  <2>. HIDE DEF f
  <2>. QED  BY <1>1, <2>1, <2>2
<1>. QED  BY <1>3, <1>4

-----------------------------------------------------------------------------
(* The entries of its columns.                                             *)
LEMMA VolumesAreNat ==
  ASSUME NEW q \in Seq(Volumes)
  PROVE  \A k \in 1..Len(q) : Ups(q)[k] \in Nat /\ Downs(q)[k] \in Nat
<1>1. \A k \in 1..Len(q) : q[k] \in Volumes
  OBVIOUS
<1>. QED  BY <1>1 DEF Ups, Downs, Volumes

(* The fixed policy, step by step.                                         *)
LEMMA InitCarried == Init => Kept /\ Carried
<1>. SUFFICES ASSUME Init  PROVE Kept /\ Carried
  OBVIOUS
<1>1. /\ cu = 0 /\ cd = 0 /\ stim = FALSE
      /\ b_u = NewMavg(TimeWindow) /\ b_d = NewMavg(TimeWindow)
      /\ now = [up |-> 0, down |-> 0] /\ recent = <<>>
  BY DEF Init, Fixed!Init, Fixed!NoBytes, Fixed!NewMavg, NewMavg
<1>2. recent \in Seq(Volumes) /\ Len(recent) = 0 /\ 0 \in 0..TimeWindow
  BY <1>1, RoutingPolicyAssumption
<1>3. now \in Volumes
  BY <1>1 DEF Volumes
<1>4. Kept
  BY <1>1, <1>2, <1>3 DEF Kept
<1>5. \A x, u : x = NewMavg(TimeWindow) => Covers(x, Len(recent), u)
  <2>1. \A w, u : AtLeast(0, w, u)
    BY DEF AtLeast
  <2>. QED  BY <1>2, <2>1, NewHolds DEF Covers
<1>6. Carried
  BY <1>1, <1>5 DEF Carried
<1>. QED  BY <1>4, <1>6

(* A window is closed: the counters, which are pushed, hold at least what  *)
(* it carried (fixed.go:62-63).                                            *)
LEMMA ClosingCarries ==
  ASSUME Kept, Carried, NEW body \in Nat, NEW e, e = [up |-> now.up + body, down |-> now.down],
         cu' = cu + body, cd' = cd, stim' = TRUE,
         b_u' = Mavg_push(b_u, cu + body), b_d' = Mavg_push(b_d, cd),
         now' = [up |-> 0, down |-> 0], Queued(recent, e, recent')
  PROVE  Kept' /\ Carried'
<1>. DEFINE n == Len(recent)
<1>0. /\ n \in 0..TimeWindow /\ cu \in Nat /\ cd \in Nat /\ recent \in Seq(Volumes)
      /\ now.up \in Nat /\ now.down \in Nat
  BY DEF Kept, Volumes
<1>1. e \in Volumes /\ e.up = now.up + body /\ e.down = now.down
  BY <1>0 DEF Volumes
<1>2. /\ recent' \in Seq(Volumes) /\ Len(recent') = Next1(TimeWindow, n)
      /\ Len(recent') \in 0..TimeWindow
      /\ Slides(TimeWindow, n, recent, e, recent')
  BY <1>0, <1>1, QueueSlides
<1>3. /\ Slides(TimeWindow, n, Ups(recent), e.up, Ups(recent'))
      /\ Slides(TimeWindow, n, Downs(recent), e.down, Downs(recent'))
  BY <1>0, <1>1, <1>2, VolumesSlide
<1>4. Covers(b_u, n, Ups(recent)) /\ Covers(b_d, n, Downs(recent))
      /\ cu >= now.up /\ cd >= now.down
  BY DEF Carried
<1>. HIDE DEF n
<1>5. Covers(b_u', Next1(TimeWindow, n), Ups(recent'))
  <2>1. cu + body \in Nat /\ e.up \in Nat /\ cu + body >= e.up
    BY <1>0, <1>1, <1>4
  <2>. QED  BY <1>0, <1>3, <1>4, <2>1, PushCovers
<1>6. Covers(b_d', Next1(TimeWindow, n), Downs(recent'))
  <2>1. e.down \in Nat /\ cd >= e.down
    BY <1>0, <1>1, <1>4
  <2>. QED  BY <1>0, <1>3, <1>4, <2>1, PushCovers
<1>7. now' \in Volumes /\ now'.up = 0 /\ now'.down = 0
  BY DEF Volumes
<1>8. Kept'
  BY <1>0, <1>2, <1>7 DEF Kept
<1>9. Carried'
  BY <1>0, <1>2, <1>5, <1>6, <1>7 DEF Carried
<1>. QED  BY <1>8, <1>9

(* Bytes are counted, in this window and in all.                           *)
LEMMA CountingCarries ==
  ASSUME Kept, Carried, NEW a \in Nat, NEW b \in Nat,
         cu' = cu + a, cd' = cd + b, stim' \in BOOLEAN,
         now' = [up |-> now.up + a, down |-> now.down + b],
         UNCHANGED <<b_u, b_d, recent>>
  PROVE  Kept' /\ Carried'
<1>1. now.up \in Nat /\ now.down \in Nat
  BY DEF Kept, Volumes
<1>2. Kept'
  BY <1>1 DEF Kept, Volumes
<1>3. cu' >= now'.up /\ cd' >= now'.down
  BY <1>1 DEF Kept, Carried
<1>. QED  BY <1>2, <1>3 DEF Carried

(* Every step.                                                             *)
LEMMA NextCarried == Kept /\ Carried /\ [Next]_vars => Kept' /\ Carried'
<1>. SUFFICES ASSUME Kept, Carried, [Next]_vars  PROVE Kept' /\ Carried'
  OBVIOUS
<1>0. now \in Volumes /\ now = [up |-> now.up, down |-> now.down]
      /\ now.up \in Nat /\ now.down \in Nat /\ cu \in Nat /\ cd \in Nat
      /\ recent \in Seq(Volumes) /\ Bodies \cup {0} \subseteq Nat
  BY RoutingPolicyAssumption DEF Kept, Volumes
<1>1. ASSUME NEW body \in Bodies \cup {0}, Fixed!Decision(body)  PROVE Kept' /\ Carried'
  <2>. DEFINE e == [up |-> now.up + body, down |-> now.down]
  <2>1. body \in Nat /\ Fixed!Plus(now, [up |-> body, down |-> 0]) = e
    BY <1>0 DEF Fixed!Plus
  <2>2. cu' = cu + body /\ cd' = cd /\ stim' = TRUE
    BY <1>1 DEF Fixed!Decision
  <2>3. CASE now' = e /\ UNCHANGED <<b_u, b_d, recent>>
    <3>1. cd' = cd + 0 /\ now' = [up |-> now.up + body, down |-> now.down + 0]
      BY <1>0, <2>2, <2>3
    <3>. QED  BY <2>1, <2>2, <2>3, <3>1, CountingCarries
  <2>4. CASE /\ b_u' = Mavg_push(b_u, cu + body) /\ b_d' = Mavg_push(b_d, cd)
             /\ now' = [up |-> 0, down |-> 0]
             /\ recent' = IF Len(Append(recent, e)) > TimeWindow
                          THEN Tail(Append(recent, e)) ELSE Append(recent, e)
    <3>1. Queued(recent, e, recent')
      BY <2>4 DEF Queued
    <3>. HIDE DEF e
    <3>. QED  BY <2>1, <2>2, <2>4, <3>1, ClosingCarries DEF e
  <2>. HIDE DEF e
  <2>. QED  BY <1>1, <2>1, <2>2, <2>3, <2>4, Pushing DEF Fixed!Decision, Fixed!averages,
      Fixed!NoBytes
<1>2. ASSUME NEW type, NEW body \in Bodies \cup {0}, Fixed!SetLastResponse(type, body)
      PROVE  Kept' /\ Carried'
  <2>1. /\ body \in Nat /\ stim' \in BOOLEAN /\ cu' = cu + 0
        /\ UNCHANGED <<b_u, b_d, recent>>
    BY <1>0, <1>2 DEF Fixed!SetLastResponse, Fixed!averages, Kept
  <2>2. CASE type = "Response"
    <3>1. cd' = cd + body /\ now' = [up |-> now.up + 0, down |-> now.down + body]
      BY <1>2, <2>2 DEF Fixed!SetLastResponse, Fixed!Plus
    <3>. QED  BY <2>1, <3>1, CountingCarries
  <2>3. CASE type # "Response"
    <3>1. cd' = cd + 0 /\ now' = [up |-> now.up + 0, down |-> now.down + 0]
      BY <1>0, <1>2, <2>3 DEF Fixed!SetLastResponse
    <3>. QED  BY <2>1, <3>1, CountingCarries
  <2>. QED  BY <2>2, <2>3
<1>3. CASE UNCHANGED <<cu, cd, stim, b_u, b_d, now, recent>>
  BY <1>3 DEF Kept, Carried
<1>4. CASE FixedStep
  BY <1>1, <1>2, <1>4 DEF FixedStep, Fixed!Next
<1>5. CASE WeightedStep \/ LatencyStep
  BY <1>3, <1>5 DEF WeightedStep, LatencyStep, counting
<1>. QED  BY <1>3, <1>4, <1>5 DEF Next, vars, counting

(* What the rings hold says what the property claims.                      *)
LEMMA CoveringSum ==
  ASSUME NEW n \in Nat, NEW x, NEW u, Covers(x, n, u), \A k \in 1..n : u[k] \in Nat,
         DOMAIN u = 1..n
  PROVE  Len(x.vec) = n /\ x.sum >= SumFunctionOnSet(u, DOMAIN u)
<1>. PICK w : Holds(x, n, w) /\ AtLeast(n, w, u)
  BY DEF Covers
<1>0. IsFiniteSet(1..n)
  BY FS_Interval
<1>1. \A k \in 1..n : u[k] \in Nat /\ w[k] \in Nat /\ u[k] <= w[k]
  BY DEF AtLeast
<1>2. SumFunctionOnSet(u, 1..n) <= SumFunctionOnSet(w, 1..n)
  BY <1>0, <1>1, SumBelow
<1>3. SumFunctionOnSet(u, 1..n) \in Nat /\ SumFunctionOnSet(w, 1..n) \in Nat
  BY <1>0, <1>1, SumNat
<1>. QED  BY <1>2, <1>3 DEF Holds

LEMMA CarriedIsReported == Kept /\ Carried => NeverUnderreports
<1>. SUFFICES ASSUME Kept, Carried  PROVE NeverUnderreports
  OBVIOUS
<1>. DEFINE n == Len(recent)
<1>0. n \in Nat /\ DOMAIN recent = 1..n /\ recent \in Seq(Volumes)
  BY DEF Kept
<1>1. /\ Fixed!SentIn(recent) = SumFunctionOnSet(Ups(recent), DOMAIN Ups(recent))
      /\ Fixed!AnsweredIn(recent) = SumFunctionOnSet(Downs(recent), DOMAIN Downs(recent))
  <2>1. /\ [k \in DOMAIN recent |-> recent[k].up] = Ups(recent)
        /\ [k \in DOMAIN recent |-> recent[k].down] = Downs(recent)
    BY <1>0 DEF Ups, Downs
  <2>. QED  BY <2>1, Sums DEF Fixed!SentIn, Fixed!AnsweredIn
<1>2. /\ \A k \in 1..n : Ups(recent)[k] \in Nat
      /\ \A k \in 1..n : Downs(recent)[k] \in Nat
  BY <1>0, VolumesAreNat
<1>3. DOMAIN Ups(recent) = 1..n /\ DOMAIN Downs(recent) = 1..n
  BY DEF Ups, Downs
<1>4. Covers(b_u, n, Ups(recent)) /\ Covers(b_d, n, Downs(recent))
  BY DEF Carried
<1>5. /\ Len(b_u.vec) = n /\ b_u.sum >= Fixed!SentIn(recent)
      /\ Len(b_d.vec) = n /\ b_d.sum >= Fixed!AnsweredIn(recent)
  <2>. HIDE DEF n
  <2>. QED  BY <1>0, <1>1, <1>2, <1>3, <1>4, CoveringSum
<1>. QED  BY <1>5 DEF NeverUnderreports, Fixed!NeverUnderreports, Carried

(* The type invariant of the fixed policy.                                 *)
LEMMA FixedTypes == Kept /\ Carried => Fixed!TypeOK
<1>. SUFFICES ASSUME Kept, Carried  PROVE Fixed!TypeOK
  OBVIOUS
<1>1. b_u \in Ring /\ b_d \in Ring
  BY DEF Carried, Covers, Holds
<1>. QED  BY <1>1, RingsAreOK DEF Fixed!TypeOK, Kept

-----------------------------------------------------------------------------
(* The inductive invariant of the drawing policies, and that of the fixed  *)
(* one.                                                                    *)
Drawn == Calls /\ Counted /\ Averaged

LEMMA InitDrawn == Init => Drawn
BY InitCalls, InitCounted, InitAveraged DEF Drawn

LEMMA NextDrawn == Drawn /\ [Next]_vars
                     => Drawn' /\ [Latency!Policy!UplinkNext]_(Latency!Policy!uplink)
<1>. SUFFICES ASSUME Drawn, [Next]_vars
              PROVE  Drawn' /\ [Latency!Policy!UplinkNext]_(Latency!Policy!uplink)
  OBVIOUS
<1>1. Calls' /\ policy' = policy
  BY NextCalls DEF Drawn, Next, vars
<1>2. PolicySteps
  BY <1>1, NextRefines DEF Drawn
<1>3. Counted' /\ Averaged'
  BY <1>1, <1>2, NextCounted, NextAveraged DEF Drawn
<1>4. [Latency!Policy!UplinkNext]_(Latency!Policy!uplink)
  BY <1>2, StepsRefine DEF Drawn
<1>. QED  BY <1>1, <1>3, <1>4 DEF Drawn

LEMMA DrawnStays == Spec => []Drawn
BY InitDrawn, NextDrawn, PTL DEF Spec

LEMMA CarriedStays == Spec => [](Kept /\ Carried)
BY InitCarried, NextCarried, PTL DEF Spec

(* The type invariant of all three policies; in particular every index     *)
(* that Mavg_push computes stays inside its slice (util.go, Mavg_push).    *)
THEOREM RoutingTypeOK == Spec => []TypeOK
<1>1. Drawn /\ Kept /\ Carried => TypeOK
  BY PolicyTypes, FixedTypes DEF Drawn, TypeOK
<1>. QED  BY <1>1, DrawnStays, CarriedStays, PTL

(* However calls interleave and however long they sleep, the latency       *)
(* policy counts each request in the window and for the sink for which it  *)
(* was drawn, as the weighted policy does whose calls are atomic           *)
(* (probabilityLatency.go:98-113; probability.go:84-130), for every set of *)
(* callers, all probabilities and every capacity of the averages.  The     *)
(* initial states are the same, WakeUp is a decision of the uplink of the  *)
(* weighted policy, and no other step of a caller is a step of it.         *)
THEOREM RoutingImplementsUplink == Spec => ImplementsWeightedUplink
BY InitDrawn, InitUplink, NextDrawn, PTL
DEF Spec, ImplementsWeightedUplink, Latency!ImplementsWeightedUplink, Latency!Policy!UplinkSpec

(* Each sink's averages are over exactly the last TimeWindow windows, and  *)
(* every byte is counted in the window in which it was sent, for the sink  *)
(* that it was sent to (probability.go:84-145,                             *)
(* probabilityLatency.go:89-161), however often the rings have wrapped;    *)
(* but of the responses that reach the latency policy, some may be counted *)
(* nowhere.                                                                *)
THEOREM RoutingWindowsAreSliding == Spec => []WindowsAreSliding
<1>1. Drawn => WindowsAreSliding
  BY CountedWindows DEF Drawn
<1>. QED  BY <1>1, DrawnStays, PTL

(* The overall averages are the sums of the averages by sink               *)
(* (probability.go:107-116, probabilityLatency.go:121-131).                *)
THEOREM RoutingTotalsAgree == Spec => []TotalsAgree
<1>1. Drawn => TotalsAgree
  BY AveragedTotals DEF Drawn
<1>. QED  BY <1>1, DrawnStays, PTL

(* The averages of the fixed policy have an entry for each of the last     *)
(* TimeWindow windows, and never report less than these carried            *)
(* (fixed.go:55-63).                                                       *)
THEOREM FixedNeverUnderreports == Spec => []NeverUnderreports
BY CarriedIsReported, CarriedStays, PTL
=============================================================================
