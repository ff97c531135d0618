------------------------- MODULE ApplicationProofs -------------------------
(***************************************************************************)
(* Proofs about Application, for any number of goroutines, any             *)
(* configurations and any timeWindow.  Goroutines race in it: a value is   *)
(* read, and assigned when what it was read from has changed.  An          *)
(* invariant has to say what such a value still is, and what a goroutine   *)
(* that took a branch of Mavg_push may still rely on.                      *)
(***************************************************************************)
EXTENDS Application, Counting

(* The shared counters and the fields of bUp as the program can leave      *)
(* them.                                                                   *)
Memory == [rcv : Nat, snt : Nat, sntW : Nat, sum : Int, begin : 0..(TimeWindow - 1),
           vec : {v \in Seq(Nat) : Len(v) <= TimeWindow}]

(* The statements of the branch of Mavg_push that replaces an entry        *)
(* (util.go:361-367).                                                      *)
Replacing == {"replace", "slot", "advance"}
(* What replaces an entry sooner or later.                                 *)
Replaces(t) == \E k \in 1..Len(t) : t[k] \in Replacing

(* What a goroutine may be in the middle of: t are the statements that     *)
(* remain, r is what the first was evaluated to, if h; the ring m may      *)
(* since have grown, but not shrunk, unless w. A goroutine about to        *)
(* replace an entry has seen the ring full.                                *)
Fits(t, h, r, m, w) ==
  /\ h => t # <<>> /\ Head(t) \in DOMAIN Target
  /\ h /\ Head(t) \in Counters => r \in Nat
  /\ ~ w => /\ h /\ Head(t) = "append" => r \in 0..Len(m.vec)
            /\ h /\ Head(t) \in {"slot", "advance"} => r \in 0..(TimeWindow - 1)
            /\ Replaces(t) => Len(m.vec) = TimeWindow

(* Where a goroutine is.                                                   *)
Places == {"idle", "deciding", "waiting", "reporting", "spinning"}

(* The inductive invariant behind TypeOK. Nothing remains to be done       *)
(* outside of a callback.                                                  *)
Typed ==
  /\ config \in Configs /\ up \in BOOLEAN /\ stime \in BOOLEAN /\ wild \in BOOLEAN
  /\ where \in [Goroutines -> Places]
  /\ todo \in [Goroutines -> Seq(Statements)]
  /\ half \in [Goroutines -> BOOLEAN]
  /\ reg \in [Goroutines -> Int] /\ arg \in [Goroutines -> Nat]
  /\ mem \in Memory
  /\ \A g \in Goroutines : Fits(todo[g], half[g], reg[g], mem, wild)
  /\ \A g \in Goroutines : Busy(g) \/ todo[g] = <<>>

-----------------------------------------------------------------------------
(* What the assignments assign to.                                         *)
LEMMA Assignments ==
  /\ DOMAIN Target = {"countSnt", "countRcv", "carryRcv", "carrySnt", "reset",
                      "append", "first", "add", "replace", "slot", "advance"}
  /\ Target.countSnt = "sntW" /\ Target.countRcv = "rcv" /\ Target.carryRcv = "rcv"
  /\ Target.carrySnt = "snt" /\ Target.reset = "sntW"
  /\ Target.append = "vec" /\ Target.slot = "vec" /\ Target.advance = "begin"
  /\ Target.first = "sum" /\ Target.add = "sum" /\ Target.replace = "sum"
BY DEF Target

(* What a configuration says.                                              *)
LEMMA Configured ==
  ASSUME config \in Configs
  PROVE  config.resSize \in Nat /\ config.callers \in SUBSET Goroutines
BY ApplicationAssumption

(* What remains of a sequence of statements replaces only what it did      *)
(* before.                                                                 *)
LEMMA TailReplaces ==
  ASSUME NEW t \in Seq(Statements), t # <<>>
  PROVE  Tail(t) \in Seq(Statements) /\ (Replaces(Tail(t)) => Replaces(t))
<1>1. /\ Tail(t) \in Seq(Statements) /\ Len(Tail(t)) = Len(t) - 1
      /\ \A k \in 1..Len(Tail(t)) : Tail(t)[k] = t[k+1]
  OBVIOUS
<1>2. Len(t) \in Nat /\ \A k \in 1..Len(Tail(t)) : k + 1 \in 1..Len(t)
  BY <1>1
<1>. QED  BY <1>1, <1>2 DEF Replaces

(* So does one that is put before another.                                 *)
LEMMA JoinReplaces ==
  ASSUME NEW t \in Seq(Statements), NEW u \in Seq(Statements)
  PROVE  t \o u \in Seq(Statements) /\ (Replaces(t \o u) => Replaces(t) \/ Replaces(u))
<1>1. /\ t \o u \in Seq(Statements) /\ Len(t \o u) = Len(t) + Len(u)
      /\ \A k \in 1..Len(t) : (t \o u)[k] = t[k]
      /\ \A k \in (Len(t) + 1)..(Len(t) + Len(u)) : (t \o u)[k] = u[k - Len(t)]
  OBVIOUS
<1>2. Len(t) \in Nat /\ Len(u) \in Nat
  OBVIOUS
<1>3. ASSUME NEW k \in 1..Len(t \o u), (t \o u)[k] \in Replacing
      PROVE  Replaces(t) \/ Replaces(u)
  <2>1. CASE k \in 1..Len(t)
    BY <1>1, <1>3, <2>1 DEF Replaces
  <2>2. CASE k \in (Len(t) + 1)..(Len(t) + Len(u))
    <3>1. k - Len(t) \in 1..Len(u)
      BY <1>2, <2>2
    <3>. QED  BY <1>1, <1>3, <2>2, <3>1 DEF Replaces
  <2>. QED  BY <1>1, <1>2, <2>1, <2>2
<1>. QED  BY <1>1, <1>3 DEF Replaces

(* The sequences of statements that calls are made of.                     *)
LEMMA Pieces ==
  /\ \A t \in {<<>>, <<"countSnt", "body", "window">>, <<"body", "countRcv", "window">>,
               <<"countRcv">>, <<"countSnt">>, Closing,
               <<"append", "first">>, <<"append", "add">>} :
       t \in Seq(Statements) /\ ~ Replaces(t)
  /\ <<"replace", "slot", "advance">> \in Seq(Statements)
<1>1. Statements = {"countSnt", "countRcv", "carryRcv", "carrySnt", "reset", "append", "first",
                    "add", "replace", "slot", "advance", "body", "window", "push"}
  BY Assignments DEF Statements
<1>2. Closing = <<"push", "carryRcv", "carrySnt", "reset">>
  BY DEF Closing
<1>. QED  BY <1>1, <1>2 DEF Replaces, Replacing

(* Typed, step by step.                                                    *)
LEMMA InitTyped == Init => Typed
<1>. SUFFICES ASSUME Init  PROVE Typed
  OBVIOUS
<1>1. mem \in Memory
  BY ApplicationAssumption DEF Init, Memory
<1>2. <<>> \in Seq(Statements) /\ ~ Replaces(<<>>)
  BY Pieces
<1>3. \A g \in Goroutines : Fits(todo[g], half[g], reg[g], mem, wild)
  BY <1>2 DEF Init, Fits
<1>4. /\ todo \in [Goroutines -> Seq(Statements)]
      /\ where \in [Goroutines -> Places] /\ half \in [Goroutines -> BOOLEAN]
      /\ reg \in [Goroutines -> Int] /\ arg \in [Goroutines -> Nat]
  BY <1>2 DEF Init, Places
<1>5. config \in Configs /\ up \in BOOLEAN /\ stime \in BOOLEAN /\ wild \in BOOLEAN
  BY DEF Init
<1>6. \A g \in Goroutines : todo[g] = <<>>
  BY DEF Init
<1>. QED  BY <1>1, <1>3, <1>4, <1>5, <1>6 DEF Typed

(* A goroutine that does not move: other goroutines only let the ring      *)
(* grow.                                                                   *)
LEMMA StillFits ==
  ASSUME NEW t, NEW h, NEW r, NEW m \in Memory, NEW w \in BOOLEAN, Fits(t, h, r, m, w),
         NEW n \in Memory, NEW x \in BOOLEAN, w => x,
         ~ x => Len(n.vec) >= Len(m.vec)
  PROVE  Fits(t, h, r, n, x)
<1>1. /\ Len(m.vec) \in Nat /\ Len(n.vec) \in Nat /\ TimeWindow \in Nat
      /\ Len(m.vec) <= TimeWindow /\ Len(n.vec) <= TimeWindow
  BY ApplicationAssumption DEF Memory
<1>. QED  BY <1>1 DEF Fits

-----------------------------------------------------------------------------
(* A call goes on with statements t, and nothing is evaluated.             *)
LEMMA NewStatements ==
  ASSUME Typed, NEW g \in Goroutines, NEW t \in Seq(Statements), ~ half[g],
         Replaces(t) => wild \/ Len(mem.vec) = TimeWindow,
         todo' = [todo EXCEPT ![g] = t], where' \in [Goroutines -> Places],
         \A h \in Goroutines \ {g} : where'[h] = where[h], Busy(g)' \/ t = <<>>,
         arg' \in [Goroutines -> Nat], stime' \in BOOLEAN,
         UNCHANGED <<config, up, wild, half, reg, mem>>
  PROVE  Typed'
<1>1. \A h \in Goroutines : Fits(todo'[h], half[h], reg[h], mem, wild)
  BY DEF Typed, Fits
<1>2. \A h \in Goroutines : Busy(h)' \/ todo'[h] = <<>>
  BY DEF Typed, Busy
<1>. QED  BY <1>1, <1>2 DEF Typed

(* A call moves from one callback to the other, or the process ends.       *)
LEMMA StillTyped ==
  ASSUME Typed, up' \in BOOLEAN, where' \in [Goroutines -> Places],
         \A g \in Goroutines : Busy(g)' \/ todo[g] = <<>>,
         UNCHANGED <<config, todo, half, reg, arg, mem, stime, wild>>
  PROVE  Typed'
BY DEF Typed

(* The right side of a statement: on a ring whose length has not changed   *)
(* since the branch was taken, Mavg_push reads no entry outside it.        *)
LEMMA EvaluateTyped ==
  ASSUME Typed, NEW g \in Goroutines, NEW s \in DOMAIN Target, Evaluate(g, s)
  PROVE  Typed'
<1>. DEFINE r == IF s \in Counters THEN Counter(s) ELSE IF wild THEN 0 ELSE Ring(s, arg[g])
<1>0. /\ todo[g] # <<>> /\ Head(todo[g]) = s /\ half' = [half EXCEPT ![g] = TRUE]
      /\ reg' = [reg EXCEPT ![g] = r]
      /\ UNCHANGED <<config, up, where, todo, arg, mem, stime, wild>>
  BY DEF Evaluate, At, process, shared
<1>1. /\ mem.rcv \in Nat /\ mem.snt \in Nat /\ mem.sntW \in Nat /\ mem.sum \in Int
      /\ mem.begin \in 0..(TimeWindow - 1) /\ mem.vec \in Seq(Nat) /\ Len(mem.vec) <= TimeWindow
      /\ TimeWindow \in Nat \ {0} /\ config.resSize \in Nat /\ arg[g] \in Nat
  BY Configured, ApplicationAssumption DEF Typed, Memory
<1>2. s \in Counters => r \in Nat
  <2>. SUFFICES ASSUME s \in Counters  PROVE Counter(s) \in Nat
    OBVIOUS
  <2>1. \A i, j \in Nat : i + j \in Nat
    OBVIOUS
  <2>2. /\ mem.sntW + config.resSize \in Nat /\ mem.rcv + config.resSize \in Nat
        /\ mem.snt + mem.sntW \in Nat
    BY <1>1, <2>1, Zenon
  <2>. QED  BY <1>1, <2>2 DEF Counters, Counter
<1>3. ASSUME s \notin Counters, ~ wild
      PROVE  /\ r \in Int
             /\ s = "append" => r \in 0..Len(mem.vec)
             /\ s \in {"slot", "advance"} => r \in 0..(TimeWindow - 1)
  <2>0. r = Ring(s, arg[g])
    BY <1>3
  <2>1. s \in {"append", "first", "add", "replace", "slot", "advance"}
    BY <1>3, Assignments DEF Counters
  <2>2. Len(mem.vec) \in Nat
    BY <1>1
  <2>3. ASSUME s \in Replacing  PROVE Len(mem.vec) = TimeWindow
    <3>1. todo[g] \in Seq(Statements) /\ Fits(todo[g], half[g], reg[g], mem, wild)
      BY DEF Typed
    <3>2. 1 \in 1..Len(todo[g]) /\ todo[g][1] = s
      BY <1>0, <3>1
    <3>. QED  BY <1>3, <2>3, <3>1, <3>2 DEF Fits, Replaces
  <2>4. CASE s = "append"
    BY <2>0, <2>2, <2>4 DEF Ring
  <2>5. CASE s \in {"first", "add"}
    BY <1>1, <2>0, <2>5 DEF Ring
  <2>6. CASE s = "replace"
    <3>1. mem.begin + 1 \in 1..Len(mem.vec)
      BY <1>1, <2>3, <2>6 DEF Replacing
    <3>2. mem.vec[mem.begin + 1] \in Nat
      <4>1. \A v \in Seq(Nat) : \A k \in 1..Len(v) : v[k] \in Nat
        OBVIOUS
      <4>. QED  BY <1>1, <3>1, <4>1, Zenon
    <3>3. r = mem.sum - mem.vec[mem.begin + 1] + arg[g]
      BY <2>0, <2>6 DEF Ring
    <3>. DEFINE x == mem.vec[mem.begin + 1]  y == mem.sum  z == arg[g]
    <3>4. x \in Nat /\ y \in Int /\ z \in Nat
      BY <1>1, <3>2
    <3>. HIDE DEF r, x, y, z
    <3>5. r \in Int
      BY <3>3, <3>4 DEF x, y, z
    <3>. QED  BY <2>6, <3>5
  <2>7. CASE s = "slot"
    BY <1>1, <2>0, <2>7 DEF Ring
  <2>8. CASE s = "advance"
    <3>1. r = (mem.begin + 1) % TimeWindow
      BY <2>0, <2>3, <2>8 DEF Ring, After, Replacing
    <3>2. r \in 0..(TimeWindow - 1)
      <4>1. \A n \in Nat \ {0} : \A a \in Nat : a % n \in 0..(n - 1)
        OBVIOUS
      <4>2. mem.begin + 1 \in Nat
        BY <1>1
      <4>. HIDE DEF r
      <4>. QED  BY <1>1, <3>1, <4>1, <4>2, Zenon
    <3>. QED  BY <1>1, <2>8, <3>2
  <2>. QED  BY <2>1, <2>4, <2>5, <2>6, <2>7, <2>8
<1>4. r \in Int
  BY <1>2, <1>3
<1>. HIDE DEF r
<1>5. ASSUME NEW h \in Goroutines  PROVE Fits(todo[h], half'[h], reg'[h], mem, wild)
  <2>1. Fits(todo[h], half[h], reg[h], mem, wild)
    BY DEF Typed
  <2>2. CASE h = g
    <3>1. half'[h] = TRUE /\ reg'[h] = r
      BY <1>0, <2>2 DEF Typed
    <3>2. /\ s = "append" => s \notin Counters
          /\ s \in {"slot", "advance"} => s \notin Counters
      BY DEF Counters
    <3>. QED  BY <1>0, <1>2, <1>3, <2>1, <2>2, <3>1, <3>2 DEF Fits
  <2>3. CASE h # g
    BY <1>0, <2>1, <2>3 DEF Typed
  <2>. QED  BY <2>2, <2>3
<1>6. half' \in [Goroutines -> BOOLEAN] /\ reg' \in [Goroutines -> Int]
  BY <1>0, <1>4 DEF Typed
<1>. QED  BY <1>0, <1>5, <1>6 DEF Typed, Busy

(* The assignment: append may write where another goroutine has written    *)
(* meanwhile, and a slot of a full ring stays one.                         *)
LEMMA AssignTyped ==
  ASSUME Typed, NEW g \in Goroutines, NEW s \in DOMAIN Target, Assign(g, s)
  PROVE  Typed'
<1>0. /\ todo[g] # <<>> /\ Head(todo[g]) = s /\ half[g] /\ half' = [half EXCEPT ![g] = FALSE]
      /\ todo' = [todo EXCEPT ![g] = Tail(todo[g])] /\ reg' = [reg EXCEPT ![g] = 0]
      /\ wild' = (wild \/ Garbles(s, reg[g]))
      /\ UNCHANGED <<config, up, where, arg, stime>>
  BY DEF Assign, At, Goto, process
<1>1. /\ mem.rcv \in Nat /\ mem.snt \in Nat /\ mem.sntW \in Nat /\ mem.sum \in Int
      /\ mem.begin \in 0..(TimeWindow - 1) /\ mem.vec \in Seq(Nat) /\ Len(mem.vec) <= TimeWindow
      /\ TimeWindow \in Nat \ {0} /\ arg[g] \in Nat /\ reg[g] \in Int /\ Len(mem.vec) \in Nat
  BY ApplicationAssumption DEF Typed, Memory
<1>2. Fits(todo[g], TRUE, reg[g], mem, wild)
  BY <1>0 DEF Typed
<1>. DEFINE r == reg[g]
<1>3. wild' \in BOOLEAN /\ (wild => wild')
  BY <1>0 DEF Typed
<1>4. mem' \in Memory /\ (~ wild' => Len(mem'.vec) >= Len(mem.vec))
  <2>1. CASE s \in Counters
    <3>1. r \in Nat
      BY <1>0, <1>2, <2>1 DEF Fits
    <3>2. mem' = [mem EXCEPT ![Target[s]] = r] /\ Target[s] \in {"sntW", "rcv", "snt"}
      BY <2>1, Assignments DEF Assign, Counters
    <3>. HIDE DEF r
    <3>3. mem' \in Memory /\ mem'.vec = mem.vec
      BY <3>1, <3>2 DEF Memory, Typed
    <3>. QED  BY <1>1, <3>3
  <2>2. CASE s \notin Counters /\ wild'
    BY <1>1, <2>2 DEF Assign, Typed
  <2>3. CASE s \notin Counters /\ ~ wild' /\ s = "append"
    <3>1. r \in 0..Len(mem.vec) /\ r < TimeWindow /\ r + 1 >= Len(mem.vec)
      <4>1. r \in 0..Len(mem.vec)
        BY <1>0, <1>2, <2>3 DEF Fits
      <4>2. ~ (r >= TimeWindow) /\ ~ (r + 1 < Len(mem.vec))
        BY <1>0, <2>3 DEF Garbles
      <4>. DEFINE n == Len(mem.vec)
      <4>3. r \in 0..n /\ n \in Nat /\ ~ (r >= TimeWindow) /\ ~ (r + 1 < n)
        BY <1>1, <4>1, <4>2
      <4>. HIDE DEF n, r
      <4>4. r < TimeWindow /\ r + 1 >= n
        BY <1>1, <4>3
      <4>. QED  BY <4>1, <4>4 DEF n
    <3>. DEFINE v == Written(s, r, arg[g])
    <3>2. v = SubSeq(mem.vec, 1, r) \o <<arg[g]>>
      BY <2>3 DEF Written
    <3>3. SubSeq(mem.vec, 1, r) \in Seq(Nat) /\ Len(SubSeq(mem.vec, 1, r)) = r
      <4>1. \A u \in Seq(Nat) : \A k \in 0..Len(u) :
              SubSeq(u, 1, k) \in Seq(Nat) /\ Len(SubSeq(u, 1, k)) = k
        OBVIOUS
      <4>. QED  BY <1>1, <3>1, <4>1, Zenon
    <3>4. v \in Seq(Nat) /\ Len(v) = r + 1
      <4>1. <<arg[g]>> \in Seq(Nat) /\ Len(<<arg[g]>>) = 1
        <5>1. \A n \in Nat : <<n>> \in Seq(Nat) /\ Len(<<n>>) = 1
          OBVIOUS
        <5>. QED  BY <1>1, <5>1, Zenon
      <4>. HIDE DEF r, v
      <4>. QED  BY <3>2, <3>3, <4>1
    <3>5. mem' = [mem EXCEPT !.vec = v]
      BY <2>3, Assignments DEF Assign
    <3>. HIDE DEF r, v
    <3>6. v \in {u \in Seq(Nat) : Len(u) <= TimeWindow}
      BY <1>1, <3>1, <3>4
    <3>7. mem' \in Memory /\ mem'.vec = v
      BY <3>5, <3>6 DEF Memory, Typed
    <3>. QED  BY <1>1, <3>1, <3>4, <3>7
  <2>4. CASE s \notin Counters /\ ~ wild' /\ s = "slot"
    <3>. DEFINE v == Written(s, r, arg[g])
    <3>1. v = [mem.vec EXCEPT ![r + 1] = arg[g]]
      BY <2>4 DEF Written
    <3>2. v \in Seq(Nat) /\ Len(v) = Len(mem.vec)
      <4>. HIDE DEF r, v
      <4>1. mem.vec \in [1..Len(mem.vec) -> Nat]
        <5>1. \A u \in Seq(Nat) : u \in [1..Len(u) -> Nat]
          OBVIOUS
        <5>. QED  BY <1>1, <5>1, Zenon
      <4>2. v \in [1..Len(mem.vec) -> Nat]
        BY <1>1, <3>1, <4>1
      <4>3. \A n \in Nat : \A u \in [1..n -> Nat] : u \in Seq(Nat) /\ Len(u) = n
        OBVIOUS
      <4>. QED  BY <1>1, <4>2, <4>3, Zenon
    <3>3. mem' = [mem EXCEPT !.vec = v]
      BY <2>4, Assignments DEF Assign
    <3>. HIDE DEF r, v
    <3>4. v \in {u \in Seq(Nat) : Len(u) <= TimeWindow}
      BY <1>1, <3>2
    <3>5. mem' \in Memory /\ mem'.vec = v
      BY <3>3, <3>4 DEF Memory, Typed
    <3>. QED  BY <1>1, <3>2, <3>5
  <2>5. CASE s \notin Counters /\ ~ wild' /\ s \notin {"append", "slot"}
    <3>1. s \in {"first", "add", "replace", "advance"}
      BY <2>5, Assignments DEF Counters
    <3>2. mem' = [mem EXCEPT ![Target[s]] = r] /\ Target[s] \in {"sum", "begin"}
          /\ (Target[s] = "begin" => s = "advance")
      BY <2>5, <3>1, Assignments DEF Assign
    <3>3. s = "advance" => r \in 0..(TimeWindow - 1)
      BY <1>0, <1>2, <1>3, <2>5 DEF Fits, Typed
    <3>. HIDE DEF r
    <3>4. r \in Int
      BY <1>1 DEF r
    <3>5. mem' \in Memory /\ mem'.vec = mem.vec
      BY <3>2, <3>3, <3>4 DEF Memory, Typed
    <3>. QED  BY <1>1, <3>5
  <2>. QED  BY <2>1, <2>2, <2>3, <2>4, <2>5
<1>5. ASSUME NEW h \in Goroutines  PROVE Fits(todo'[h], half'[h], reg'[h], mem', wild')
  <2>1. Fits(todo[h], half[h], reg[h], mem', wild')
    <3>1. Fits(todo[h], half[h], reg[h], mem, wild) /\ mem \in Memory /\ wild \in BOOLEAN
      BY DEF Typed
    <3>. QED  BY <1>3, <1>4, <3>1, StillFits
  <2>2. CASE h = g
    <3>1. todo'[h] = Tail(todo[h]) /\ ~ half'[h]
      BY <1>0, <2>2 DEF Typed
    <3>2. Replaces(todo'[h]) => Replaces(todo[h])
      BY <1>0, <2>2, <3>1, TailReplaces DEF Typed
    <3>. QED  BY <2>1, <3>1, <3>2 DEF Fits
  <2>3. CASE h # g
    BY <1>0, <2>1, <2>3 DEF Typed
  <2>. QED  BY <2>2, <2>3
<1>6. /\ todo' \in [Goroutines -> Seq(Statements)] /\ half' \in [Goroutines -> BOOLEAN]
      /\ reg' \in [Goroutines -> Int]
  BY <1>0, TailReplaces DEF Typed
<1>7. \A h \in Goroutines : Busy(h)' \/ todo'[h] = <<>>
  <2>1. Busy(g)
    BY <1>0 DEF Typed
  <2>. QED  BY <1>0, <2>1 DEF Typed, Busy
<1>. QED  BY <1>0, <1>3, <1>4, <1>5, <1>6, <1>7 DEF Typed

-----------------------------------------------------------------------------
(* What is not an assignment is never half executed.                       *)
LEMMA NotHalf ==
  ASSUME Typed, NEW g \in Goroutines,
         todo[g] = <<>> \/ Head(todo[g]) \in {"body", "window", "push"}
  PROVE  half[g] = FALSE
<1>1. Fits(todo[g], half[g], reg[g], mem, wild) /\ half[g] \in BOOLEAN
  BY DEF Typed
<1>. QED  BY <1>1, Assignments DEF Fits

(* Every step of a goroutine.                                              *)
LEMMA StepTyped ==
  ASSUME Typed, NEW g \in Goroutines, Step(g)
  PROVE  Typed'
<1>0. todo[g] \in Seq(Statements) /\ where[g] \in Places
  BY DEF Typed
<1>1. CASE Decision(g)
  <2>. DEFINE t == IF IsClient THEN <<"countSnt", "body", "window">>
                               ELSE <<"body", "countRcv", "window">>
  <2>1. /\ todo[g] = <<>> /\ todo' = [todo EXCEPT ![g] = t]
        /\ where' = [where EXCEPT ![g] = "deciding"]
        /\ UNCHANGED <<config, up, half, reg, arg, mem, stime, wild>>
    BY <1>1 DEF Decision, Begin, Goto, Typed, Busy, process, shared
  <2>2. t \in Seq(Statements) /\ ~ Replaces(t)
    BY Pieces
  <2>. HIDE DEF t
  <2>3. ~ half[g]
    BY <2>1, NotHalf
  <2>4. /\ where' \in [Goroutines -> Places] /\ arg' \in [Goroutines -> Nat] /\ stime' \in BOOLEAN
        /\ (\A h \in Goroutines \ {g} : where'[h] = where[h]) /\ Busy(g)'
    BY <2>1 DEF Typed, Places, Busy
  <2>. QED  BY <2>1, <2>2, <2>3, <2>4, NewStatements
<1>2. CASE SetLastResponse(g)
  <2>. DEFINE t == IF IsClient THEN <<"countRcv">> ELSE <<"countSnt">>
  <2>1. /\ todo[g] = <<>> /\ todo' = [todo EXCEPT ![g] = t]
        /\ where' = [where EXCEPT ![g] = "reporting"]
        /\ UNCHANGED <<config, up, half, reg, arg, mem, stime, wild>>
    BY <1>2 DEF SetLastResponse, Begin, Goto, Typed, Busy, process, shared
  <2>2. t \in Seq(Statements) /\ ~ Replaces(t)
    BY Pieces
  <2>. HIDE DEF t
  <2>3. ~ half[g]
    BY <2>1, NotHalf
  <2>4. /\ where' \in [Goroutines -> Places] /\ arg' \in [Goroutines -> Nat] /\ stime' \in BOOLEAN
        /\ (\A h \in Goroutines \ {g} : where'[h] = where[h]) /\ Busy(g)'
    BY <2>1 DEF Typed, Places, Busy
  <2>. QED  BY <2>1, <2>2, <2>3, <2>4, NewStatements
<1>3. CASE Unanswered(g) \/ Return(g)
  <2>1. /\ todo[g] = <<>> /\ where' \in [Goroutines -> Places]
        /\ \A h \in Goroutines \ {g} : where'[h] = where[h]
        /\ UNCHANGED <<config, up, todo, half, reg, arg, mem, stime, wild>>
    BY <1>3 DEF Unanswered, Return, Typed, Busy, Places, process, shared
  <2>2. (\A h \in Goroutines : Busy(h)' \/ todo[h] = <<>>) /\ up' \in BOOLEAN
    BY <2>1 DEF Typed, Busy
  <2>. QED  BY <2>1, <2>2, StillTyped
<1>4. CASE Body(g)
  <2>1. todo[g] # <<>> /\ Head(todo[g]) = "body" /\ half[g] = FALSE
    BY <1>4, NotHalf DEF Body, At
  <2>2. CASE Panic
    <3>1. up' \in BOOLEAN /\ where' \in [Goroutines -> Places]
          /\ UNCHANGED <<config, where, todo, half, reg, arg, mem, stime, wild>>
      BY <2>2 DEF Panic, local, shared, Typed
    <3>2. \A h \in Goroutines : Busy(h)' \/ todo[h] = <<>>
      BY <3>1 DEF Typed, Busy
    <3>. QED  BY <3>1, <3>2, StillTyped
  <2>3. CASE /\ where' = [where EXCEPT ![g] = "spinning"]
             /\ Goto(g, <<>>)
             /\ UNCHANGED <<process, half, reg, arg, body, shared, history>>
    <3>1. <<>> \in Seq(Statements) /\ ~ Replaces(<<>>)
      BY Pieces
    <3>2. /\ todo' = [todo EXCEPT ![g] = <<>>]
          /\ UNCHANGED <<config, up, wild, half, reg, mem, arg, stime>>
      BY <2>3 DEF Goto, process, shared
    <3>3. /\ where' \in [Goroutines -> Places] /\ arg' \in [Goroutines -> Nat]
          /\ stime' \in BOOLEAN /\ \A h \in Goroutines \ {g} : where'[h] = where[h]
      BY <2>3, <3>2 DEF Typed, Places
    <3>. QED  BY <2>1, <3>1, <3>2, <3>3, NewStatements
  <2>4. CASE /\ Goto(g, Tail(todo[g]))
             /\ UNCHANGED <<process, where, half, reg, arg, shared, history>>
    <3>. DEFINE t == Tail(todo[g])
    <3>1. t \in Seq(Statements) /\ (Replaces(t) => wild \/ Len(mem.vec) = TimeWindow)
      BY <1>0, <2>1, TailReplaces DEF Typed, Fits
    <3>2. /\ todo' = [todo EXCEPT ![g] = t]
          /\ UNCHANGED <<config, up, where, wild, half, reg, mem, arg, stime>>
      BY <2>4 DEF Goto, process, shared
    <3>3. /\ where' \in [Goroutines -> Places] /\ arg' \in [Goroutines -> Nat]
          /\ stime' \in BOOLEAN /\ (\A h \in Goroutines \ {g} : where'[h] = where[h]) /\ Busy(g)'
      BY <2>1, <3>2 DEF Typed, Busy
    <3>. HIDE DEF t
    <3>. QED  BY <2>1, <3>1, <3>2, <3>3, NewStatements
  <2>. QED  BY <1>4, <2>2, <2>3, <2>4 DEF Body
<1>5. CASE Window(g)
  <2>1. todo[g] # <<>> /\ Head(todo[g]) = "window" /\ half[g] = FALSE
    BY <1>5, NotHalf DEF Window, At
  <2>2. PICK t \in {<<>>, Closing} : todo' = [todo EXCEPT ![g] = t] /\ stime' \in BOOLEAN
    BY <1>5 DEF Window, Goto, Typed
  <2>3. t \in Seq(Statements) /\ ~ Replaces(t)
    BY <2>2, Pieces
  <2>4. UNCHANGED <<config, up, where, wild, half, reg, mem, arg>>
    BY <1>5 DEF Window, process
  <2>5. /\ where' \in [Goroutines -> Places] /\ arg' \in [Goroutines -> Nat]
        /\ (\A h \in Goroutines \ {g} : where'[h] = where[h]) /\ Busy(g)'
    BY <2>1, <2>4 DEF Typed, Busy
  <2>. QED  BY <2>1, <2>2, <2>3, <2>4, <2>5, NewStatements
<1>6. CASE Push(g)
  <2>1. todo[g] # <<>> /\ Head(todo[g]) = "push" /\ half[g] = FALSE
    BY <1>6, NotHalf DEF Push, At
  <2>. DEFINE p == IF mem.vec = <<>> THEN <<"append", "first">>
                   ELSE IF Len(mem.vec) < TimeWindow THEN <<"append", "add">>
                   ELSE <<"replace", "slot", "advance">>
              u == Tail(todo[g])
              t == p \o u
  <2>2. p \in Seq(Statements) /\ (Replaces(p) => Len(mem.vec) = TimeWindow)
    <3>1. CASE mem.vec = <<>> \/ Len(mem.vec) < TimeWindow
      BY <3>1, Pieces
    <3>2. CASE Len(mem.vec) >= TimeWindow /\ mem.vec # <<>>
      <4>1. Len(mem.vec) = TimeWindow
        BY <3>2, ApplicationAssumption DEF Typed, Memory
      <4>. QED  BY <3>2, <4>1, Pieces, ApplicationAssumption
    <3>3. Len(mem.vec) \in Nat /\ TimeWindow \in Nat
      BY ApplicationAssumption DEF Typed, Memory
    <3>. QED  BY <3>1, <3>2, <3>3
  <2>3. u \in Seq(Statements) /\ (Replaces(u) => wild \/ Len(mem.vec) = TimeWindow)
    BY <1>0, <2>1, TailReplaces DEF Typed, Fits
  <2>4. /\ todo' = [todo EXCEPT ![g] = t] /\ arg' = [arg EXCEPT ![g] = mem.sntW]
        /\ UNCHANGED <<config, up, where, wild, half, reg, mem, stime>>
    BY <1>6 DEF Push, Goto, process, shared
  <2>. HIDE DEF p, u
  <2>5. t \in Seq(Statements) /\ (Replaces(t) => wild \/ Len(mem.vec) = TimeWindow)
    BY <2>2, <2>3, JoinReplaces
  <2>6. /\ where' \in [Goroutines -> Places] /\ arg' \in [Goroutines -> Nat]
        /\ stime' \in BOOLEAN /\ (\A h \in Goroutines \ {g} : where'[h] = where[h]) /\ Busy(g)'
    BY <2>1, <2>4 DEF Typed, Busy, Memory
  <2>. HIDE DEF t
  <2>. QED  BY <2>1, <2>4, <2>5, <2>6, NewStatements
<1>7. CASE \E s \in DOMAIN Target : Evaluate(g, s) \/ Assign(g, s)
  BY <1>7, EvaluateTyped, AssignTyped
<1>. QED  BY <1>1, <1>2, <1>3, <1>4, <1>5, <1>6, <1>7 DEF Step

(* And every step of the program.                                          *)
LEMMA NextTyped == Typed /\ [Next]_vars => Typed'
<1>. SUFFICES ASSUME Typed, [Next]_vars  PROVE Typed'
  OBVIOUS
<1>1. CASE Next
  BY <1>1, StepTyped DEF Next
<1>2. CASE UNCHANGED vars
  BY <1>2 DEF vars, process, local, shared, Typed, Busy
<1>. QED  BY <1>1, <1>2

(* Hence Typed always holds.                                               *)
LEMMA TypedStays == Spec => []Typed
BY InitTyped, NextTyped, PTL DEF Spec

(* The type invariant: as long as appends have not raced for a slot, every *)
(* index of bUp's slice that Mavg_push has read stays inside it, for any   *)
(* number of goroutines and any timeWindow (util.go:350-368), and the      *)
(* counters are never negative (client main.go:113-134, server             *)
(* main.go:98-107).                                                        *)
THEOREM ApplicationTypeOK == Spec => []TypeOK
<1>1. Typed => TypeOK
  <2>. SUFFICES ASSUME Typed  PROVE TypeOK
    OBVIOUS
  <2>1. /\ mem.rcv \in Nat /\ mem.snt \in Nat /\ mem.sntW \in Nat /\ mem.sum \in Int
        /\ mem.begin \in 0..(TimeWindow - 1) /\ mem.vec \in Seq(Nat) /\ Len(mem.vec) <= TimeWindow
    BY DEF Typed, Memory
  <2>. QED  BY <2>1 DEF Typed, TypeOK, Places
<1>. QED  BY <1>1, TypedStays, PTL

-----------------------------------------------------------------------------
(* What a goroutine has evaluated and not yet assigned counts no byte that *)
(* it has not received: the response that it is adding, or none. t are the *)
(* statements that remain, r is the value of the first, if h.              *)
Within(t, h, r) ==
  /\ h /\ Head(t) = "countRcv" => r <= received + config.resSize
  /\ h /\ Head(t) = "carryRcv" => r <= received

(* The inductive invariant behind NeverOvercounts: a value of rcv on its   *)
(* way into rcv is as old as it may be, it was never too large.            *)
NoneTwice ==
  /\ received \in Nat /\ mem.rcv <= received
  /\ \A g \in Goroutines : Within(todo[g], half[g], reg[g])

(* Every step of a goroutine: a stale value is too small, never too large, *)
(* since received only grows.                                              *)
LEMMA StepCounts ==
  ASSUME Typed, NoneTwice, NEW g \in Goroutines, Step(g)
  PROVE  NoneTwice'
<1>0. /\ mem.rcv \in Nat /\ received \in Nat /\ config.resSize \in Nat /\ mem.rcv <= received
      /\ mem \in Memory
  BY Configured DEF Typed, Memory, NoneTwice
<1>1. ASSUME UNCHANGED <<config, mem, received, half, reg>>,
             todo' = todo \/ ~ half[g], \A h \in Goroutines \ {g} : todo'[h] = todo[h]
      PROVE  NoneTwice'
  BY <1>1 DEF NoneTwice, Within
<1>2. CASE Decision(g) \/ SetLastResponse(g)
  <2>1. todo[g] = <<>> /\ ~ half[g]
    BY <1>2, NotHalf DEF Decision, SetLastResponse, Typed, Busy
  <2>. QED  BY <1>1, <1>2, <2>1 DEF Decision, SetLastResponse, Begin, Goto, process, shared, Typed
<1>3. CASE Unanswered(g) \/ Return(g)
  BY <1>1, <1>3 DEF Unanswered, Return, process, shared, history
<1>4. CASE Body(g) \/ Window(g) \/ Push(g)
  <2>1. ~ half[g]
    BY <1>4, NotHalf DEF Body, Window, Push, At
  <2>. QED  BY <1>1, <1>4, <2>1 DEF Body, Panic, Window, Push, Goto,
                                   process, local, shared, history, Typed
<1>5. ASSUME NEW s \in DOMAIN Target, Evaluate(g, s)  PROVE NoneTwice'
  <2>. DEFINE r == IF s \in Counters THEN Counter(s) ELSE IF wild THEN 0 ELSE Ring(s, arg[g])
  <2>1. /\ Head(todo[g]) = s /\ half' = [half EXCEPT ![g] = TRUE] /\ reg' = [reg EXCEPT ![g] = r]
        /\ UNCHANGED <<config, mem, received, todo>>
    BY <1>5 DEF Evaluate, At, process, shared, history
  <2>2. /\ s = "countRcv" => r = mem.rcv + config.resSize
        /\ s = "carryRcv" => r = mem.rcv
    BY DEF Counters, Counter
  <2>. HIDE DEF r
  <2>3. ASSUME NEW h \in Goroutines  PROVE Within(todo[h], half'[h], reg'[h])
    <3>1. CASE h = g
      BY <1>0, <2>1, <2>2, <3>1 DEF Typed, Within
    <3>2. CASE h # g
      BY <2>1, <3>2 DEF Typed, Within, NoneTwice
    <3>. QED  BY <3>1, <3>2
  <2>. QED  BY <2>1, <2>3 DEF NoneTwice, Within
<1>6. ASSUME NEW s \in DOMAIN Target, Assign(g, s)  PROVE NoneTwice'
  <2>1. /\ todo[g] # <<>> /\ Head(todo[g]) = s /\ half[g] /\ half' = [half EXCEPT ![g] = FALSE]
        /\ reg' = [reg EXCEPT ![g] = 0] /\ todo' = [todo EXCEPT ![g] = Tail(todo[g])]
        /\ received' = IF s = "countRcv" THEN received + config.resSize ELSE received
        /\ UNCHANGED config
    BY <1>6 DEF Assign, At, Goto, process
  <2>2. received' \in Nat /\ received <= received'
    BY <1>0, <2>1
  <2>3. mem'.rcv <= received'
    <3>1. CASE s \in {"countRcv", "carryRcv"}
      <4>1. mem' = [mem EXCEPT !.rcv = reg[g]]
        BY <1>6, <3>1, Assignments DEF Assign, Counters
      <4>2. mem'.rcv = reg[g]
        BY <1>0, <4>1 DEF Memory
      <4>3. Within(todo[g], half[g], reg[g])
        BY DEF NoneTwice
      <4>. QED  BY <1>0, <2>1, <3>1, <4>2, <4>3 DEF Within
    <3>2. CASE s \notin {"countRcv", "carryRcv"}
      <4>1. Target[s] # "rcv" /\ Target[s] \in {"sntW", "snt", "vec", "sum", "begin"}
        BY <3>2, Assignments
      <4>2. mem'.rcv = mem.rcv
        BY <1>0, <1>6, <4>1 DEF Assign, Memory
      <4>. QED  BY <1>0, <2>1, <3>2, <4>2
    <3>. QED  BY <3>1, <3>2
  <2>4. ASSUME NEW h \in Goroutines  PROVE Within(todo[h], half[h], reg[h])'
    <3>1. CASE h = g
      BY <2>1, <3>1 DEF Typed, Within
    <3>2. CASE h # g
      <4>1. todo'[h] = todo[h] /\ half'[h] = half[h] /\ reg'[h] = reg[h] /\ reg[h] \in Int
        BY <2>1, <3>2 DEF Typed
      <4>2. Within(todo[h], half[h], reg[h])
        BY DEF NoneTwice
      <4>3. (Within(todo[h], half[h], reg[h]))' <=>
              /\ half[h] /\ Head(todo[h]) = "countRcv" => reg[h] <= received' + config.resSize
              /\ half[h] /\ Head(todo[h]) = "carryRcv" => reg[h] <= received'
        BY <2>1, <4>1 DEF Within
      <4>. DEFINE i == reg[h]
                  n == config.resSize
                  q == received'
      <4>4. i \in Int /\ n \in Nat /\ q \in Nat /\ received \in Nat /\ received <= q
        BY <1>0, <2>2, <4>1
      <4>5. /\ half[h] /\ Head(todo[h]) = "countRcv" => i <= received + n
            /\ half[h] /\ Head(todo[h]) = "carryRcv" => i <= received
        BY <4>2 DEF Within
      <4>. HIDE DEF i, n, q
      <4>6. /\ half[h] /\ Head(todo[h]) = "countRcv" => i <= q + n
            /\ half[h] /\ Head(todo[h]) = "carryRcv" => i <= q
        BY <4>4, <4>5
      <4>. QED  BY <4>3, <4>6 DEF i, n, q
    <3>. QED  BY <3>1, <3>2
  <2>. QED  BY <2>2, <2>3, <2>4 DEF NoneTwice
<1>. QED  BY <1>2, <1>3, <1>4, <1>5, <1>6 DEF Step

(* And every step of the program.                                          *)
LEMMA NextCounts == Typed /\ NoneTwice /\ [Next]_vars => NoneTwice'
<1>. SUFFICES ASSUME Typed, NoneTwice, [Next]_vars  PROVE NoneTwice'
  OBVIOUS
<1>1. CASE Next
  BY <1>1, StepCounts DEF Next
<1>2. CASE UNCHANGED vars
  BY <1>2 DEF vars, process, local, shared, history, NoneTwice, Within
<1>. QED  BY <1>1, <1>2

(* Goroutines that overlap lose updates of rcv, but no byte is counted     *)
(* twice, however many there are and whatever they are in the middle of    *)
(* (client main.go:113, :134; server main.go:98, :107).                    *)
THEOREM NeverCountedTwice == Spec => []NeverOvercounts
<1>1. Init => NoneTwice
  BY DEF Init, NoneTwice, Within
<1>2. NoneTwice => NeverOvercounts
  BY DEF NoneTwice, NeverOvercounts
<1>. QED  BY <1>1, <1>2, NextCounts, TypedStays, PTL DEF Spec

-----------------------------------------------------------------------------
(* The sum of a sequence, as a sum over its indices.                       *)
LEMMA SumOfIs == \A q : SumOf(q) = SumFunctionOnSet(q, DOMAIN q)
BY DEF SumOf, FoldSeq, FoldFunction, FoldFunctionOnSet, MapThenFoldSet, SumFunctionOnSet

(* The last TimeWindow elements of q.                                      *)
Latest(q) == SubSeq(q, 1 + (IF Len(q) > TimeWindow THEN Len(q) - TimeWindow ELSE 0), Len(q))

(* They are a suffix of q.                                                 *)
LEMMA LatestIs ==
  ASSUME NEW q \in Seq(Nat)
  PROVE  /\ Latest(q) \in Seq(Nat) /\ \A k \in 1..Len(Latest(q)) : Latest(q)[k] \in Nat
         /\ Len(Latest(q)) = (IF Len(q) > TimeWindow THEN TimeWindow ELSE Len(q))
         /\ Len(Latest(q)) \in 0..TimeWindow
         /\ \A k \in 1..Len(Latest(q)) :
              Latest(q)[k] = q[(IF Len(q) > TimeWindow THEN Len(q) - TimeWindow ELSE 0) + k]
<1>. DEFINE o == IF Len(q) > TimeWindow THEN Len(q) - TimeWindow ELSE 0
            l == SubSeq(q, 1 + o, Len(q))
<1>0. Len(q) \in Nat /\ TimeWindow \in Nat \ {0} /\ o \in 0..Len(q)
  BY ApplicationAssumption
<1>1. Latest(q) = l
  BY DEF Latest
<1>2. \A a \in Nat : a \in 0..Len(q) =>
        /\ SubSeq(q, 1 + a, Len(q)) \in Seq(Nat)
        /\ Len(SubSeq(q, 1 + a, Len(q))) = Len(q) - a
        /\ \A k \in 1..(Len(q) - a) : SubSeq(q, 1 + a, Len(q))[k] = q[a + k]
  OBVIOUS
<1>3. /\ l \in Seq(Nat) /\ Len(l) = Len(q) - o
      /\ \A k \in 1..(Len(q) - o) : l[k] = q[o + k]
  <2>. HIDE DEF o
  <2>. QED  BY <1>0, <1>2
<1>4. \A k \in 1..Len(l) : l[k] \in Nat
  <2>. HIDE DEF l
  <2>. QED  BY <1>3
<1>5. Len(l) = (IF Len(q) > TimeWindow THEN TimeWindow ELSE Len(q)) /\ Len(l) \in 0..TimeWindow
  <2>. HIDE DEF l
  <2>. QED  BY <1>0, <1>3
<1>. HIDE DEF l
<1>. QED  BY <1>1, <1>3, <1>4, <1>5

(* They slide when an element is appended.                                 *)
LEMMA LatestSlides ==
  ASSUME NEW q \in Seq(Nat), NEW x \in Nat
  PROVE  /\ Len(Latest(Append(q, x))) = Next1(TimeWindow, Len(Latest(q)))
         /\ Slides(TimeWindow, Len(Latest(q)), Latest(q), x, Latest(Append(q, x)))
<1>. DEFINE a == Append(q, x)
            o(n) == IF n > TimeWindow THEN n - TimeWindow ELSE 0
<1>0. Len(q) \in Nat /\ TimeWindow \in Nat \ {0}
  BY ApplicationAssumption
<1>1. /\ a \in Seq(Nat) /\ Len(a) = Len(q) + 1 /\ a[Len(q) + 1] = x
      /\ \A k \in 1..Len(q) : a[k] = q[k]
  OBVIOUS
<1>. HIDE DEF a
<1>2. /\ Len(Latest(q)) = (IF Len(q) > TimeWindow THEN TimeWindow ELSE Len(q))
      /\ \A k \in 1..Len(Latest(q)) : Latest(q)[k] = q[o(Len(q)) + k]
  BY LatestIs
<1>3. /\ Len(Latest(a)) = (IF Len(a) > TimeWindow THEN TimeWindow ELSE Len(a))
      /\ \A k \in 1..Len(Latest(a)) : Latest(a)[k] = a[o(Len(a)) + k]
  BY <1>1, LatestIs
<1>4. CASE Len(q) < TimeWindow
  <2>1. Len(Latest(q)) = Len(q) /\ Len(Latest(a)) = Len(q) + 1 /\ o(Len(a)) = 0 /\ o(Len(q)) = 0
    BY <1>0, <1>1, <1>2, <1>3, <1>4
  <2>2. \A k \in 1..Len(q) : Latest(a)[k] = Latest(q)[k]
    <3>. SUFFICES ASSUME NEW k \in 1..Len(q)  PROVE Latest(a)[k] = Latest(q)[k]
      OBVIOUS
    <3>1. k \in 1..(Len(q) + 1) /\ 0 + k = k
      BY <1>0
    <3>. QED  BY <1>1, <1>2, <1>3, <2>1, <3>1
  <2>3. Latest(a)[Len(q) + 1] = x
    <3>1. Len(q) + 1 \in 1..(Len(q) + 1) /\ 0 + (Len(q) + 1) = Len(q) + 1
      BY <1>0
    <3>. QED  BY <1>1, <1>3, <2>1, <3>1
  <2>. QED  BY <1>0, <1>4, <2>1, <2>2, <2>3 DEF Slides, Next1, a
<1>5. CASE Len(q) >= TimeWindow
  <2>. DEFINE p == Len(q) - TimeWindow
  <2>1. /\ Len(Latest(q)) = TimeWindow /\ Len(Latest(a)) = TimeWindow
        /\ o(Len(a)) = p + 1 /\ o(Len(q)) = p /\ p \in Nat /\ p + TimeWindow = Len(q)
    BY <1>0, <1>1, <1>2, <1>3, <1>5
  <2>. HIDE DEF o, p
  <2>2. \A k \in 1..(TimeWindow - 1) : Latest(a)[k] = Latest(q)[k + 1]
    <3>. SUFFICES ASSUME NEW k \in 1..(TimeWindow - 1)  PROVE Latest(a)[k] = Latest(q)[k+1]
      OBVIOUS
    <3>1. /\ k \in 1..TimeWindow /\ k + 1 \in 1..TimeWindow /\ (p + 1) + k = p + (k + 1)
          /\ p + (k + 1) \in 1..Len(q)
      BY <1>0, <2>1
    <3>2. Latest(a)[k] = a[(p + 1) + k]
      BY <1>3, <2>1, <3>1
    <3>3. Latest(q)[k + 1] = q[p + (k + 1)]
      BY <1>2, <2>1, <3>1
    <3>. QED  BY <1>1, <3>1, <3>2, <3>3
  <2>3. Latest(a)[TimeWindow] = x
    <3>. DEFINE n == TimeWindow
                c == Len(q)
    <3>0. n \in Nat \ {0} /\ p \in Nat /\ p + n = c
      BY <1>0, <2>1
    <3>. HIDE DEF n, c
    <3>1. n \in 1..n /\ (p + 1) + n = c + 1
      BY <3>0
    <3>. USE DEF n, c
    <3>. QED  BY <1>1, <1>3, <2>1, <3>1
  <2>. QED  BY <1>0, <2>1, <2>2, <2>3 DEF Slides, Next1, a
<1>. QED  BY <1>0, <1>4, <1>5

(* What bUp averages before the last of the closed windows q is pushed.    *)
Before(q) == Latest(Front(q))

(* Two sequences with the same elements are one.                           *)
LEMMA SameSequence ==
  ASSUME NEW u \in Seq(Nat), NEW v \in Seq(Nat), Len(u) = Len(v),
         \A k \in 1..Len(u) : u[k] = v[k]
  PROVE  u = v
<1>1. u = [k \in 1..Len(u) |-> u[k]] /\ v = [k \in 1..Len(v) |-> v[k]]
  OBVIOUS
<1>. QED  BY <1>1

(* Front and Last take a sequence apart.                                   *)
LEMMA FrontLast ==
  /\ \A q \in Seq(Nat), x \in Nat : Front(Append(q, x)) = q /\ Last(Append(q, x)) = x
  /\ \A q \in Seq(Nat) : q # <<>> =>
       Front(q) \in Seq(Nat) /\ Last(q) \in Nat /\ q = Append(Front(q), Last(q))
<1>1. \A q \in Seq(Nat), x \in Nat : Front(Append(q, x)) = q /\ Last(Append(q, x)) = x
  <2>. SUFFICES ASSUME NEW q \in Seq(Nat), NEW x \in Nat
                PROVE  Front(Append(q, x)) = q /\ Last(Append(q, x)) = x
    OBVIOUS
  <2>. DEFINE a == Append(q, x)
  <2>1. /\ a \in Seq(Nat) /\ Len(a) = Len(q) + 1 /\ a[Len(q) + 1] = x /\ Len(q) \in Nat
        /\ \A k \in 1..Len(q) : a[k] = q[k]
    OBVIOUS
  <2>. HIDE DEF a
  <2>2. Front(a) = q
    <3>. DEFINE f == SubSeq(a, 1, Len(q))
    <3>1. f \in Seq(Nat) /\ Len(f) = Len(q) /\ \A k \in 1..Len(q) : f[k] = a[k]
      BY <2>1
    <3>2. Front(a) = f
      BY <2>1 DEF Front
    <3>. HIDE DEF f
    <3>. QED  BY <2>1, <3>1, <3>2, SameSequence
  <2>. QED  BY <2>1, <2>2 DEF Last, a
<1>2. ASSUME NEW q \in Seq(Nat), q # <<>>
      PROVE  Front(q) \in Seq(Nat) /\ Last(q) \in Nat /\ q = Append(Front(q), Last(q))
  <2>. DEFINE f == SubSeq(q, 1, Len(q) - 1)
  <2>1. Len(q) \in Nat \ {0}
    BY <1>2
  <2>2. /\ f \in Seq(Nat) /\ Len(f) = Len(q) - 1 /\ \A k \in 1..(Len(q) - 1) : f[k] = q[k]
    <3>1. \A n \in 0..Len(q) : /\ SubSeq(q, 1, n) \in Seq(Nat) /\ Len(SubSeq(q, 1, n)) = n
                               /\ \A k \in 1..n : SubSeq(q, 1, n)[k] = q[k]
      OBVIOUS
    <3>2. Len(q) - 1 \in 0..Len(q)
      BY <2>1
    <3>. QED  BY <3>1, <3>2
  <2>3. Front(q) = f
    BY DEF Front
  <2>. HIDE DEF f
  <2>4. Last(q) = q[Len(q)] /\ Last(q) \in Nat
    BY <2>1 DEF Last
  <2>5. q = Append(f, q[Len(q)])
    <3>. DEFINE a == Append(f, q[Len(q)])
    <3>1. /\ a \in Seq(Nat) /\ Len(a) = Len(q) /\ a[Len(q)] = q[Len(q)]
          /\ \A k \in 1..(Len(q) - 1) : a[k] = q[k]
      BY <2>1, <2>2, <2>4
    <3>. HIDE DEF a
    <3>2. \A k \in 1..Len(q) : a[k] = q[k]
      BY <2>1, <3>1
    <3>3. a = q
      BY <3>1, <3>2, SameSequence
    <3>. QED  BY <3>3 DEF a
  <2>. QED  BY <2>2, <2>3, <2>4, <2>5
<1>. QED  BY <1>1, <1>2

(* A sum of numbers is one.                                                *)
LEMMA SumOfNat ==
  \A q \in Seq(Nat) : SumOf(q) \in Nat /\ SumOf(q) = SumFunctionOnSet(q, 1..Len(q))
<1>. SUFFICES ASSUME NEW q \in Seq(Nat)
              PROVE  SumOf(q) \in Nat /\ SumOf(q) = SumFunctionOnSet(q, 1..Len(q))
  OBVIOUS
<1>1. IsFiniteSet(1..Len(q)) /\ DOMAIN q = 1..Len(q) /\ \A k \in 1..Len(q) : q[k] \in Nat
  <2>1. Len(q) \in Nat /\ DOMAIN q = 1..Len(q) /\ \A k \in 1..Len(q) : q[k] \in Nat
    OBVIOUS
  <2>. QED  BY <2>1, FS_Interval
<1>2. SumFunctionOnSet(q, 1..Len(q)) \in Nat
  BY <1>1, SumNat
<1>. QED  BY <1>1, <1>2, SumOfIs

(* What is to be averaged before and after the last window is pushed.      *)
LEMMA ClosedIs ==
  ASSUME NEW q \in Seq(Nat), q # <<>>
  PROVE  /\ Last(q) \in Nat /\ Before(q) \in Seq(Nat) /\ Latest(q) \in Seq(Nat)
         /\ Len(Before(q)) \in 0..TimeWindow /\ Len(Latest(q)) \in 0..TimeWindow
         /\ Len(Latest(q)) = Next1(TimeWindow, Len(Before(q)))
         /\ Slides(TimeWindow, Len(Before(q)), Before(q), Last(q), Latest(q))
         /\ \A k \in 1..Len(Before(q)) : Before(q)[k] \in Nat
         /\ SumOf(Before(q)) \in Nat /\ SumOf(Latest(q)) \in Nat
         /\ SumOf(Latest(q)) = SumOf(Before(q)) + Last(q)
              - (IF Len(Before(q)) < TimeWindow THEN 0 ELSE Before(q)[1])
<1>. DEFINE p == Front(q)  x == Last(q)  v == Before(q)  w == Latest(q)
<1>1. p \in Seq(Nat) /\ x \in Nat /\ q = Append(p, x)
  BY FrontLast
<1>2. Len(w) = Next1(TimeWindow, Len(v)) /\ Slides(TimeWindow, Len(v), v, x, w)
  <2>1. v = Latest(p)
    BY DEF Before
  <2>. HIDE DEF p, x, v
  <2>. QED  BY <1>1, <2>1, LatestSlides
<1>3. /\ v \in Seq(Nat) /\ Len(v) \in 0..TimeWindow /\ (\A k \in 1..Len(v) : v[k] \in Nat)
  BY <1>1, LatestIs DEF Before
<1>4. w \in Seq(Nat) /\ Len(w) \in 0..TimeWindow
  BY LatestIs
<1>. HIDE DEF p, x, v, w
<1>5. SumFunctionOnSet(w, 1..Next1(TimeWindow, Len(v))) =
        SumFunctionOnSet(v, 1..Len(v)) + x - (IF Len(v) < TimeWindow THEN 0 ELSE v[1])
  <2>. DEFINE n == Len(v)
  <2>1. /\ TimeWindow \in Nat \ {0} /\ n \in 0..TimeWindow /\ \A k \in 1..n : v[k] \in Nat
        /\ x \in Nat /\ Slides(TimeWindow, n, v, x, w)
    BY <1>1, <1>2, <1>3, ApplicationAssumption
  <2>. HIDE DEF n
  <2>2. SumFunctionOnSet(w, 1..Next1(TimeWindow, n)) =
          SumFunctionOnSet(v, 1..n) + x - (IF n < TimeWindow THEN 0 ELSE v[1])
    BY <2>1, SlideSum
  <2>. QED  BY <2>2 DEF n
<1>6. SumOf(w) = SumOf(v) + x - (IF Len(v) < TimeWindow THEN 0 ELSE v[1])
      /\ SumOf(w) \in Nat /\ SumOf(v) \in Nat
  BY <1>2, <1>3, <1>4, <1>5, SumOfNat
<1>. QED  BY <1>1, <1>2, <1>3, <1>4, <1>6 DEF x, v, w

(* One more element counts once.                                           *)
LEMMA SumOfAppend ==
  ASSUME NEW q \in Seq(Nat), NEW x \in Nat
  PROVE  SumOf(Append(q, x)) = SumOf(q) + x
<1>. DEFINE a == Append(q, x)  n == Len(q)
<1>1. /\ a \in Seq(Nat) /\ Len(a) = n + 1 /\ a[n + 1] = x /\ n \in Nat
      /\ (\A k \in 1..n : a[k] = q[k] /\ q[k] \in Int) /\ \A k \in 1..(n+1) : a[k] \in Int
  OBVIOUS
<1>2. SumOf(a) = SumFunctionOnSet(a, 1..(n+1)) /\ SumOf(q) = SumFunctionOnSet(q, 1..n)
      /\ SumOf(q) \in Nat
  BY <1>1, SumOfNat
<1>. HIDE DEF a, n
<1>3. SumFunctionOnSet(a, 1..(n+1)) = SumFunctionOnSet(a, 1..n) + a[n+1]
  BY <1>1, SumGrows
<1>4. SumFunctionOnSet(a, 1..n) = SumFunctionOnSet(q, 1..n)
  <2>1. IsFiniteSet(1..n)
    BY <1>1, FS_Interval
  <2>. QED  BY <1>1, <2>1, SumSame
<1>. QED  BY <1>1, <1>2, <1>3, <1>4 DEF a

-----------------------------------------------------------------------------
(* What is done after the push (client main.go:117-121, server             *)
(* main.go:101-105).                                                       *)
Ending == <<"carryRcv", "carrySnt", "reset">>

(* Within the first push of all.                                           *)
Firsts == {<<"append", "first", "carryRcv", "carrySnt", "reset">>,
           <<"first", "carryRcv", "carrySnt", "reset">>}

(* What may remain of a call.                                              *)
Remainders ==
  {<<>>, <<"countSnt", "body", "window">>, <<"body", "window">>, <<"window">>,
   <<"body", "countRcv", "window">>, <<"countRcv", "window">>, <<"countRcv">>, <<"countSnt">>,
   <<"push", "carryRcv", "carrySnt", "reset">>, Ending, <<"carrySnt", "reset">>, <<"reset">>,
   <<"append", "add", "carryRcv", "carrySnt", "reset">>,
   <<"add", "carryRcv", "carrySnt", "reset">>,
   <<"replace", "slot", "advance", "carryRcv", "carrySnt", "reset">>,
   <<"slot", "advance", "carryRcv", "carrySnt", "reset">>,
   <<"advance", "carryRcv", "carrySnt", "reset">>} \cup Firsts

(* The statement a call is at.                                             *)
Statement(t) == IF t = <<>> THEN "none" ELSE Head(t)

(* The assignments of Mavg_push.                                           *)
Pushing == {"append", "first", "add", "replace", "slot", "advance"}

(* The statements that close a window.                                     *)
Ends == Pushing \cup {"push", "carryRcv", "carrySnt", "reset"}

(* What the counters of m, and the value r evaluated for one of them if h, *)
(* are at statement s: e bytes were received, n were sent in this window,  *)
(* q in the closed ones, and b in a response. While a window is being      *)
(* closed its bytes are in sntW, and in snt as well before they are reset. *)
Counts(s, h, r, m, e, n, q, b) ==
  /\ m.rcv = e
  /\ s \in Ends => n = 0 /\ q # <<>>
  /\ m.sntW = IF s \in Ends THEN Last(q) ELSE n
  /\ m.snt + (IF s \in Ends \ {"reset"} THEN Last(q) ELSE 0) = SumOf(q)
  /\ h => /\ s = "countSnt" => r = n + b
          /\ s = "countRcv" => r = e + b
          /\ s = "carryRcv" => r = e
          /\ s = "carrySnt" => r = SumOf(q)
          /\ s = "reset" => r = 0

(* The ring u, with its oldest element at i, holds the sequence w.         *)
Entries(u, i, w) ==
  /\ Len(u) = Len(w) /\ (Len(w) < TimeWindow => i = 0)
  /\ Laid(TimeWindow, u, i, Len(w), w)

(* What the moving average of m, and the value r evaluated for it if h,    *)
(* are at statement s of a call that pushes y, with the closed windows q:  *)
(* slot and advance are in between, with the last window in the ring and   *)
(* begin yet to move past it.                                              *)
Averages(s, h, r, y, m, q) ==
  /\ CASE s \in {"push", "append", "replace", "slot"} -> Entries(m.vec, m.begin, Before(q))
       [] s = "advance" -> Entries(m.vec, Wrapped(TimeWindow, m.begin), Latest(q))
       [] OTHER -> Entries(m.vec, m.begin, Latest(q))
  /\ m.sum = SumOf(IF s \in {"push", "append", "first", "add", "replace"} THEN Before(q)
                                                                         ELSE Latest(q))
  /\ s \in Pushing => y = Last(q)
  /\ s \in {"append", "first", "add"} => Len(Before(q)) < TimeWindow
  /\ s \in Replacing => Len(Before(q)) = TimeWindow
  /\ h => /\ s = "append" => r = Len(m.vec)
          /\ s \in {"first", "add", "replace"} => r = SumOf(Latest(q))
          /\ s = "slot" => r = m.begin
          /\ s = "advance" => r = Wrapped(TimeWindow, m.begin)

(* The two, when the statements t remain of the only call in progress.     *)
Midway(t, h, r, y, m, e, n, q, b) ==
  /\ t \in Remainders
  /\ t \in Firsts => Len(Before(q)) = 0
  /\ Counts(Statement(t), h, r, m, e, n, q, b)
  /\ Averages(Statement(t), h, r, y, m, q)

(* The history variables have their types.                                 *)
Booked == received \in Nat /\ now \in Nat /\ closed \in Seq(Nat)

(* The inductive invariant behind ExactUnlessOverlapped: if no two calls   *)
(* have overlapped, one is in progress at most, and every variable is what *)
(* its statement says.                                                     *)
Alone ==
  /\ Booked
  /\ ~ overlapped =>
       /\ ~ wild
       /\ \A g, h \in Goroutines : Busy(g) /\ Busy(h) => g = h
       /\ \A g \in Goroutines : Busy(g) => 
            Midway(todo[g], half[g], reg[g], arg[g], mem, received, now, closed, config.resSize)
       /\ (\A g \in Goroutines : ~ Busy(g)) => 
            Midway(<<>>, FALSE, 0, 0, mem, received, now, closed, config.resSize)

-----------------------------------------------------------------------------
(* The statement that may follow another.                                  *)
Successor ==
  [countSnt |-> {"body", "none"}, body |-> {"window", "countRcv"},
   countRcv |-> {"window", "none"}, window |-> {"none"},
   push |-> {"carryRcv"}, append |-> {"first", "add"},
   first |-> {"carryRcv"}, add |-> {"carryRcv"}, replace |-> {"slot"}, slot |-> {"advance"},
   advance |-> {"carryRcv"}, carryRcv |-> {"carrySnt"}, carrySnt |-> {"reset"},
   reset |-> {"none"}]

(* And what remains after one.                                             *)
LEMMA Remaining ==
  ASSUME NEW t \in Remainders, t # <<>>
  PROVE  /\ Tail(t) \in Remainders /\ (Tail(t) \in Firsts => t \in Firsts)
         /\ (Head(t) = "append" /\ Statement(Tail(t)) = "first" => t \in Firsts)
         /\ (Head(t) = "first" => t \in Firsts)
         /\ (Head(t) = "push" => Tail(t) = Ending)
         /\ Head(t) \in DOMAIN Successor /\ Statement(Tail(t)) \in Successor[Head(t)]
<1>. USE DEF Statement, Successor, Firsts, Remainders, Ending
<1>1. CASE t = <<"countSnt", "body", "window">>
  <2>. Tail(t) = <<"body", "window">> /\ Head(t) = "countSnt"
    BY <1>1
  <2>. QED  BY <1>1
<1>2. CASE t = <<"body", "window">>
  <2>. Tail(t) = <<"window">> /\ Head(t) = "body"
    BY <1>2
  <2>. QED  BY <1>2
<1>3. CASE t = <<"window">>
  <2>. Tail(t) = <<>> /\ Head(t) = "window"
    BY <1>3
  <2>. QED  BY <1>3
<1>4. CASE t = <<"body", "countRcv", "window">>
  <2>. Tail(t) = <<"countRcv", "window">> /\ Head(t) = "body"
    BY <1>4
  <2>. QED  BY <1>4
<1>5. CASE t = <<"countRcv", "window">>
  <2>. Tail(t) = <<"window">> /\ Head(t) = "countRcv"
    BY <1>5
  <2>. QED  BY <1>5
<1>6. CASE t = <<"countRcv">>
  <2>. Tail(t) = <<>> /\ Head(t) = "countRcv"
    BY <1>6
  <2>. QED  BY <1>6
<1>7. CASE t = <<"countSnt">>
  <2>. Tail(t) = <<>> /\ Head(t) = "countSnt"
    BY <1>7
  <2>. QED  BY <1>7
<1>8. CASE t = <<"push", "carryRcv", "carrySnt", "reset">>
  <2>. Tail(t) = <<"carryRcv", "carrySnt", "reset">> /\ Head(t) = "push"
    BY <1>8
  <2>. QED  BY <1>8
<1>9. CASE t = <<"carryRcv", "carrySnt", "reset">>
  <2>. Tail(t) = <<"carrySnt", "reset">> /\ Head(t) = "carryRcv"
    BY <1>9
  <2>. QED  BY <1>9
<1>10. CASE t = <<"carrySnt", "reset">>
  <2>. Tail(t) = <<"reset">> /\ Head(t) = "carrySnt"
    BY <1>10
  <2>. QED  BY <1>10
<1>11. CASE t = <<"reset">>
  <2>. Tail(t) = <<>> /\ Head(t) = "reset"
    BY <1>11
  <2>. QED  BY <1>11
<1>12. CASE t = <<"append", "add", "carryRcv", "carrySnt", "reset">>
  <2>. Tail(t) = <<"add", "carryRcv", "carrySnt", "reset">> /\ Head(t) = "append"
    BY <1>12
  <2>. QED  BY <1>12
<1>13. CASE t = <<"add", "carryRcv", "carrySnt", "reset">>
  <2>. Tail(t) = <<"carryRcv", "carrySnt", "reset">> /\ Head(t) = "add"
    BY <1>13
  <2>. QED  BY <1>13
<1>14. CASE t = <<"replace", "slot", "advance", "carryRcv", "carrySnt", "reset">>
  <2>. Tail(t) = <<"slot", "advance", "carryRcv", "carrySnt", "reset">> /\ Head(t) = "replace"
    BY <1>14
  <2>. QED  BY <1>14
<1>15. CASE t = <<"slot", "advance", "carryRcv", "carrySnt", "reset">>
  <2>. Tail(t) = <<"advance", "carryRcv", "carrySnt", "reset">> /\ Head(t) = "slot"
    BY <1>15
  <2>. QED  BY <1>15
<1>16. CASE t = <<"advance", "carryRcv", "carrySnt", "reset">>
  <2>. Tail(t) = <<"carryRcv", "carrySnt", "reset">> /\ Head(t) = "advance"
    BY <1>16
  <2>. QED  BY <1>16
<1>17. CASE t = <<"append", "first", "carryRcv", "carrySnt", "reset">>
  <2>. Tail(t) = <<"first", "carryRcv", "carrySnt", "reset">> /\ Head(t) = "append"
    BY <1>17
  <2>. QED  BY <1>17
<1>18. CASE t = <<"first", "carryRcv", "carrySnt", "reset">>
  <2>. Tail(t) = <<"carryRcv", "carrySnt", "reset">> /\ Head(t) = "first"
    BY <1>18
  <2>. QED  BY <1>18
<1>. QED  BY <1>1, <1>2, <1>3, <1>4, <1>5, <1>6, <1>7, <1>8, <1>9,
          <1>10, <1>11, <1>12, <1>13, <1>14, <1>15, <1>16, <1>17, <1>18

(* And of no elements is zero.                                             *)
LEMMA SumOfNone == \A q \in Seq(Nat) : Len(q) = 0 => SumOf(q) = 0
<1>. SUFFICES ASSUME NEW q \in Seq(Nat), Len(q) = 0  PROVE SumOf(q) = 0
  OBVIOUS
<1>1. SumOf(q) = SumFunctionOnSet(q, 1..0)
  BY SumOfNat
<1>2. 1..0 = {}
  OBVIOUS
<1>. QED  BY <1>1, <1>2, SumEmpty

(* What Typed says of the shared variables.                                *)
LEMMA Known ==
  ASSUME Typed, Booked
  PROVE  /\ mem \in Memory /\ TimeWindow \in Nat \ {0} /\ config.resSize \in Nat
         /\ mem.rcv \in Nat /\ mem.snt \in Nat /\ mem.sntW \in Nat /\ mem.sum \in Int
         /\ mem.begin \in 0..(TimeWindow - 1) /\ mem.vec \in Seq(Nat) /\ Len(mem.vec) \in Nat
         /\ received \in Nat /\ now \in Nat /\ closed \in Seq(Nat) /\ SumOf(closed) \in Nat
BY Configured, ApplicationAssumption, SumOfNat DEF Typed, Memory, Booked

(* The right side of a statement on counters.                              *)
LEMMA CounterIs ==
  ASSUME Typed, Booked, NEW s \in Counters, NEW h, NEW x,
         Counts(s, h, x, mem, received, now, closed, config.resSize)
  PROVE  Counts(s, TRUE, Counter(s), mem, received, now, closed, config.resSize)
<1>. DEFINE r == Counter(s)  b == config.resSize
<1>0. s \in Ends => closed # <<>> /\ Last(closed) \in Nat
  BY ClosedIs DEF Counts, Booked
<1>1. s = "countSnt" => r = now + b
  BY DEF Counts, Counter, Ends, Pushing
<1>2. s = "countRcv" => r = received + b
  BY DEF Counts, Counter, Ends
<1>3. s = "carryRcv" => r = received
  BY DEF Counts, Counter, Ends
<1>4. s = "carrySnt" => r = SumOf(closed)
  <2>. SUFFICES ASSUME s = "carrySnt"  PROVE r = SumOf(closed)
    OBVIOUS
  <2>. DEFINE i == mem.snt  j == mem.sntW  l == Last(closed)
  <2>1. r = i + j /\ j = l /\ i + l = SumOf(closed)
    BY DEF Counts, Counter, Ends
  <2>. HIDE DEF i, j, l
  <2>. QED  BY <2>1
<1>5. s = "reset" => r = 0
  BY DEF Counter
<1>. HIDE DEF r
<1>. QED  BY <1>1, <1>2, <1>3, <1>4, <1>5 DEF Counts, r

(* The right side of a statement of Mavg_push: on a full ring the element  *)
(* given up is the oldest.                                                 *)
LEMMA RingIs ==
  ASSUME Typed, Booked, NEW s \in Pushing, NEW h, NEW x, NEW y,
         s = "first" => Len(Before(closed)) = 0,
         closed # <<>>, Averages(s, h, x, y, mem, closed)
  PROVE  Averages(s, TRUE, Ring(s, y), y, mem, closed)
<1>. DEFINE r == Ring(s, y)  v == Before(closed)  w == Latest(closed)  l == Last(closed)
<1>0. /\ l \in Nat /\ y = l /\ v \in Seq(Nat) /\ Len(v) \in 0..TimeWindow
      /\ Len(w) = Next1(TimeWindow, Len(v))
      /\ SumOf(v) \in Nat /\ SumOf(w) \in Nat
      /\ SumOf(w) = SumOf(v) + l - (IF Len(v) < TimeWindow THEN 0 ELSE v[1])
      /\ TimeWindow \in Nat \ {0} /\ mem.begin \in 0..(TimeWindow - 1)
      /\ \A k \in 1..Len(v) : v[k] \in Nat
  <2>1. y = l
    BY DEF Averages
  <2>. QED  BY <2>1, Known, ClosedIs
<1>. HIDE DEF r, v, w, l
<1>1. s = "append" => r = Len(mem.vec)
  BY DEF Ring, r
<1>2. s = "first" => r = SumOf(w)
  <2>. SUFFICES ASSUME s = "first"  PROVE r = SumOf(w)
    OBVIOUS
  <2>1. Len(v) = 0 /\ r = y
    BY DEF v, r, Ring
  <2>2. SumOf(v) = 0
    BY <1>0, <2>1, SumOfNone
  <2>. QED  BY <1>0, <2>1, <2>2
<1>3. s = "add" => r = SumOf(w)
  <2>. SUFFICES ASSUME s = "add"  PROVE r = SumOf(w)
    OBVIOUS
  <2>1. Len(v) < TimeWindow /\ r = mem.sum + y /\ mem.sum = SumOf(v)
    BY DEF v, r, Ring, Averages
  <2>. QED  BY <1>0, <2>1
<1>4. s = "replace" => r = SumOf(w)
  <2>. SUFFICES ASSUME s = "replace"  PROVE r = SumOf(w)
    OBVIOUS
  <2>1. Len(v) = TimeWindow /\ r = mem.sum - mem.vec[mem.begin + 1] + y /\ mem.sum = SumOf(v)
        /\ Laid(TimeWindow, mem.vec, mem.begin, Len(v), v)
    BY DEF v, r, Ring, Averages, Replacing, Entries
  <2>2. 1 \in 1..Len(v) /\ Slot(TimeWindow, mem.begin, 1) = mem.begin + 1
    <3>1. \A n \in Nat \ {0} : 1 \in 1..n /\ \A i \in 0..(n - 1) : Slot(n, i, 1) = i + 1
      BY DEF Slot
    <3>. QED  BY <1>0, <2>1, <3>1, Zenon
  <2>3. mem.vec[mem.begin + 1] = v[1]
    BY <2>1, <2>2 DEF Laid
  <2>4. v[1] \in Nat
    BY <1>0, <2>2
  <2>. QED  BY <1>0, <2>1, <2>3, <2>4
<1>5. s = "slot" => r = mem.begin
  BY DEF Ring, r
<1>6. s = "advance" => r = Wrapped(TimeWindow, mem.begin)
  <2>. SUFFICES ASSUME s = "advance"  PROVE r = Wrapped(TimeWindow, mem.begin)
    OBVIOUS
  <2>1. Len(v) = TimeWindow /\ r = (mem.begin + 1) % Len(mem.vec) /\ Len(mem.vec) = Len(w)
    BY DEF v, w, r, Ring, After, Averages, Replacing, Entries
  <2>2. Len(mem.vec) = TimeWindow /\ mem.begin + 1 \in 0..TimeWindow
    <3>1. Len(w) = TimeWindow
      BY <1>0, <2>1 DEF Next1
    <3>2. \A n \in Nat \ {0} : \A i \in 0..(n - 1) : i + 1 \in 0..n
      OBVIOUS
    <3>3. mem.begin + 1 \in 0..TimeWindow
      BY <1>0, <3>2, Zenon
    <3>. QED  BY <2>1, <3>1, <3>3
  <2>3. (mem.begin + 1) % TimeWindow = Wrapped(TimeWindow, mem.begin)
    BY <1>0, <2>2, Remainder, Zenon DEF Wrapped
  <2>. QED  BY <2>1, <2>2, <2>3
<1>. QED  BY <1>1, <1>2, <1>3, <1>4, <1>5, <1>6 DEF Averages, w, r

(* Evaluating a right side.                                                *)
LEMMA Reads ==
  ASSUME Typed, Booked, ~ wild, NEW g \in Goroutines, NEW s \in DOMAIN Target, Evaluate(g, s),
         Midway(todo[g], half[g], reg[g], arg[g], mem, received, now, closed, config.resSize)
  PROVE  Midway(todo[g], TRUE, reg'[g], arg[g], mem, received, now, closed, config.resSize)
<1>. DEFINE r == IF s \in Counters THEN Counter(s) ELSE Ring(s, arg[g])
<1>1. todo[g] # <<>> /\ Head(todo[g]) = s /\ Statement(todo[g]) = s /\ reg'[g] = r
  BY DEF Evaluate, At, Statement, Typed
<1>2. /\ todo[g] \in Remainders
      /\ todo[g] \in Firsts => Len(Before(closed)) = 0
      /\ Counts(s, half[g], reg[g], mem, received, now, closed, config.resSize)
      /\ Averages(s, half[g], reg[g], arg[g], mem, closed)
  BY <1>1 DEF Midway
<1>3. s = "first" => todo[g] \in Firsts
  BY <1>1, <1>2, Remaining
<1>4. s \in Counters \/ s \in Pushing
  BY Assignments DEF Counters, Pushing
<1>5. CASE s \in Counters
  <2>1. Counts(s, TRUE, Counter(s), mem, received, now, closed, config.resSize)
    BY <1>2, <1>5, CounterIs
  <2>2. Averages(s, TRUE, Counter(s), arg[g], mem, closed)
    BY <1>2, <1>5 DEF Averages, Counters
  <2>. QED  BY <1>1, <1>2, <1>5, <2>1, <2>2 DEF Midway
<1>6. CASE s \notin Counters
  <2>1. s \in Pushing /\ s \in Ends /\ closed # <<>>
    BY <1>2, <1>4, <1>6 DEF Counts, Ends
  <2>2. Averages(s, TRUE, Ring(s, arg[g]), arg[g], mem, closed)
    BY <1>2, <1>3, <2>1, RingIs
  <2>3. Counts(s, TRUE, Ring(s, arg[g]), mem, received, now, closed, config.resSize)
    BY <1>2, <2>1 DEF Counts, Pushing
  <2>. QED  BY <1>1, <1>2, <1>6, <2>2, <2>3 DEF Midway
<1>. QED  BY <1>5, <1>6

(* A record with another value in field f.                                 *)
Stored(m, f, r) == [m EXCEPT ![f] = r]

(* What an assignment to a counter changes.                                *)
LEMMA CounterWritten ==
  ASSUME NEW m \in Memory, NEW s \in Counters, NEW r \in Nat,
         NEW x, x = Stored(m, Target[s], r)
  PROVE  /\ x.vec = m.vec /\ x.begin = m.begin /\ x.sum = m.sum
         /\ x.rcv = (IF s \in {"countRcv", "carryRcv"} THEN r ELSE m.rcv)
         /\ x.snt = (IF s = "carrySnt" THEN r ELSE m.snt)
         /\ x.sntW = (IF s \in {"countSnt", "reset"} THEN r ELSE m.sntW)
<1>1. CASE s \in {"countRcv", "carryRcv"}
  <2>1. x = [m EXCEPT !.rcv = r]
    BY <1>1, Assignments DEF Stored
  <2>. QED  BY <1>1, <2>1 DEF Memory
<1>2. CASE s = "carrySnt"
  <2>1. x = [m EXCEPT !.snt = r]
    BY <1>2, Assignments DEF Stored
  <2>. QED  BY <1>2, <2>1 DEF Memory
<1>3. CASE s \in {"countSnt", "reset"}
  <2>1. x = [m EXCEPT !.sntW = r]
    BY <1>3, Assignments DEF Stored
  <2>. QED  BY <1>3, <2>1 DEF Memory
<1>. QED  BY <1>1, <1>2, <1>3 DEF Counters

(* The counters after it.                                                  *)
LEMMA CountsOn ==
  ASSUME NEW s \in Counters, NEW n \in Successor[s], NEW r,
         NEW m, NEW e \in Nat, NEW c \in Nat, NEW q, NEW b \in Nat, SumOf(q) \in Nat,
         Counts(s, TRUE, r, m, e, c, q, b), NEW x,
         x.rcv = (IF s \in {"countRcv", "carryRcv"} THEN r ELSE m.rcv),
         x.snt = (IF s = "carrySnt" THEN r ELSE m.snt),
         x.sntW = (IF s \in {"countSnt", "reset"} THEN r ELSE m.sntW)
  PROVE  Counts(n, FALSE, 0, x, IF s = "countRcv" THEN e + b ELSE e,
                IF s = "countSnt" THEN c + b ELSE c, q, b)
<1>. USE DEF Counts, Ends, Pushing
<1>1. CASE s = "countSnt"
  <2>1. n \in {"body", "none"}
    BY <1>1 DEF Successor
  <2>. QED  BY <1>1, <2>1
<1>2. CASE s = "countRcv"
  <2>1. n \in {"window", "none"}
    BY <1>2 DEF Successor
  <2>. QED  BY <1>2, <2>1
<1>3. CASE s = "carryRcv"
  <2>1. n = "carrySnt"
    BY <1>3 DEF Successor
  <2>. QED  BY <1>3, <2>1
<1>4. CASE s = "carrySnt"
  <2>1. n = "reset"
    BY <1>4 DEF Successor
  <2>. QED  BY <1>4, <2>1
<1>5. CASE s = "reset"
  <2>1. n = "none"
    BY <1>5 DEF Successor
  <2>. QED  BY <1>5, <2>1
<1>. QED  BY <1>1, <1>2, <1>3, <1>4, <1>5 DEF Counters

(* The statements of Mavg_push change no counter.                          *)
LEMMA CountsKept ==
  ASSUME NEW s, NEW n, NEW h, NEW r, NEW m, NEW e, NEW c, NEW q, NEW b,
         Counts(s, h, r, m, e, c, q, b), s \in Ends \ {"reset"} <=> n \in Ends \ {"reset"},
         s # "reset", n # "reset", NEW x, x.rcv = m.rcv, x.snt = m.snt, x.sntW = m.sntW
  PROVE  Counts(n, FALSE, 0, x, e, c, q, b)
BY DEF Counts

(* And those on counters not the moving average.                           *)
LEMMA AveragesKept ==
  ASSUME NEW s \in Counters \cup {"none", "body", "window"},
         NEW n \in Counters \cup {"none", "body", "window"},
         NEW h, NEW r, NEW y, NEW z, NEW m, NEW q, Averages(s, h, r, y, m, q),
         NEW x, x.vec = m.vec, x.begin = m.begin, x.sum = m.sum
  PROVE  Averages(n, FALSE, 0, z, x, q)
BY DEF Averages, Counters, Pushing, Replacing

(* What an assignment of Mavg_push changes.                                *)
LEMMA RingWritten ==
  ASSUME NEW m \in Memory, NEW s \in Pushing, NEW r, NEW x,
         x = Stored(m, Target[s], r)
  PROVE  /\ x.rcv = m.rcv /\ x.snt = m.snt /\ x.sntW = m.sntW
         /\ x.vec = (IF s \in {"append", "slot"} THEN r ELSE m.vec)
         /\ x.begin = (IF s = "advance" THEN r ELSE m.begin)
         /\ x.sum = (IF s \in {"first", "add", "replace"} THEN r ELSE m.sum)
<1>1. CASE s \in {"append", "slot"}
  <2>1. x = [m EXCEPT !.vec = r]
    BY <1>1, Assignments DEF Stored
  <2>. QED  BY <1>1, <2>1 DEF Memory
<1>2. CASE s = "advance"
  <2>1. x = [m EXCEPT !.begin = r]
    BY <1>2, Assignments DEF Stored
  <2>. QED  BY <1>2, <2>1 DEF Memory
<1>3. CASE s \in {"first", "add", "replace"}
  <2>1. x = [m EXCEPT !.sum = r]
    BY <1>3, Assignments DEF Stored
  <2>. QED  BY <1>3, <2>1 DEF Memory
<1>. QED  BY <1>1, <1>2, <1>3 DEF Pushing

(* append, on a ring that has never been full.                             *)
LEMMA Appended ==
  ASSUME NEW u \in Seq(Nat), NEW y \in Nat, NEW q \in Seq(Nat), q # <<>>, y = Last(q),
         Len(Before(q)) < TimeWindow, Entries(u, 0, Before(q))
  PROVE  Entries(SubSeq(u, 1, Len(u)) \o <<y>>, 0, Latest(q))
<1>. DEFINE v == Before(q)  w == Latest(q)  n == Len(v)  r == SubSeq(u, 1, Len(u)) \o <<y>>
<1>1. /\ n \in Nat /\ n < TimeWindow /\ Len(u) = n /\ Laid(TimeWindow, u, 0, n, v)
      /\ TimeWindow \in Nat \ {0} /\ Slides(TimeWindow, n, v, y, w) /\ Len(w) = n + 1
  BY ClosedIs, ApplicationAssumption DEF Entries, Next1
<1>2. /\ r \in Seq(Nat) /\ Len(r) = Len(u) + 1 /\ r[Len(u) + 1] = y
      /\ \A k \in 1..Len(u) : r[k] = u[k]
  <2>1. SubSeq(u, 1, Len(u)) = u
    OBVIOUS
  <2>2. \A f \in Seq(Nat), z \in Nat :
          /\ f \o <<z>> \in Seq(Nat) /\ Len(f \o <<z>>) = Len(f) + 1
          /\ (f \o <<z>>)[Len(f) + 1] = z /\ \A k \in 1..Len(f) : (f \o <<z>>)[k] = f[k]
    OBVIOUS
  <2>3. r = u \o <<y>>
    BY <2>1
  <2>. HIDE DEF r
  <2>. QED  BY <2>2, <2>3
<1>. HIDE DEF n, r, v, w
<1>3. Laid(TimeWindow, r, 0, n + 1, w)
  BY <1>1, <1>2, GrowSlots
<1>. QED  BY <1>1, <1>2, <1>3 DEF Entries, r, w

(* vec[begin] = y, on a full one.                                          *)
LEMMA Overwritten ==
  ASSUME NEW u \in Seq(Nat), NEW i \in 0..(TimeWindow - 1), NEW y \in Nat,
         NEW q \in Seq(Nat), q # <<>>, y = Last(q),
         Len(Before(q)) = TimeWindow, Entries(u, i, Before(q))
  PROVE  Entries([u EXCEPT ![i + 1] = y], Wrapped(TimeWindow, i), Latest(q))
<1>. DEFINE v == Before(q)  w == Latest(q)  n == TimeWindow  r == [u EXCEPT ![i + 1] = y]
<1>1. /\ n \in Nat \ {0} /\ Len(u) = n /\ Laid(n, u, i, n, v) /\ Len(w) = n
      /\ Slides(n, n, v, y, w)
  BY ClosedIs, ApplicationAssumption DEF Entries, Next1
<1>2. Len(r) = n /\ Replaced(u, i, n, y, r)
  <2>1. u = [k \in 1..n |-> u[k]]
    BY <1>1
  <2>2. r = [k \in 1..n |-> IF k = i + 1 THEN y ELSE u[k]]
    BY <2>1
  <2>3. \A k \in 1..n : u[k] \in Nat
    BY <1>1
  <2>4. r \in [1..n -> Nat]
    <3>. HIDE DEF r
    <3>. QED  BY <2>2, <2>3
  <2>5. Len(r) = n
    <3>1. \A f \in [1..n -> Nat] : Len(f) = n
      BY <1>1
    <3>. HIDE DEF r
    <3>. QED  BY <2>4, <3>1
  <2>. HIDE DEF r
  <2>. QED  BY <2>2, <2>5 DEF Replaced
<1>. HIDE DEF r, v, w
<1>3. Laid(n, r, Wrapped(n, i), n, w)
  BY <1>1, <1>2, OverwriteSlots
<1>. QED  BY <1>1, <1>2, <1>3 DEF Entries, r, w

(* The moving average after a statement of Mavg_push.                      *)
LEMMA RingOn ==
  ASSUME NEW s \in Pushing, NEW n \in Successor[s], NEW r, NEW y \in Nat,
         NEW m, m.vec \in Seq(Nat), m.begin \in 0..(TimeWindow - 1),
         NEW q \in Seq(Nat), q # <<>>, Averages(s, TRUE, r, y, m, q), NEW x,
         s = "append" => x.vec = SubSeq(m.vec, 1, r) \o <<y>>,
         s = "slot" => x.vec = [m.vec EXCEPT ![r + 1] = y],
         s \notin {"append", "slot"} => x.vec = m.vec,
         x.begin = (IF s = "advance" THEN r ELSE m.begin),
         x.sum = (IF s \in {"first", "add", "replace"} THEN r ELSE m.sum)
  PROVE  Averages(n, FALSE, 0, y, x, q)
<1>1. CASE s = "append"
  <2>1. n \in {"first", "add"} /\ r = Len(m.vec) /\ x.begin = m.begin /\ x.sum = m.sum
    BY <1>1 DEF Successor, Averages
  <2>2. /\ Entries(m.vec, m.begin, Before(q)) /\ Len(Before(q)) < TimeWindow
        /\ y = Last(q) /\ m.sum = SumOf(Before(q))
    BY <1>1 DEF Averages
  <2>3. m.begin = 0
    BY <2>2 DEF Entries
  <2>. DEFINE u == m.vec
  <2>4. u \in Seq(Nat) /\ Entries(u, 0, Before(q)) /\ x.vec = SubSeq(u, 1, Len(u)) \o <<y>>
    BY <1>1, <2>1, <2>2, <2>3
  <2>. HIDE DEF u
  <2>5. Entries(SubSeq(u, 1, Len(u)) \o <<y>>, 0, Latest(q))
    BY <2>2, <2>4, Appended
  <2>6. Entries(x.vec, x.begin, Latest(q))
    BY <2>1, <2>3, <2>4, <2>5
  <2>. QED  BY <2>1, <2>2, <2>6 DEF Averages, Replacing
<1>2. CASE s \in {"first", "add"}
  <2>1. n = "carryRcv"
    BY <1>2 DEF Successor
  <2>. QED  BY <1>2, <2>1 DEF Averages, Pushing, Replacing
<1>3. CASE s = "replace"
  <2>1. n = "slot"
    BY <1>3 DEF Successor
  <2>. QED  BY <1>3, <2>1 DEF Averages, Pushing, Replacing
<1>4. CASE s = "slot"
  <2>1. n = "advance" /\ r = m.begin /\ x.begin = m.begin /\ x.sum = m.sum
    BY <1>4 DEF Successor, Averages
  <2>2. /\ Entries(m.vec, m.begin, Before(q)) /\ Len(Before(q)) = TimeWindow
        /\ y = Last(q) /\ m.sum = SumOf(Latest(q))
    BY <1>4 DEF Averages, Pushing, Replacing
  <2>3. x.vec = [m.vec EXCEPT ![m.begin + 1] = y]
    BY <1>4, <2>1
  <2>4. Entries([m.vec EXCEPT ![m.begin + 1] = y], Wrapped(TimeWindow, m.begin), Latest(q))
    BY <2>2, Overwritten
  <2>5. Entries(x.vec, Wrapped(TimeWindow, x.begin), Latest(q))
    BY <2>1, <2>3, <2>4
  <2>. QED  BY <2>1, <2>2, <2>5 DEF Averages, Replacing
<1>5. CASE s = "advance"
  <2>1. n = "carryRcv"
    BY <1>5 DEF Successor
  <2>. QED  BY <1>5, <2>1 DEF Averages, Pushing, Replacing
<1>. QED  BY <1>1, <1>2, <1>3, <1>4, <1>5 DEF Pushing

(* Assigning a value.                                                      *)
LEMMA Writes ==
  ASSUME Typed, Booked, ~ wild, NEW g \in Goroutines, NEW s \in DOMAIN Target, Assign(g, s),
         Midway(todo[g], half[g], reg[g], arg[g], mem, received, now, closed, config.resSize)
  PROVE  /\ Booked' /\ ~ wild'
         /\ Midway(Tail(todo[g]), FALSE, 0, arg[g], mem', received', now', closed, config.resSize)
<1>. DEFINE t == Tail(todo[g])  n == Statement(t)  r == reg[g]  y == arg[g]
<1>0. /\ todo[g] # <<>> /\ Head(todo[g]) = s /\ half[g] = TRUE
      /\ wild' = (wild \/ Garbles(s, r))
      /\ received' = (IF s = "countRcv" THEN received + config.resSize ELSE received)
      /\ now' = (IF s = "countSnt" THEN now + config.resSize ELSE now) /\ closed' = closed
  BY DEF Assign, At, Typed
<1>1. Statement(todo[g]) = s
  BY <1>0 DEF Statement
<1>2. /\ todo[g] \in Remainders
      /\ todo[g] \in Firsts => Len(Before(closed)) = 0
      /\ Counts(s, TRUE, r, mem, received, now, closed, config.resSize)
      /\ Averages(s, TRUE, r, y, mem, closed)
  BY <1>0, <1>1 DEF Midway
<1>3. t \in Remainders /\ (t \in Firsts => Len(Before(closed)) = 0) /\ n \in Successor[s]
  BY <1>0, <1>2, Remaining
<1>4. s \in Counters \/ s \in Pushing
  BY Assignments DEF Counters, Pushing
<1>5. y \in Nat /\ Fits(todo[g], TRUE, r, mem, wild)
  BY <1>0 DEF Typed
<1>6. Booked'
  <2>1. /\ received \in Nat /\ now \in Nat /\ config.resSize \in Nat
        /\ \A i, j \in Nat : i + j \in Nat
    BY Known
  <2>2. received' \in Nat /\ now' \in Nat
    BY <1>0, <2>1, Zenon
  <2>. QED  BY <1>0, <2>2 DEF Booked
<1>. HIDE DEF t, n, r, y
<1>7. CASE s \in Counters
  <2>1. r \in Nat
    BY <1>0, <1>5, <1>7 DEF Fits
  <2>2. mem' = [mem EXCEPT ![Target[s]] = r] /\ ~ wild'
    BY <1>0, <1>7 DEF Assign, Garbles, Counters, r
  <2>3. /\ mem'.vec = mem.vec /\ mem'.begin = mem.begin /\ mem'.sum = mem.sum
        /\ mem'.rcv = (IF s \in {"countRcv", "carryRcv"} THEN r ELSE mem.rcv)
        /\ mem'.snt = (IF s = "carrySnt" THEN r ELSE mem.snt)
        /\ mem'.sntW = (IF s \in {"countSnt", "reset"} THEN r ELSE mem.sntW)
    <3>. DEFINE m == mem  x == mem'
    <3>1. m \in Memory /\ x = Stored(m, Target[s], r)
      BY <2>2, Known DEF Stored
    <3>. HIDE DEF m, x
    <3>2. /\ x.vec = m.vec /\ x.begin = m.begin /\ x.sum = m.sum
          /\ x.rcv = (IF s \in {"countRcv", "carryRcv"} THEN r ELSE m.rcv)
          /\ x.snt = (IF s = "carrySnt" THEN r ELSE m.snt)
          /\ x.sntW = (IF s \in {"countSnt", "reset"} THEN r ELSE m.sntW)
      BY <1>7, <2>1, <3>1, CounterWritten
    <3>. QED  BY <3>2 DEF m, x
  <2>4. Counts(n, FALSE, 0, mem', received', now', closed, config.resSize)
    <3>. DEFINE m == mem
                x == mem'
                e == received
                c == now
                q == closed
                b == config.resSize
    <3>1. /\ e \in Nat /\ c \in Nat /\ b \in Nat /\ SumOf(q) \in Nat
          /\ Counts(s, TRUE, r, m, e, c, q, b)
          /\ x.rcv = (IF s \in {"countRcv", "carryRcv"} THEN r ELSE m.rcv)
          /\ x.snt = (IF s = "carrySnt" THEN r ELSE m.snt)
          /\ x.sntW = (IF s \in {"countSnt", "reset"} THEN r ELSE m.sntW)
      BY <1>2, <2>3, Known
    <3>2. received' = (IF s = "countRcv" THEN e + b ELSE e) /\ closed' = q
          /\ now' = (IF s = "countSnt" THEN c + b ELSE c)
      BY <1>0
    <3>. HIDE DEF m, x, e, c, q, b
    <3>3. Counts(n, FALSE, 0, x, IF s = "countRcv" THEN e + b ELSE e,
                 IF s = "countSnt" THEN c + b ELSE c, q, b)
      BY <1>3, <1>7, <3>1, CountsOn
    <3>. QED  BY <3>2, <3>3 DEF x, q, b
  <2>5. n \in Counters \cup {"none", "body", "window"}
    BY <1>3, <1>7 DEF Counters, Successor
  <2>6. Averages(n, FALSE, 0, y, mem', closed)
    BY <1>2, <1>7, <2>3, <2>5, AveragesKept
  <2>. QED  BY <1>3, <1>6, <2>2, <2>4, <2>6 DEF Midway, n, t, y
<1>8. CASE s \in Pushing
  <2>0. s \notin Counters /\ closed # <<>> /\ s \in Ends \ {"reset"}
    BY <1>2, <1>8 DEF Counts, Ends, Pushing, Counters
  <2>1. ~ Garbles(s, r)
    <3>1. CASE s = "append"
      <4>. DEFINE k == Len(mem.vec)
      <4>1. r = k /\ k = Len(Before(closed)) /\ Len(Before(closed)) < TimeWindow /\ k \in Nat
            /\ TimeWindow \in Nat
        BY <1>2, <3>1, Known DEF Averages, Entries
      <4>. HIDE DEF k
      <4>2. ~ (r >= TimeWindow) /\ ~ (r + 1 < k)
        BY <4>1
      <4>. QED  BY <4>2 DEF Garbles, k
    <3>. QED  BY <3>1 DEF Garbles
  <2>2. ~ wild'
    BY <1>0, <2>1
  <2>. DEFINE e == IF Target[s] = "vec" THEN Written(s, r, y) ELSE r
  <2>3. mem' = IF Target[s] = "vec" THEN [mem EXCEPT !.vec = e] ELSE [mem EXCEPT ![Target[s]] = e]
    BY <2>0, <2>2 DEF Assign, r, y
  <2>4. /\ s = "append" => e = SubSeq(mem.vec, 1, r) \o <<y>>
        /\ s = "slot" => e = [mem.vec EXCEPT ![r + 1] = y]
        /\ s \notin {"append", "slot"} => e = r
    BY <1>8, Assignments DEF Written, Pushing
  <2>. HIDE DEF e
  <2>5. /\ mem'.rcv = mem.rcv /\ mem'.snt = mem.snt /\ mem'.sntW = mem.sntW
        /\ mem'.vec = (IF s \in {"append", "slot"} THEN e ELSE mem.vec)
        /\ mem'.begin = (IF s = "advance" THEN e ELSE mem.begin)
        /\ mem'.sum = (IF s \in {"first", "add", "replace"} THEN e ELSE mem.sum)
    <3>. DEFINE m == mem  x == mem'
    <3>1. m \in Memory /\ x = Stored(m, Target[s], e)
      BY <2>3, Known DEF Stored
    <3>. HIDE DEF m, x
    <3>2. /\ x.rcv = m.rcv /\ x.snt = m.snt /\ x.sntW = m.sntW
          /\ x.vec = (IF s \in {"append", "slot"} THEN e ELSE m.vec)
          /\ x.begin = (IF s = "advance" THEN e ELSE m.begin)
          /\ x.sum = (IF s \in {"first", "add", "replace"} THEN e ELSE m.sum)
      BY <1>8, <3>1, RingWritten
    <3>. QED  BY <3>2 DEF m, x
  <2>6. /\ s = "append" => mem'.vec = SubSeq(mem.vec, 1, r) \o <<y>>
        /\ s = "slot" => mem'.vec = [mem.vec EXCEPT ![r + 1] = y]
        /\ s \notin {"append", "slot"} => mem'.vec = mem.vec
        /\ mem'.begin = (IF s = "advance" THEN r ELSE mem.begin)
        /\ mem'.sum = (IF s \in {"first", "add", "replace"} THEN r ELSE mem.sum)
    BY <2>4, <2>5
  <2>7. Averages(n, FALSE, 0, y, mem', closed)
    BY <1>2, <1>3, <1>5, <1>8, <2>0, <2>6, Known, RingOn
  <2>8. n \in Ends \ {"reset"}
    BY <1>3, <1>8 DEF Pushing, Ends, Successor
  <2>9. received' = received /\ now' = now
    BY <1>0, <1>8 DEF Pushing
  <2>10. Counts(n, FALSE, 0, mem', received, now, closed, config.resSize)
    BY <1>2, <2>0, <2>5, <2>8, CountsKept
  <2>. QED  BY <1>3, <1>6, <2>2, <2>7, <2>9, <2>10 DEF Midway, n, t, y
<1>. QED  BY <1>4, <1>7, <1>8

(* The statements outside of the closing of a window.                      *)
Plain == {"none", "body", "window", "countSnt", "countRcv"}

(* Between them nothing but the statement changes.                         *)
LEMMA PlainOn ==
  ASSUME NEW s \in Plain, NEW n \in Plain, NEW h, NEW r, NEW y, NEW m, NEW e, NEW c, NEW q, NEW b,
         Counts(s, h, r, m, e, c, q, b), Averages(s, h, r, y, m, q), NEW i, NEW z
  PROVE  Counts(n, FALSE, i, m, e, c, q, b) /\ Averages(n, FALSE, i, z, m, q)
<1>1. Counts(n, FALSE, i, m, e, c, q, b)
  BY DEF Counts, Plain, Ends, Pushing
<1>2. Averages(n, FALSE, i, z, m, q)
  BY DEF Averages, Plain, Pushing, Replacing
<1>. QED  BY <1>1, <1>2

(* What the callbacks begin with.                                          *)
Starting == {<<"countSnt", "body", "window">>, <<"body", "countRcv", "window">>,
             <<"countRcv">>, <<"countSnt">>}

(* These, and how a window is closed, are remainders.                      *)
LEMMA FirstStatements ==
  /\ \A t \in Starting \cup {<<>>} :
       t \in Remainders /\ t \notin Firsts /\ Statement(t) \in Plain
  /\ Statement(<<>>) = "none"
  /\ Statement(Closing) = "push" /\ Closing \in Remainders \ Firsts
<1>1. Statement(<<>>) = "none"
  BY DEF Statement
<1>2. \A t \in Starting : t \in Remainders /\ t \notin Firsts /\ Statement(t) \in Plain
  BY DEF Starting, Remainders, Firsts, Statement, Plain
<1>3. <<>> \in Remainders /\ <<>> \notin Firsts
  BY DEF Remainders, Firsts
<1>4. Statement(Closing) = "push" /\ Closing \in Remainders \ Firsts
  BY DEF Statement, Remainders, Firsts, Closing
<1>. QED  BY <1>1, <1>2, <1>3, <1>4 DEF Plain

(* A call begins, or is over.                                              *)
LEMMA Starts ==
  ASSUME NEW t \in Starting \cup {<<>>},
         NEW u, Statement(u) \in Plain, NEW h, NEW r, NEW y, NEW m, NEW e, NEW c, NEW q, NEW b,
         Midway(u, h, r, y, m, e, c, q, b), NEW i, NEW z
  PROVE  Midway(t, FALSE, i, z, m, e, c, q, b)
<1>1. Counts(Statement(u), h, r, m, e, c, q, b) /\ Averages(Statement(u), h, r, y, m, q)
  BY DEF Midway
<1>2. t \in Remainders /\ t \notin Firsts /\ Statement(t) \in Plain
  BY FirstStatements
<1>3. Counts(Statement(t), FALSE, i, m, e, c, q, b) /\ Averages(Statement(t), FALSE, i, z, m, q)
  BY <1>1, <1>2, PlainOn
<1>. QED  BY <1>2, <1>3 DEF Midway

(* The body is made.                                                       *)
LEMMA BodyOn ==
  ASSUME NEW u, u # <<>>, Head(u) = "body", NEW h, NEW r, NEW y,
         NEW m, NEW e, NEW c, NEW q, NEW b,
         Midway(u, h, r, y, m, e, c, q, b), NEW i, NEW z
  PROVE  Midway(Tail(u), FALSE, i, z, m, e, c, q, b)
<1>1. /\ Counts("body", h, r, m, e, c, q, b) /\ Averages("body", h, r, y, m, q)
      /\ u \in Remainders /\ (u \in Firsts => Len(Before(q)) = 0)
  BY DEF Midway, Statement
<1>2. /\ Tail(u) \in Remainders /\ (Tail(u) \in Firsts => Len(Before(q)) = 0)
      /\ Statement(Tail(u)) \in {"window", "countRcv"}
  BY <1>1, Remaining DEF Successor
<1>3. /\ Counts(Statement(Tail(u)), FALSE, i, m, e, c, q, b)
      /\ Averages(Statement(Tail(u)), FALSE, i, z, m, q)
  <2>1. Statement(Tail(u)) \in Plain /\ "body" \in Plain
    BY <1>2 DEF Plain
  <2>. QED  BY <1>1, <2>1, PlainOn
<1>. QED  BY <1>2, <1>3 DEF Midway

(* A window is closed.                                                     *)
LEMMA Closes ==
  ASSUME NEW u, u # <<>>, Head(u) = "window", NEW h, NEW r, NEW y,
         NEW m, m.snt \in Nat, NEW e, NEW c \in Nat, NEW q \in Seq(Nat), NEW b,
         Midway(u, h, r, y, m, e, c, q, b), NEW i, NEW z
  PROVE  Midway(Closing, FALSE, i, z, m, e, 0, Append(q, c), b)
<1>. DEFINE a == Append(q, c)
<1>1. Counts("window", h, r, m, e, c, q, b) /\ Averages("window", h, r, y, m, q)
  BY DEF Midway, Statement
<1>2. a \in Seq(Nat) /\ a # <<>> /\ Last(a) = c /\ Before(a) = Latest(q)
  BY FrontLast DEF Before
<1>3. SumOf(a) = SumOf(q) + c
  BY SumOfAppend
<1>. HIDE DEF a
<1>4. m.rcv = e /\ m.sntW = c /\ m.snt + 0 = SumOf(q)
  BY <1>1 DEF Counts, Ends, Pushing
<1>5. Counts("push", FALSE, i, m, e, 0, a, b)
  <2>1. m.snt + c = SumOf(a)
    BY <1>3, <1>4
  <2>. QED  BY <1>2, <1>4, <2>1 DEF Counts, Ends
<1>6. Averages("push", FALSE, i, z, m, a)
  <2>1. Entries(m.vec, m.begin, Latest(q)) /\ m.sum = SumOf(Latest(q))
    BY <1>1 DEF Averages
  <2>. QED  BY <1>2, <2>1 DEF Averages, Pushing, Replacing
<1>. QED  BY <1>5, <1>6, FirstStatements DEF Midway, a

(* Tuples, joined.                                                         *)
LEMMA Joined ==
  /\ \A a, b, d, e, f : <<a, b>> \o <<d, e, f>> = <<a, b, d, e, f>>
  /\ \A a, b, c, d, e, f : <<a, b, c>> \o <<d, e, f>> = <<a, b, c, d, e, f>>
<1>1. ASSUME NEW a, NEW b, NEW d, NEW e, NEW f
      PROVE  <<a, b>> \o <<d, e, f>> = <<a, b, d, e, f>>
  <2>. DEFINE S == {a, b, d, e, f}
              t == <<a, b>> \o <<d, e, f>>
  <2>1. /\ t \in Seq(S) /\ Len(t) = 5
        /\ t[1] = a /\ t[2] = b /\ t[3] = d /\ t[4] = e /\ t[5] = f
    OBVIOUS
  <2>2. \A s \in Seq(S) : Len(s) = 5 => s = <<s[1], s[2], s[3], s[4], s[5]>>
    OBVIOUS
  <2>. HIDE DEF S, t
  <2>3. t = <<a, b, d, e, f>>
    BY <2>1, <2>2
  <2>. QED  BY <2>3 DEF t
<1>2. ASSUME NEW a, NEW b, NEW c, NEW d, NEW e, NEW f
      PROVE  <<a, b, c>> \o <<d, e, f>> = <<a, b, c, d, e, f>>
  <2>. DEFINE S == {a, b, c, d, e, f}
              t == <<a, b, c>> \o <<d, e, f>>
  <2>1. /\ t \in Seq(S) /\ Len(t) = 6
        /\ t[1] = a /\ t[2] = b /\ t[3] = c /\ t[4] = d /\ t[5] = e /\ t[6] = f
    OBVIOUS
  <2>2. \A s \in Seq(S) : Len(s) = 6 => s = <<s[1], s[2], s[3], s[4], s[5], s[6]>>
    OBVIOUS
  <2>. HIDE DEF S, t
  <2>3. t = <<a, b, c, d, e, f>>
    BY <2>1, <2>2
  <2>. QED  BY <2>3 DEF t
<1>. QED  BY <1>1, <1>2

(* Mavg_push takes the branch that its ring calls for.                     *)
LEMMA Branches ==
  ASSUME NEW u, u # <<>>, Head(u) = "push", NEW h, NEW r, NEW y,
         NEW m, Len(m.vec) \in 0..TimeWindow, m.vec = <<>> <=> Len(m.vec) = 0,
         NEW e, NEW c, NEW q, NEW b, Midway(u, h, r, y, m, e, c, q, b), NEW i
  PROVE  Midway((IF m.vec = <<>> THEN <<"append", "first">>
                 ELSE IF Len(m.vec) < TimeWindow THEN <<"append", "add">>
                 ELSE <<"replace", "slot", "advance">>) \o Tail(u),
                FALSE, i, m.sntW, m, e, c, q, b)
<1>. DEFINE p == IF m.vec = <<>> THEN <<"append", "first">>
                 ELSE IF Len(m.vec) < TimeWindow THEN <<"append", "add">>
                 ELSE <<"replace", "slot", "advance">>
            t == p \o Tail(u)
            k == Len(m.vec)
            n == IF k < TimeWindow THEN "append" ELSE "replace"
<1>0. TimeWindow \in Nat \ {0} /\ k \in 0..TimeWindow
  BY ApplicationAssumption
<1>1. /\ Counts("push", h, r, m, e, c, q, b) /\ Averages("push", h, r, y, m, q)
      /\ u \in Remainders
  BY DEF Midway, Statement
<1>2. Tail(u) = Ending
  BY <1>1, Remaining
<1>. /\ <<"append", "first">> \o Ending = <<"append", "first", "carryRcv", "carrySnt", "reset">>
     /\ <<"append", "add">> \o Ending = <<"append", "add", "carryRcv", "carrySnt", "reset">>
     /\ <<"replace", "slot", "advance">> \o Ending =
          <<"replace", "slot", "advance", "carryRcv", "carrySnt", "reset">>
  BY Joined DEF Ending
<1>3. k = Len(Before(q)) /\ m.sntW = Last(q)
  BY <1>1 DEF Averages, Entries, Counts, Ends
<1>4. /\ t \in Remainders /\ (t \in Firsts => k = 0) /\ Statement(t) = n
  <2>1. CASE m.vec = <<>>
    <3>1. t = <<"append", "first", "carryRcv", "carrySnt", "reset">>
      BY <1>2, <2>1
    <3>2. k = 0
      BY <2>1
    <3>. HIDE DEF t, k
    <3>. QED  BY <1>0, <3>1, <3>2 DEF Remainders, Firsts, Statement
  <2>2. CASE m.vec # <<>> /\ k < TimeWindow
    <3>1. t = <<"append", "add", "carryRcv", "carrySnt", "reset">>
      BY <1>2, <2>2
    <3>. HIDE DEF t, k
    <3>. QED  BY <2>2, <3>1 DEF Remainders, Firsts, Statement
  <2>3. CASE m.vec # <<>> /\ ~ k < TimeWindow
    <3>1. t = <<"replace", "slot", "advance", "carryRcv", "carrySnt", "reset">>
      BY <1>2, <2>3
    <3>. HIDE DEF t, k
    <3>. QED  BY <2>3, <3>1 DEF Remainders, Firsts, Statement
  <2>. QED  BY <2>1, <2>2, <2>3
<1>. HIDE DEF t, k
<1>5. Counts(n, FALSE, i, m, e, c, q, b)
  BY <1>1 DEF Counts, Ends, Pushing
<1>6. Averages(n, FALSE, i, m.sntW, m, q)
  <2>1. Entries(m.vec, m.begin, Before(q)) /\ m.sum = SumOf(Before(q))
    BY <1>1 DEF Averages
  <2>. QED  BY <1>0, <1>3, <2>1 DEF Averages, Replacing
<1>. QED  BY <1>3, <1>4, <1>5, <1>6 DEF Midway, t

-----------------------------------------------------------------------------
(* Initially no call is in progress.                                       *)
LEMMA InitAlone == Init => Alone
<1>. SUFFICES ASSUME Init  PROVE Alone
  OBVIOUS
<1>0. received = 0 /\ now = 0 /\ closed = <<>> /\ ~ wild /\ TimeWindow \in Nat \ {0}
  BY ApplicationAssumption DEF Init
<1>1. Booked
  BY <1>0 DEF Booked
<1>2. \A g \in Goroutines : ~ Busy(g)
  BY DEF Init, Busy
<1>3. Latest(<<>>) \in Seq(Nat) /\ Len(Latest(<<>>)) = 0
  <2>1. <<>> \in Seq(Nat) /\ Len(<<>>) = 0
    OBVIOUS
  <2>2. ASSUME NEW q \in Seq(Nat), Len(q) = 0
        PROVE  Latest(q) \in Seq(Nat) /\ Len(Latest(q)) = 0
    <3>1. /\ Latest(q) \in Seq(Nat)
          /\ Len(Latest(q)) = (IF Len(q) > TimeWindow THEN TimeWindow ELSE Len(q))
      BY LatestIs
    <3>. QED  BY <1>0, <2>2, <3>1
  <2>. QED  BY <2>1, <2>2
<1>4. SumOf(<<>>) = 0 /\ SumOf(Latest(<<>>)) = 0
  BY <1>3, SumOfNone
<1>5. /\ mem.rcv = 0 /\ mem.snt = 0 /\ mem.sntW = 0 /\ mem.vec = <<>> /\ mem.begin = 0
      /\ mem.sum = 0
  BY DEF Init
<1>6. Counts("none", FALSE, 0, mem, received, now, closed, config.resSize)
  BY <1>0, <1>4, <1>5 DEF Counts, Ends, Pushing
<1>7. Averages("none", FALSE, 0, 0, mem, closed)
  <2>1. Entries(<<>>, 0, Latest(<<>>))
    <3>. DEFINE w == Latest(<<>>)
    <3>1. Len(w) = 0
      BY <1>3
    <3>. HIDE DEF w
    <3>2. Len(<<>>) = 0 /\ Laid(TimeWindow, <<>>, 0, 0, w)
      BY DEF Laid
    <3>3. Entries(<<>>, 0, w)
      BY <3>1, <3>2 DEF Entries
    <3>. QED  BY <3>3 DEF w
  <2>. QED  BY <1>0, <1>4, <1>5, <2>1 DEF Averages, Pushing, Replacing
<1>8. Midway(<<>>, FALSE, 0, 0, mem, received, now, closed, config.resSize)
  BY <1>6, <1>7, FirstStatements DEF Midway
<1>. QED  BY <1>0, <1>1, <1>2, <1>8 DEF Alone

(* A step inside of the only call.                                         *)
LEMMA StillAlone ==
  ASSUME Alone, NEW g \in Goroutines, Busy(g), where' = where, config' = config,
         overlapped' = overlapped, Booked', ~ overlapped => ~ wild',
         ~ overlapped =>
           Midway(todo'[g], half'[g], reg'[g], arg'[g], mem', received', now', closed',
                  config.resSize)
  PROVE  Alone'
<1>1. \A h \in Goroutines : Busy(h)' = Busy(h)
  BY DEF Busy
<1>2. ASSUME ~ overlapped, NEW h \in Goroutines, Busy(h)  PROVE h = g
  BY <1>2 DEF Alone
<1>. QED  BY <1>1, <1>2 DEF Alone

(* A call begins or ends.                                                  *)
LEMMA CallsAlone ==
  ASSUME Typed, Alone, NEW g \in Goroutines, todo[g] = <<>>,
         UNCHANGED <<config, half, reg, arg, mem, wild, received, now, closed>>,
         \A h \in Goroutines \ {g} : where'[h] = where[h] /\ todo'[h] = todo[h],
         \/ /\ overlapped' = (overlapped \/ \E h \in Goroutines : Busy(h))
            /\ todo'[g] \in Starting
         \/ overlapped' = overlapped /\ where'[g] \in {"idle", "waiting"}
  PROVE  Alone'
<1>1. Booked'
  BY DEF Alone, Booked
<1>2. half[g] = FALSE
  BY NotHalf
<1>3. CASE overlapped'
  BY <1>1, <1>3 DEF Alone
<1>4. CASE ~ overlapped' /\ ~ \E h \in Goroutines : Busy(h)
  <2>0. Statement(<<>>) \in Plain
    BY FirstStatements DEF Plain
  <2>1. ~ wild /\ Midway(<<>>, FALSE, 0, 0, mem, received, now, closed, config.resSize)
    BY <1>4 DEF Alone
  <2>2. \A h \in Goroutines \ {g} : ~ Busy(h)'
    BY <1>4 DEF Busy
  <2>3. CASE todo'[g] \in Starting
    <3>1. Midway(todo'[g], FALSE, reg[g], arg[g], mem, received, now, closed, config.resSize)
      BY <2>1, <2>3, <2>0, Starts
    <3>. QED  BY <1>1, <1>2, <2>1, <2>2, <3>1 DEF Alone
  <2>4. CASE where'[g] \in {"idle", "waiting"}
    <3>1. ~ Busy(g)'
      BY <2>4 DEF Busy
    <3>. QED  BY <1>1, <2>1, <2>2, <3>1 DEF Alone
  <2>. QED  BY <2>3, <2>4
<1>5. CASE /\ ~ overlapped' /\ overlapped' = overlapped /\ where'[g] \in {"idle", "waiting"}
           /\ \E h \in Goroutines : Busy(h)
  <2>1. ~ Busy(g)'
    BY <1>5 DEF Busy
  <2>2. CASE Busy(g)
    <3>1. /\ Midway(<<>>, FALSE, reg[g], arg[g], mem, received, now, closed, config.resSize)
          /\ ~ wild
      BY <1>2, <1>5, <2>2 DEF Alone
    <3>2. Midway(<<>>, FALSE, 0, 0, mem, received, now, closed, config.resSize)
      <4>1. Statement(<<>>) \in Plain
        BY FirstStatements DEF Plain
      <4>. QED  BY <3>1, <4>1, Starts
    <3>3. \A h \in Goroutines : ~ Busy(h)'
      BY <1>5, <2>1, <2>2 DEF Alone, Busy
    <3>. QED  BY <1>1, <3>1, <3>2, <3>3 DEF Alone
  <2>3. CASE ~ Busy(g)
    <3>1. \A h \in Goroutines : Busy(h)' = Busy(h)
      BY <2>1, <2>3 DEF Busy
    <3>2. \A h \in Goroutines : Busy(h) => todo'[h] = todo[h]
      BY <2>3
    <3>. QED  BY <1>1, <1>5, <3>1, <3>2 DEF Alone
  <2>. QED  BY <2>2, <2>3
<1>. QED  BY <1>3, <1>4, <1>5

(* Every step of a goroutine.                                              *)
LEMMA StepAlone ==
  ASSUME Typed, Alone, NEW g \in Goroutines, Step(g)
  PROVE  Alone'
<1>0. Booked
  BY DEF Alone
<1>1. ASSUME todo[g] # <<>>
      PROVE  /\ Busy(g)
             /\ ~ overlapped => ~ wild /\ Midway(todo[g], half[g], reg[g], arg[g], mem,
                                                 received, now, closed, config.resSize)
  <2>1. Busy(g)
    BY <1>1 DEF Typed
  <2>. QED  BY <2>1 DEF Alone
<1>2. CASE Decision(g)
  <2>1. /\ todo[g] = <<>>
        /\ UNCHANGED <<config, half, reg, arg, mem, wild, received, now, closed>>
        /\ overlapped' = (overlapped \/ \E h \in Goroutines : Busy(h))
    BY <1>2 DEF Decision, Begin, Typed, Busy, process, shared
  <2>2. /\ todo'[g] \in Starting
        /\ \A h \in Goroutines \ {g} : where'[h] = where[h] /\ todo'[h] = todo[h]
    BY <1>2 DEF Decision, Begin, Goto, Typed, Starting
  <2>. QED  BY <2>1, <2>2, CallsAlone
<1>3. CASE SetLastResponse(g)
  <2>1. /\ todo[g] = <<>>
        /\ UNCHANGED <<config, half, reg, arg, mem, wild, received, now, closed>>
        /\ overlapped' = (overlapped \/ \E h \in Goroutines : Busy(h))
    BY <1>3 DEF SetLastResponse, Begin, Typed, Busy, process, shared
  <2>2. /\ todo'[g] \in Starting
        /\ \A h \in Goroutines \ {g} : where'[h] = where[h] /\ todo'[h] = todo[h]
    BY <1>3 DEF SetLastResponse, Begin, Goto, Typed, Starting
  <2>. QED  BY <2>1, <2>2, CallsAlone
<1>4. CASE Unanswered(g) \/ Return(g)
  <2>1. /\ todo[g] = <<>>
        /\ UNCHANGED <<config, todo, half, reg, arg, mem, wild, overlapped, received, now,
                       closed>>
    BY <1>4 DEF Unanswered, Return, Typed, Busy, process, shared, history
  <2>2. /\ where'[g] \in {"idle", "waiting"}
        /\ \A h \in Goroutines \ {g} : where'[h] = where[h] /\ todo'[h] = todo[h]
    BY <1>4, <2>1 DEF Unanswered, Return, Typed, Busy
  <2>. QED  BY <2>1, <2>2, CallsAlone
<1>5. CASE Body(g)
  <2>1. todo[g] # <<>> /\ Head(todo[g]) = "body" /\ half[g] = FALSE
    BY <1>5, NotHalf DEF Body, At
  <2>2. CASE Panic
    <3>1. UNCHANGED <<config, where, todo, half, reg, arg, mem, wild, overlapped, received, now,
                      closed>>
      BY <2>2 DEF Panic, local, shared, history
    <3>. QED  BY <3>1 DEF Alone, Booked, Busy
  <2>3. CASE /\ where' = [where EXCEPT ![g] = "spinning"]
             /\ Goto(g, <<>>)
             /\ UNCHANGED <<process, half, reg, arg, body, shared, history>>
    <3>1. UNCHANGED <<config, half, reg, arg, mem, wild, overlapped, received, now, closed>>
      BY <2>3 DEF process, shared, history
    <3>2. Booked'
      BY <1>0, <3>1 DEF Booked
    <3>3. CASE overlapped
      BY <3>1, <3>2, <3>3 DEF Alone
    <3>4. CASE ~ overlapped
      <4>1. /\ \A h \in Goroutines : ~ Busy(h)'
            /\ ~ wild
        BY <1>1, <2>1, <2>3, <3>4 DEF Alone, Busy, Typed
      <4>2. Midway(<<>>, FALSE, 0, 0, mem, received, now, closed, config.resSize)
        <5>1. Statement(todo[g]) \in Plain
          BY <2>1 DEF Statement, Plain
        <5>. QED  BY <1>1, <2>1, <3>4, <5>1, Starts
      <4>. QED  BY <3>1, <3>2, <4>1, <4>2 DEF Alone
    <3>. QED  BY <3>3, <3>4
  <2>4. CASE /\ Goto(g, Tail(todo[g]))
             /\ UNCHANGED <<process, where, half, reg, arg, shared, history>>
    <3>1. UNCHANGED <<config, where, half, reg, arg, mem, wild, overlapped, received, now,
                      closed>>
      BY <2>4 DEF process, shared, history
    <3>2. Booked' /\ todo'[g] = Tail(todo[g])
      BY <1>0, <2>4, <3>1 DEF Booked, Goto, Typed
    <3>3. ~ overlapped => Midway(Tail(todo[g]), FALSE, reg[g], arg[g], mem, received, now, closed,
                                 config.resSize)
      BY <1>1, <2>1, BodyOn
    <3>. QED  BY <1>1, <2>1, <3>1, <3>2, <3>3, StillAlone
  <2>. QED  BY <1>5, <2>2, <2>3, <2>4 DEF Body
<1>6. CASE Window(g)
  <2>1. todo[g] # <<>> /\ Head(todo[g]) = "window" /\ half[g] = FALSE
    BY <1>6, NotHalf DEF Window, At
  <2>2. UNCHANGED <<config, where, half, reg, arg, mem, wild, overlapped, received>>
    BY <1>6 DEF Window, process
  <2>3. \/ todo'[g] = <<>> /\ UNCHANGED <<now, closed>>
        \/ todo'[g] = Closing /\ now' = 0 /\ closed' = Append(closed, now)
    BY <1>6 DEF Window, Goto, Typed
  <2>4. Booked'
    <3>1. Append(closed, now) \in Seq(Nat)
      BY <1>0 DEF Booked
    <3>2. received' \in Nat
      BY <1>0, <2>2 DEF Booked
    <3>3. now' \in Nat /\ closed' \in Seq(Nat)
      <4>1. now \in Nat /\ closed \in Seq(Nat) /\ 0 \in Nat
        BY <1>0 DEF Booked
      <4>. QED  BY <2>3, <3>1, <4>1, Zenon
    <3>. QED  BY <3>2, <3>3 DEF Booked
  <2>5. ASSUME ~ overlapped
        PROVE  Midway(todo'[g], FALSE, reg[g], arg[g], mem, received, now', closed',
                      config.resSize)
    <3>1. Midway(todo[g], half[g], reg[g], arg[g], mem, received, now, closed, config.resSize)
      BY <1>1, <2>1, <2>5
    <3>2. CASE todo'[g] = <<>> /\ UNCHANGED <<now, closed>>
      <4>1. Statement(todo[g]) \in Plain
        BY <2>1 DEF Statement, Plain
      <4>2. Midway(<<>>, FALSE, reg[g], arg[g], mem, received, now, closed, config.resSize)
        BY <3>1, <4>1, Starts
      <4>. QED  BY <3>2, <4>2
    <3>3. CASE todo'[g] = Closing /\ now' = 0 /\ closed' = Append(closed, now)
      <4>1. mem.snt \in Nat /\ now \in Nat /\ closed \in Seq(Nat)
        BY <1>0, Known
      <4>2. Midway(Closing, FALSE, reg[g], arg[g], mem, received, 0, Append(closed, now),
                   config.resSize)
        BY <2>1, <3>1, <4>1, Closes
      <4>. QED  BY <3>3, <4>2
    <3>. QED  BY <2>3, <3>2, <3>3
  <2>. QED  BY <1>1, <2>1, <2>2, <2>4, <2>5, StillAlone
<1>7. CASE Push(g)
  <2>1. todo[g] # <<>> /\ Head(todo[g]) = "push" /\ half[g] = FALSE
    BY <1>7, NotHalf DEF Push, At
  <2>. DEFINE t == (IF mem.vec = <<>> THEN <<"append", "first">>
                    ELSE IF Len(mem.vec) < TimeWindow THEN <<"append", "add">>
                    ELSE <<"replace", "slot", "advance">>) \o Tail(todo[g])
  <2>2. /\ todo'[g] = t /\ arg'[g] = mem.sntW
        /\ UNCHANGED <<config, where, half, reg, mem, wild, overlapped, received, now, closed>>
    BY <1>7 DEF Push, Goto, Typed, process, shared, history
  <2>3. Booked'
    BY <1>0, <2>2 DEF Booked
  <2>4. ASSUME ~ overlapped
        PROVE  Midway(t, FALSE, reg[g], mem.sntW, mem, received, now, closed, config.resSize)
    <3>1. Midway(todo[g], half[g], reg[g], arg[g], mem, received, now, closed, config.resSize)
      BY <1>1, <2>1, <2>4
    <3>2. Len(mem.vec) \in 0..TimeWindow /\ (mem.vec = <<>> <=> Len(mem.vec) = 0)
      BY ApplicationAssumption DEF Typed, Memory
    <3>. QED  BY <2>1, <3>1, <3>2, Branches
  <2>. HIDE DEF t
  <2>. QED  BY <1>1, <2>1, <2>2, <2>3, <2>4, StillAlone
<1>8. ASSUME NEW s \in DOMAIN Target, Evaluate(g, s)  PROVE Alone'
  <2>1. /\ todo[g] # <<>> /\ half'[g] = TRUE
        /\ UNCHANGED <<config, where, todo, arg, mem, wild, overlapped, received, now, closed>>
    BY <1>8 DEF Evaluate, At, Typed, process, shared, history
  <2>2. Booked'
    BY <1>0, <2>1 DEF Booked
  <2>3. ~ overlapped => Midway(todo[g], TRUE, reg'[g], arg[g], mem, received, now, closed,
                               config.resSize)
    BY <1>0, <1>1, <1>8, <2>1, Reads
  <2>. QED  BY <1>1, <2>1, <2>2, <2>3, StillAlone
<1>9. ASSUME NEW s \in DOMAIN Target, Assign(g, s)  PROVE Alone'
  <2>1. /\ todo[g] # <<>> /\ half'[g] = FALSE /\ reg'[g] = 0 /\ todo'[g] = Tail(todo[g])
        /\ UNCHANGED <<config, where, arg, overlapped, closed>>
        /\ received' = (IF s = "countRcv" THEN received + config.resSize ELSE received)
        /\ now' = (IF s = "countSnt" THEN now + config.resSize ELSE now)
    BY <1>9 DEF Assign, At, Goto, Typed, process
  <2>2. Booked'
    <3>1. /\ received \in Nat /\ now \in Nat /\ config.resSize \in Nat
          /\ \A i, j \in Nat : i + j \in Nat
      BY <1>0, Known
    <3>2. received' \in Nat /\ now' \in Nat
      BY <2>1, <3>1, Zenon
    <3>. QED  BY <1>0, <2>1, <3>2 DEF Booked
  <2>3. ASSUME ~ overlapped
        PROVE  /\ ~ wild'
               /\ Midway(Tail(todo[g]), FALSE, 0, arg[g], mem', received', now', closed,
                         config.resSize)
    BY <1>0, <1>1, <1>9, <2>1, <2>3, Writes
  <2>. QED  BY <1>1, <2>1, <2>2, <2>3, StillAlone
<1>. QED  BY <1>2, <1>3, <1>4, <1>5, <1>6, <1>7, <1>8, <1>9 DEF Step

(* And every step of the program.                                          *)
LEMMA NextAlone == Typed /\ Alone /\ [Next]_vars => Alone'
<1>. SUFFICES ASSUME Typed, Alone, [Next]_vars  PROVE Alone'
  OBVIOUS
<1>1. CASE Next
  BY <1>1, StepAlone DEF Next
<1>2. CASE UNCHANGED vars
  BY <1>2 DEF vars, process, local, shared, history, Alone, Booked, Busy
<1>. QED  BY <1>1, <1>2

(* The statistics are exact for any number of goroutines and of messages   *)
(* under way, any timeWindow and any configuration, as long as no two      *)
(* calls are ever in progress at a time: what was received and sent is in  *)
(* rcv, sntW and snt, and bUp holds the last windows and their sum (client *)
(* main.go:95-121, :134; server main.go:97-110; Mavg_push,                 *)
(* util.go:350-368).                                                       *)
THEOREM ExactWhileAlone == Spec => []ExactUnlessOverlapped
<1>1. Typed /\ Alone => ExactUnlessOverlapped
  <2>. SUFFICES ASSUME Typed, Alone, Quiet, ~ overlapped
                PROVE  /\ mem.rcv = received /\ mem.sntW = now /\ mem.snt = SumOf(closed)
                       /\ ~ wild /\ Len(mem.vec) = Len(LastWindows)
                       /\ mem.sum = SumOf(LastWindows)
    BY DEF ExactUnlessOverlapped
  <2>1. ~ wild /\ Midway(<<>>, FALSE, 0, 0, mem, received, now, closed, config.resSize)
    BY DEF Alone, Quiet
  <2>2. /\ Counts("none", FALSE, 0, mem, received, now, closed, config.resSize)
        /\ Averages("none", FALSE, 0, 0, mem, closed)
    BY <2>1, FirstStatements DEF Midway
  <2>3. mem.rcv = received /\ mem.sntW = now /\ mem.snt + 0 = SumOf(closed) /\ mem.snt \in Nat
    BY <2>2, Known DEF Counts, Ends, Pushing, Alone
  <2>4. LastWindows = Latest(closed)
    BY DEF LastWindows, Latest
  <2>5. Len(mem.vec) = Len(Latest(closed)) /\ mem.sum = SumOf(Latest(closed))
    BY <2>2 DEF Averages, Entries
  <2>. QED  BY <2>1, <2>3, <2>4, <2>5
<1>. QED  BY <1>1, InitAlone, NextAlone, TypedStays, PTL DEF Spec

-----------------------------------------------------------------------------
(* A finite set of numbers has a largest member.                           *)
LEMMA MaxIsIn ==
  ASSUME NEW S \in SUBSET Nat, IsFiniteSet(S), S # {}
  PROVE  Max(S) \in S
<1>. DEFINE P == {T \in SUBSET S : T = {} \/ \E x \in T : \A y \in T : x >= y}
<1>1. {} \in P
  OBVIOUS
<1>2. ASSUME NEW T \in P, NEW z \in S \ T  PROVE T \cup {z} \in P
  <2>1. CASE T = {}
    <3>1. z >= z
      OBVIOUS
    <3>. QED  BY <2>1, <3>1
  <2>2. CASE T # {}
    <3>1. PICK x \in T : \A y \in T : x >= y
      BY <2>2
    <3>2. x \in Nat /\ z \in Nat /\ (\A y \in T : y \in Nat)
      OBVIOUS
    <3>3. CASE x >= z
      <4>1. \A y \in T \cup {z} : x >= y
        BY <3>1, <3>3
      <4>. QED  BY <4>1
    <3>4. CASE z >= x
      <4>1. \A y \in T : z >= y
        BY <3>1, <3>2, <3>4
      <4>2. \A y \in T \cup {z} : z >= y
        BY <3>2, <4>1
      <4>. QED  BY <4>2
    <3>. QED  BY <3>2, <3>3, <3>4
  <2>. QED  BY <2>1, <2>2
<1>3. S \in P
  <2>1. P \in SUBSET SUBSET S
    OBVIOUS
  <2>. HIDE DEF P
  <2>. QED  BY <1>1, <1>2, <2>1, SetInductive
<1>. QED  BY <1>3 DEF Max

(* h makes, from MakeBody(n), the body stamped at each subset of D.        *)
Stamping(h, n, D) ==
  h = [s \in SUBSET D |-> IF s = {} THEN MakeBody(n) ELSE CopyTo(h[s \ {Max(s)}], Max(s))]

(* ReplyBody is the value of such a function.                              *)
LEMMA ReplyIs ==
  ASSUME NEW n, NEW size
  PROVE  ReplyBody(n, size) = (CHOOSE h : Stamping(h, n, Fragments(n, size)))[Fragments(n, size)]
BY DEF ReplyBody, MapThenFoldSet, Stamping

(* The subset left when the last stamp is taken away.                      *)
LEMMA OneFewer ==
  ASSUME NEW D \in SUBSET Nat, IsFiniteSet(D), D # {}
  PROVE  /\ Max(D) \in D /\ IsFiniteSet(D \ {Max(D)})
         /\ Cardinality(D) \in Nat /\ Cardinality(D \ {Max(D)}) \in Nat
         /\ Cardinality(D) = Cardinality(D \ {Max(D)}) + 1
<1>. DEFINE m == Max(D)
<1>1. m \in D
  BY MaxIsIn
<1>. HIDE DEF m
<1>2. /\ IsFiniteSet(D \ {m}) /\ Cardinality(D) \in Nat
      /\ Cardinality(D \ {m}) = Cardinality(D) - 1
  BY <1>1, FS_RemoveElement, FS_CardinalityType
<1>3. Cardinality(D \ {m}) \in Nat
  BY <1>2, FS_CardinalityType
<1>. QED  BY <1>1, <1>2, <1>3 DEF m

(* The function exists.                                                    *)
LEMMA StampingDefined ==
  ASSUME NEW n, NEW D \in SUBSET Nat, IsFiniteSet(D)
  PROVE  \E h : Stamping(h, n, D)
<1>. DEFINE Upto(h, k) ==
       \A s \in SUBSET D : Cardinality(s) <= k =>
         h[s] = IF s = {} THEN MakeBody(n) ELSE CopyTo(h[s \ {Max(s)}], Max(s))
            N == {k \in Nat : \E h : Upto(h, k)}
<1>0. \A s \in SUBSET D : IsFiniteSet(s) /\ Cardinality(s) \in Nat /\ s \in SUBSET Nat
  BY FS_Subset, FS_CardinalityType
<1>1. 0 \in N
  <2>. DEFINE h == [s \in SUBSET D |-> MakeBody(n)]
  <2>1. \A s \in SUBSET D : Cardinality(s) <= 0 => s = {}
    BY <1>0, FS_EmptySet
  <2>2. Upto(h, 0)
    BY <2>1
  <2>. QED  BY <2>2
<1>2. ASSUME NEW k \in N  PROVE k + 1 \in N
  <2>0. k \in Nat
    OBVIOUS
  <2>1. PICK h : Upto(h, k)
    OBVIOUS
  <2>. DEFINE g == [s \in SUBSET D |-> IF Cardinality(s) <= k THEN h[s]
                                       ELSE CopyTo(h[s \ {Max(s)}], Max(s))]
  <2>2. ASSUME NEW s \in SUBSET D, Cardinality(s) <= k + 1
        PROVE  g[s] = IF s = {} THEN MakeBody(n) ELSE CopyTo(g[s \ {Max(s)}], Max(s))
    <3>1. CASE s = {}
      <4>1. Cardinality(s) = 0
        BY <3>1, FS_EmptySet
      <4>. QED  BY <2>0, <2>1, <3>1, <4>1
    <3>2. CASE s # {}
      <4>1. /\ s \ {Max(s)} \in SUBSET D /\ Cardinality(s \ {Max(s)}) <= k
            /\ Cardinality(s) \in Nat
        <5>1. s \in SUBSET Nat /\ IsFiniteSet(s)
          BY <1>0
        <5>2. /\ Cardinality(s) \in Nat /\ Cardinality(s \ {Max(s)}) \in Nat
              /\ Cardinality(s) = Cardinality(s \ {Max(s)}) + 1
          BY <3>2, <5>1, OneFewer
        <5>. DEFINE c == Cardinality(s)
                    d == Cardinality(s \ {Max(s)})
        <5>3. c \in Nat /\ d \in Nat /\ c = d + 1 /\ c <= k + 1
          BY <2>2, <5>2
        <5>. HIDE DEF c, d
        <5>4. d <= k
          BY <2>0, <5>3
        <5>. QED  BY <5>3, <5>4 DEF c, d
      <4>2. g[s \ {Max(s)}] = h[s \ {Max(s)}]
        BY <4>1
      <4>3. CASE Cardinality(s) <= k
        BY <2>1, <3>2, <4>2, <4>3
      <4>4. CASE ~ (Cardinality(s) <= k)
        BY <3>2, <4>2, <4>4
      <4>. QED  BY <4>3, <4>4
    <3>. QED  BY <3>1, <3>2
  <2>3. Upto(g, k + 1)
    <3>. HIDE DEF g
    <3>. QED  BY <2>2
  <2>4. \E w : Upto(w, k + 1)
    <3>. HIDE DEF g, Upto
    <3>. QED  BY <2>3
  <2>5. k + 1 \in Nat
    BY <2>0
  <2>. HIDE DEF Upto
  <2>. QED  BY <2>4, <2>5
<1>3. N = Nat
  <2>1. N \in SUBSET Nat
    OBVIOUS
  <2>. HIDE DEF N
  <2>. QED  BY <1>1, <1>2, <2>1, Inductive
<1>4. Cardinality(D) \in N
  BY <1>3, FS_CardinalityType
<1>5. PICK h : Upto(h, Cardinality(D))
  BY <1>4
<1>. DEFINE g == [s \in SUBSET D |-> h[s]]
<1>6. ASSUME NEW s \in SUBSET D
      PROVE  g[s] = IF s = {} THEN MakeBody(n) ELSE CopyTo(g[s \ {Max(s)}], Max(s))
  <2>1. Cardinality(s) <= Cardinality(D)
    BY FS_Subset
  <2>. QED  BY <1>5, <2>1
<1>7. Stamping(g, n, D)
  BY <1>6 DEF Stamping
<1>. QED  BY <1>7

(* Arithmetic with remainders: multiples of n lie n apart.                 *)
LEMMA Multiples ==
  ASSUME NEW n \in Nat \ {0}
  PROVE  /\ \A a \in Nat : a % n \in 0..(n - 1) /\ a - (a % n) \in Nat /\ (a - (a % n)) % n = 0
         /\ \A a, b \in Nat : a % n = 0 /\ b % n = 0 /\ a < b => a + n <= b
<1>1. \A a \in Nat : a % n \in 0..(n - 1) /\ a - (a % n) \in Nat
  OBVIOUS
<1>2. ASSUME NEW a \in Nat  PROVE (a - (a % n)) % n = 0
  <2>. DEFINE p == a \div n
              r == a % n
  <2>1. a = n * p + r /\ p \in Nat /\ r \in Nat
    OBVIOUS
  <2>2. \A x \in Nat : (n * x) % n = 0
    OBVIOUS
  <2>. HIDE DEF p, r
  <2>3. a - r = n * p
    BY <2>1
  <2>. QED  BY <2>1, <2>2, <2>3 DEF r
<1>3. \A a, b \in Nat : a % n = 0 /\ b % n = 0 /\ a < b => a + n <= b
  <2>. SUFFICES ASSUME NEW a \in Nat, NEW b \in Nat, a % n = 0, b % n = 0, a < b
                PROVE  a + n <= b
    OBVIOUS
  <2>. DEFINE p == a \div n
              q == b \div n
  <2>1. a = n * p /\ b = n * q /\ p \in Nat /\ q \in Nat
    OBVIOUS
  <2>. HIDE DEF p, q
  <2>2. p < q
    <3>1. \A x, y \in Nat : y <= x => n * y <= n * x
      OBVIOUS
    <3>. QED  BY <2>1, <3>1
  <2>3. \A x, y \in Nat : x < y => n * y >= n * x + n
    OBVIOUS
  <2>. QED  BY <2>1, <2>2, <2>3
<1>. QED  BY <1>1, <1>2, <1>3

(* The length of the last of the fragments of n bytes.                     *)
LastOf(n, size) == IF n % size = 0 THEN size ELSE n % size

(* A stamp fits into every fragment exactly if it fits into the last.      *)
LEMMA LastFragments ==
  ASSUME NEW n \in Nat \ {0}, NEW size \in Nat \ {0}
  PROVE  /\ LastOf(n, size) \in 1..size
         /\ SlicesPastEnd(n, size) <=> LastOf(n, size) < StampSize
<1>. DEFINE l == LastOf(n, size)
            i == n - l
<1>1. l \in 1..size /\ i \in Nat /\ i % size = 0 /\ i < n
  <2>. DEFINE r == n % size
  <2>1. r \in 0..(size - 1) /\ n - r \in Nat /\ (n - r) % size = 0
    BY Multiples
  <2>2. CASE r = 0
    <3>1. l = size
      BY <2>2 DEF LastOf
    <3>2. 0 % size = 0 /\ 0 < n
      BY Multiples
    <3>3. 0 + size <= n
      BY <2>2, <3>2, Multiples
    <3>4. (n - size) % size = 0
      <4>. DEFINE q == n \div size
      <4>1. n = size * q /\ q \in Nat
        BY <2>2
      <4>. HIDE DEF q
      <4>2. n - size = size * (q - 1) /\ q - 1 \in Nat
        <5>1. q # 0
          BY <4>1
        <5>. QED  BY <4>1, <5>1
      <4>3. \A x \in Nat : (size * x) % size = 0
        OBVIOUS
      <4>. QED  BY <4>2, <4>3
    <3>. QED  BY <3>1, <3>3, <3>4
  <2>3. CASE r # 0
    BY <2>1, <2>3 DEF LastOf
  <2>. QED  BY <2>2, <2>3
<1>. HIDE DEF l
<1>0. i + l = n
  BY <1>1
<1>2. ASSUME l < StampSize  PROVE SlicesPastEnd(n, size)
  <2>1. i \in Fragments(n, size) /\ i + StampSize > n
    BY <1>1, <1>2 DEF Fragments, StampSize
  <2>. QED  BY <2>1 DEF SlicesPastEnd
<1>3. ASSUME SlicesPastEnd(n, size)  PROVE l < StampSize
  <2>1. PICK k \in 0..(n - 1) : k % size = 0 /\ k + StampSize > n
    BY <1>3 DEF SlicesPastEnd, Fragments
  <2>. HIDE DEF i
  <2>2. k <= i
    <3>. SUFFICES ASSUME i < k  PROVE FALSE
      BY <1>1, <2>1
    <3>0. \A a, b \in Nat : a % size = 0 /\ b % size = 0 /\ a < b => a + size <= b
      BY Multiples
    <3>1. i + size <= k
      <4>1. i \in Nat /\ k \in Nat /\ i % size = 0 /\ k % size = 0 /\ i < k
        BY <1>1, <2>1
      <4>. QED  BY <3>0, <4>1, Zenon
    <3>. QED  BY <1>0, <1>1, <2>1, <3>1
  <2>. QED  BY <1>0, <1>1, <2>1, <2>2 DEF StampSize
<1>. QED  BY <1>1, <1>2, <1>3 DEF l

(* The body b of n bytes begins with the stamp, and has it at each of s.   *)
Stamped(b, n, s) ==
  /\ DOMAIN b = 0..(n - 1) /\ \A j \in 0..(StampSize - 1) : b[j] = j + 1
  /\ \A i \in s : \A j \in 0..(StampSize - 1) : b[i + j] = j + 1

(* Stamps at D fit into n bytes and do not overlap.                        *)
Apart(D, n) ==
  /\ D \in SUBSET Nat /\ IsFiniteSet(D)
  /\ \A i \in D : i + StampSize <= n /\ (i = 0 \/ StampSize <= i)
  /\ \A i, m \in D : i = m \/ i + StampSize <= m \/ m + StampSize <= i

(* The fragments are no shorter than a stamp if the last one is not.       *)
LEMMA FragmentsApart ==
  ASSUME NEW n \in Nat \ {0}, NEW size \in Nat \ {0}, ~ SlicesPastEnd(n, size)
  PROVE  Apart(Fragments(n, size), n)
<1>. DEFINE D == Fragments(n, size)
<1>1. \A i \in D : i \in 0..(n - 1) /\ i % size = 0
  BY DEF Fragments
<1>2. \A i \in D : i + StampSize <= n
  BY <1>1 DEF SlicesPastEnd, StampSize
<1>3. D \in SUBSET Nat /\ IsFiniteSet(D)
  <2>1. D \in SUBSET (0..(n - 1))
    BY <1>1
  <2>2. IsFiniteSet(0..(n - 1))
    BY FS_Interval
  <2>. HIDE DEF D
  <2>3. IsFiniteSet(D)
    BY <2>1, <2>2, FS_Subset
  <2>4. D \in SUBSET Nat
    BY <2>1
  <2>. QED  BY <2>3, <2>4
<1>4. StampSize <= size
  <2>. DEFINE l == LastOf(n, size)
  <2>1. l \in 1..size /\ ~ (l < StampSize)
    BY LastFragments
  <2>. HIDE DEF l
  <2>. QED  BY <2>1 DEF StampSize
<1>. HIDE DEF D
<1>5. \A a, b \in Nat : a % size = 0 /\ b % size = 0 /\ a < b => a + size <= b
  BY Multiples
<1>6. ASSUME NEW i \in D, NEW m \in D, i < m  PROVE i + StampSize <= m
  <2>1. i \in Nat /\ m \in Nat /\ i % size = 0 /\ m % size = 0
    BY <1>1
  <2>2. i + size <= m
    BY <1>5, <1>6, <2>1, Zenon
  <2>. QED  BY <1>4, <2>1, <2>2 DEF StampSize
<1>7. \A i, m \in D : i = m \/ i + StampSize <= m \/ m + StampSize <= i
  <2>. SUFFICES ASSUME NEW i \in D, NEW m \in D
                PROVE  i = m \/ i + StampSize <= m \/ m + StampSize <= i
    OBVIOUS
  <2>1. i < m \/ m < i \/ i = m
    BY <1>1
  <2>. QED  BY <1>6, <2>1
<1>8. ASSUME NEW i \in D, i # 0  PROVE StampSize <= i
  <2>1. i \in Nat /\ 0 < i /\ i % size = 0
    BY <1>1, <1>8
  <2>2. 0 + size <= i
    <3>1. 0 % size = 0 /\ 0 \in Nat
      BY Multiples
    <3>. QED  BY <1>5, <2>1, <3>1, Zenon
  <2>. QED  BY <1>4, <2>1, <2>2 DEF StampSize
<1>. QED  BY <1>2, <1>3, <1>7, <1>8 DEF Apart, D

(* One more copy overwrites no stamp, and not what is copied.              *)
LEMMA CopyStamps ==
  ASSUME NEW n \in Nat, n >= StampSize, NEW D, Apart(D, n), NEW s \in SUBSET D, NEW m \in D,
         NEW b, Stamped(b, n, s)
  PROVE  Stamped(CopyTo(b, m), n, s \cup {m})
<1>. DEFINE c == CopyTo(b, m)
<1>1. c = [k \in 0..(n - 1) |-> IF k \in m..(m + StampSize - 1) THEN b[k - m] ELSE b[k]]
  BY DEF CopyTo, Stamped
<1>2. /\ m \in Nat /\ m + StampSize <= n /\ (m = 0 \/ StampSize <= m)
      /\ \A i \in D : i \in Nat /\ i + StampSize <= n
      /\ \A i \in D : i = m \/ i + StampSize <= m \/ m + StampSize <= i
  BY DEF Apart
<1>3. /\ \A j \in 0..(StampSize - 1) : b[j] = j + 1
      /\ \A i \in s : \A j \in 0..(StampSize - 1) : b[i + j] = j + 1
  BY DEF Stamped
<1>. HIDE DEF c
<1>4. ASSUME NEW j \in 0..(StampSize - 1)  PROVE c[j] = j + 1
  <2>1. j \in 0..(n - 1)
    BY DEF StampSize
  <2>2. CASE m = 0
    <3>1. j \in m..(m + StampSize - 1) /\ j - m = j
      BY <2>2 DEF StampSize
    <3>. QED  BY <1>1, <1>3, <2>1, <3>1
  <2>3. CASE StampSize <= m
    <3>1. j \notin m..(m + StampSize - 1)
      BY <1>2, <2>3 DEF StampSize
    <3>. QED  BY <1>1, <1>3, <2>1, <3>1
  <2>. QED  BY <1>2, <2>2, <2>3
<1>5. ASSUME NEW i \in s \cup {m}, NEW j \in 0..(StampSize - 1)  PROVE c[i + j] = j + 1
  <2>1. i \in D /\ i \in Nat /\ i + j \in 0..(n - 1)
    BY <1>2 DEF StampSize
  <2>2. CASE i = m
    <3>1. i + j \in m..(m + StampSize - 1) /\ (i + j) - m = j
      BY <1>2, <2>2 DEF StampSize
    <3>. QED  BY <1>1, <1>3, <2>1, <3>1
  <2>3. CASE i # m
    <3>1. i + StampSize <= m \/ m + StampSize <= i
      BY <1>2, <2>1, <2>3
    <3>2. i + j \notin m..(m + StampSize - 1)
      BY <1>2, <2>1, <3>1 DEF StampSize
    <3>3. b[i + j] = j + 1
      BY <1>3, <2>3
    <3>. QED  BY <1>1, <2>1, <3>2, <3>3
  <2>. QED  BY <2>2, <2>3
<1>6. DOMAIN c = 0..(n - 1)
  BY <1>1
<1>. QED  BY <1>4, <1>5, <1>6 DEF Stamped, c

(* Copied to each of D, the stamp is at each of D.                         *)
LEMMA FoldStamps ==
  ASSUME NEW n \in Nat, n >= StampSize, NEW D, Apart(D, n), NEW h, Stamping(h, n, D)
  PROVE  Stamped(h[D], n, D)
<1>. DEFINE N == {k \in Nat : \A s \in SUBSET D : Cardinality(s) = k => Stamped(h[s], n, s)}
<1>0. /\ D \in SUBSET Nat /\ IsFiniteSet(D) /\ Cardinality(D) \in Nat
      /\ \A s \in SUBSET D : s \in SUBSET Nat /\ IsFiniteSet(s) /\ Cardinality(s) \in Nat
  BY FS_Subset, FS_CardinalityType DEF Apart
<1>1. \A s \in SUBSET D :
        h[s] = IF s = {} THEN MakeBody(n) ELSE CopyTo(h[s \ {Max(s)}], Max(s))
  BY DEF Stamping
<1>2. 0 \in N
  <2>. SUFFICES ASSUME NEW s \in SUBSET D, Cardinality(s) = 0  PROVE Stamped(h[s], n, s)
    OBVIOUS
  <2>1. s = {}
    BY <1>0, FS_EmptySet
  <2>2. h[s] = MakeBody(n)
    BY <1>1, <2>1
  <2>. QED  BY <2>1, <2>2 DEF Stamped, MakeBody, StampSize
<1>3. ASSUME NEW k \in N  PROVE k + 1 \in N
  <2>. SUFFICES ASSUME NEW s \in SUBSET D, Cardinality(s) = k + 1  PROVE Stamped(h[s], n, s)
    OBVIOUS
  <2>. DEFINE m == Max(s)
              t == s \ {m}
  <2>0. k \in Nat
    OBVIOUS
  <2>1. s # {}
    BY <1>0, <2>0, FS_EmptySet
  <2>2. /\ m \in s /\ Cardinality(t) \in Nat /\ k + 1 = Cardinality(t) + 1
    BY <1>0, <2>1, OneFewer
  <2>3. Cardinality(t) = k
    <3>. DEFINE c == Cardinality(t)
    <3>1. c \in Nat /\ k + 1 = c + 1
      BY <2>2
    <3>. HIDE DEF c
    <3>2. c = k
      BY <2>0, <3>1
    <3>. QED  BY <3>2 DEF c
  <2>4. t \in SUBSET D /\ m \in D /\ t \cup {m} = s
    BY <2>2
  <2>5. Stamped(h[t], n, t)
    BY <2>3, <2>4
  <2>6. h[s] = CopyTo(h[t], m)
    BY <1>1, <2>1
  <2>. HIDE DEF m, t
  <2>. QED  BY <2>4, <2>5, <2>6, CopyStamps
<1>4. N = Nat
  <2>1. N \in SUBSET Nat
    OBVIOUS
  <2>. HIDE DEF N
  <2>. QED  BY <1>2, <1>3, <2>1, Inductive
<1>. QED  BY <1>0, <1>4

(* Every fragment of a reply begins with the timestamp.                    *)
LEMMA ReplyStamped ==
  ASSUME NEW n \in Nat, n >= StampSize, NEW size \in Nat \ {0}, ~ SlicesPastEnd(n, size),
         NEW k \in 0..(n - 1), k % size < StampSize
  PROVE  ReplyBody(n, size)[k] = (k % size) + 1
<1>. DEFINE D == Fragments(n, size)
            b == ReplyBody(n, size)
            j == k % size
            i == k - j
<1>0. n \in Nat \ {0}
  BY DEF StampSize
<1>1. Apart(D, n)
  BY <1>0, FragmentsApart
<1>2. Stamped(b, n, D)
  <2>1. \E h : Stamping(h, n, D)
    BY <1>1, StampingDefined DEF Apart
  <2>. DEFINE h == CHOOSE g : Stamping(g, n, D)
  <2>2. Stamping(h, n, D) /\ b = h[D]
    BY <2>1, ReplyIs
  <2>. HIDE DEF h, b, D
  <2>. QED  BY <1>1, <2>2, FoldStamps
<1>3. j \in 0..(StampSize - 1) /\ i \in Nat /\ i % size = 0 /\ i + j = k
  <2>1. k \in Nat /\ j \in 0..(size - 1) /\ i \in Nat /\ i % size = 0
    <3>1. \A a \in Nat :
            a % size \in 0..(size - 1) /\ a - (a % size) \in Nat /\ (a - (a % size)) % size = 0
      BY Multiples
    <3>2. k \in Nat
      OBVIOUS
    <3>. QED  BY <3>1, <3>2, Zenon
  <2>2. j < StampSize
    OBVIOUS
  <2>. HIDE DEF j
  <2>. QED  BY <2>1, <2>2 DEF StampSize
<1>4. i \in D
  BY <1>3 DEF Fragments, StampSize
<1>. HIDE DEF b, D, i, j
<1>5. b[i + j] = j + 1
  BY <1>2, <1>3, <1>4 DEF Stamped
<1>. QED  BY <1>3, <1>5 DEF b, j

-----------------------------------------------------------------------------
(* The inductive invariant behind FragmentsStamped: a process that has     *)
(* ended could not have survived, and whoever has made a body could, and   *)
(* made it like this.                                                      *)
Served ==
  /\ DOMAIN body = Goroutines
  /\ ~ up => ~ Survives
  /\ \A g \in Goroutines : body[g] # <<>> =>
       /\ Survives
       /\ ~ IsClient =>
            /\ config.packetSize # 0 /\ ~ SlicesPastEnd(config.resSize, config.packetSize)
            /\ body[g] = ReplyBody(config.resSize, config.packetSize)

(* When a configuration lets a body be made (client main.go:96-97; server  *)
(* main.go:78-88).                                                         *)
LEMMA WhenSurvives ==
  ASSUME config \in Configs
  PROVE  /\ config.reqSize \in Nat /\ config.resSize \in Nat /\ config.packetSize \in Nat
         /\ IsClient => (Survives <=> config.reqSize >= StampSize)
         /\ ~ IsClient /\ config.resSize < StampSize => ~ Survives
         /\ ~ IsClient /\ config.resSize >= StampSize /\ config.packetSize # 0 =>
              (Survives <=> ~ SlicesPastEnd(config.resSize, config.packetSize))
<1>. DEFINE n == config.resSize
            size == config.packetSize
            l == LastFragment
<1>1. config.reqSize \in Nat /\ n \in Nat /\ size \in Nat
  BY ApplicationAssumption
<1>2. IsClient => (Survives <=> config.reqSize >= StampSize)
  BY DEF Survives
<1>3. ~ IsClient => (Survives <=> n >= StampSize /\ (size = 0 \/ l >= StampSize))
  BY DEF Survives
<1>4. l = LastOf(n, size)
  BY DEF LastFragment, LastOf
<1>. HIDE DEF n, size, l
<1>5. n >= StampSize /\ size # 0 => (l >= StampSize <=> ~ SlicesPastEnd(n, size))
  <2>. SUFFICES ASSUME n >= StampSize, size # 0
                PROVE  l >= StampSize <=> ~ SlicesPastEnd(n, size)
    OBVIOUS
  <2>1. l \in 1..size /\ (SlicesPastEnd(n, size) <=> l < StampSize)
    BY <1>1, <1>4, LastFragments DEF StampSize
  <2>. QED  BY <1>1, <2>1 DEF StampSize
<1>6. ~ (n < StampSize /\ n >= StampSize)
  BY <1>1 DEF StampSize
<1>. QED  BY <1>1, <1>2, <1>3, <1>5, <1>6 DEF n, size

(* Every step of a goroutine.                                              *)
LEMMA StepServes ==
  ASSUME Typed, Served, NEW g \in Goroutines, Step(g)
  PROVE  Served'
<1>1. ASSUME UNCHANGED <<config, up, body>>  PROVE Served'
  BY <1>1 DEF Served, Survives, IsClient, LastFragment
<1>2. CASE Body(g)
  <2>. DEFINE n == config.resSize
              size == config.packetSize
  <2>0. /\ config \in Configs /\ config' = config
        /\ config.reqSize \in Nat /\ n \in Nat /\ size \in Nat
    BY <1>2, WhenSurvives DEF Typed, Body, Panic, process
  <2>1. IsClient' = IsClient /\ Survives' = Survives
    BY <2>0 DEF IsClient, Survives, LastFragment
  <2>2. CASE Panic
    <3>. DEFINE m == IF IsClient THEN config.reqSize ELSE n
    <3>2. up' # up
      BY <1>2, <2>2 DEF Body, At, Panic
    <3>1. m < StampSize \/ (~ IsClient /\ n >= StampSize /\ size > 0 /\ SlicesPastEnd(n, size))
      BY <1>2, <3>2 DEF Body, process
    <3>3. ~ Survives
      <4>1. CASE IsClient
        <5>1. config.reqSize < StampSize
          BY <3>1, <4>1
        <5>2. ~ (config.reqSize >= StampSize)
          BY <2>0, <5>1 DEF StampSize
        <5>. QED  BY <2>0, <4>1, <5>2, WhenSurvives
      <4>2. CASE ~ IsClient
        <5>1. size > 0 => size # 0
          BY <2>0
        <5>. QED  BY <2>0, <3>1, <4>2, <5>1, WhenSurvives
      <4>. QED  BY <4>1, <4>2
    <3>. QED  BY <2>0, <2>1, <2>2, <3>3 DEF Panic, local, Served
  <2>3. CASE UNCHANGED <<process, body>>
    BY <1>1, <2>3 DEF process
  <2>4. CASE /\ ~ UNCHANGED <<process, body>> /\ ~ Panic
    <3>. DEFINE b == IF IsClient THEN MakeBody(config.reqSize) ELSE ReplyBody(n, size)
    <3>1. /\ body' = [body EXCEPT ![g] = b] /\ up' = up
          /\ (IF IsClient THEN config.reqSize ELSE n) >= StampSize
          /\ IsClient \/ (size > 0 /\ ~ SlicesPastEnd(n, size))
      BY <1>2, <2>4 DEF Body, process
    <3>2. Survives
      BY <2>0, <3>1, WhenSurvives
    <3>3. /\ DOMAIN body' = Goroutines
          /\ \A h \in Goroutines : body'[h] = IF h = g THEN b ELSE body[h]
      BY <3>1 DEF Served
    <3>4. ~ IsClient => size # 0 /\ ~ SlicesPastEnd(n, size) /\ b = ReplyBody(n, size)
      BY <2>0, <3>1
    <3>. HIDE DEF b
    <3>. QED  BY <2>0, <2>1, <3>1, <3>2, <3>3, <3>4 DEF Served
  <2>. QED  BY <2>2, <2>3, <2>4
<1>3. CASE Decision(g) \/ SetLastResponse(g) \/ Unanswered(g) \/ Return(g) \/ Window(g) \/ Push(g)
  <2>1. UNCHANGED <<config, up, body>>
    BY <1>3 DEF Decision, SetLastResponse, Unanswered, Return, Window, Push, process
  <2>. QED  BY <1>1, <2>1
<1>4. CASE \E s \in DOMAIN Target : Evaluate(g, s) \/ Assign(g, s)
  <2>1. UNCHANGED <<config, up, body>>
    BY <1>4 DEF Evaluate, Assign, process
  <2>. QED  BY <1>1, <2>1
<1>. QED  BY <1>2, <1>3, <1>4 DEF Step

(* And every step of the program.                                          *)
LEMMA NextServes == Typed /\ Served /\ [Next]_vars => Served'
<1>. SUFFICES ASSUME Typed, Served, [Next]_vars  PROVE Served'
  OBVIOUS
<1>1. CASE Next
  BY <1>1, StepServes DEF Next
<1>2. CASE UNCHANGED vars
  BY <1>2 DEF vars, process, local, Served, Survives, IsClient, LastFragment
<1>. QED  BY <1>1, <1>2

(* A process that makes bodies survives exactly if a timestamp fits into   *)
(* what it makes, the last fragment included, and then each fragment       *)
(* begins with the timestamp, for any sizes (client main.go:97-101; server *)
(* main.go:78-88).                                                         *)
THEOREM FragmentsAlwaysStamped == Spec => []FragmentsStamped
<1>1. Init => Served
  BY DEF Init, Served
<1>2. Typed /\ Served => FragmentsStamped
  <2>. SUFFICES ASSUME Typed, Served  PROVE FragmentsStamped
    OBVIOUS
  <2>. DEFINE n == config.resSize
              size == config.packetSize
  <2>1. config \in Configs /\ n \in Nat /\ size \in Nat
    BY WhenSurvives DEF Typed
  <2>2. ASSUME NEW g \in Goroutines, ~ IsClient, body[g] # <<>>, NEW k \in 0..(n - 1),
               k % size < StampSize
        PROVE  body[g][k] = (k % size) + 1
    <3>1. /\ Survives /\ size # 0 /\ ~ SlicesPastEnd(n, size)
          /\ body[g] = ReplyBody(n, size)
      BY <2>2 DEF Served
    <3>2. n >= StampSize
      <4>1. ~ (n < StampSize)
        BY <2>1, <2>2, <3>1, WhenSurvives
      <4>. QED  BY <2>1, <4>1 DEF StampSize
    <3>. HIDE DEF n, size
    <3>3. ReplyBody(n, size)[k] = (k % size) + 1
      BY <2>1, <2>2, <3>1, <3>2, ReplyStamped
    <3>. QED  BY <3>1, <3>3
  <2>. QED  BY <2>2 DEF FragmentsStamped, Served
<1>. QED  BY <1>1, <1>2, NextServes, TypedStays, PTL DEF Spec
=============================================================================
