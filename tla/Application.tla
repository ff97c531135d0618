----------------------------- MODULE Application -----------------------------
(***************************************************************************)
(* The example applications, examples/client/main.go and                   *)
(* examples/server/main.go: the callbacks the goroutines of a client, or   *)
(* the workers of a server, call for every message.  They fill and stamp   *)
(* its body, and count bytes in variables they all share without a lock;   *)
(* the call that finds the observation window over pushes a counter onto   *)
(* the moving average bUp, which is pkg/util's and has no lock either.     *)
(*                                                                         *)
(* An assignment to a shared variable is two steps, Evaluate its right     *)
(* side and Assign the value.  todo[g] is what remains of g's call, a      *)
(* sequence of statements.  Both programs are the same up to the order of  *)
(* two statements and the names of the variables, which are the client's   *)
(* here (sntW, rcvW are the server's snt_w, rcv_w).                        *)
(*                                                                         *)
(* Nothing ever adds to rcvW, so bDown averages zeros: neither has a       *)
(* variable here, but rcv += rcvW remains a statement.  Mavg.end is left   *)
(* out: only its own assignments read it.  Time is left out as well: once  *)
(* stime is set a call may find the window over, or not.                   *)
(***************************************************************************)
EXTENDS Integers, Sequences, FiniteSets, SequencesExt

CONSTANTS
  Goroutines,   \* goroutines that call the callbacks, one message each
  Configs,      \* what the configuration files may say: records of [program,
                \* reqSize, resSize, packetSize, callers, messages]; the last
                \* bounds the number of messages decided on
  TimeWindow    \* timeWindow, tw: the capacity of bUp

ASSUME ApplicationAssumption ==
  /\ Configs \subseteq [program : {"client", "server"}, reqSize : Nat, resSize : Nat,
                        packetSize : Nat, callers : SUBSET Goroutines, messages : Nat]
  /\ TimeWindow \in Nat \ {0}

VARIABLES
  config,
  up,          \* nothing recovers from a panic: it ends the process
  where,       \* where[g]: between or inside the two callbacks
  todo,        \* todo[g]: the statements that remain
  half,        \* half[g]: the first of them is evaluated, not assigned
  reg,         \* reg[g]: the value it was evaluated to
  arg,         \* arg[g]: the y of the call of Mavg_push
  body         \* body[g]: the Body of the last message decided on

VARIABLES
  mem,         \* the shared counters rcv, snt, sntW and the fields of bUp
  stime,       \* stime is not time.Time{}
  wild         \* appends of two goroutines have garbled bUp's slice

(* History: calls made, whether two were ever in progress at a time, the   *)
(* bytes of all responses, and those sent in this and the closed windows.  *)
VARIABLES calls, overlapped, received, now, closed

process == <<config, up>>
local == <<where, todo, half, reg, arg, body>>
shared == <<mem, stime, wild>>
history == <<calls, overlapped, received, now, closed>>
vars == <<process, local, shared, history>>

Init ==
  /\ config \in Configs
  /\ up = TRUE
  /\ where = [g \in Goroutines |-> "idle"]
  /\ todo = [g \in Goroutines |-> <<>>]
  /\ half = [g \in Goroutines |-> FALSE]
  /\ reg = [g \in Goroutines |-> 0]
  /\ arg = [g \in Goroutines |-> 0]
  /\ body = [g \in Goroutines |-> <<>>]
  /\ mem = [rcv |-> 0, snt |-> 0, sntW |-> 0, vec |-> <<>>, begin |-> 0, sum |-> 0]
  /\ stime = FALSE
  /\ wild = FALSE
  /\ calls = 0 /\ overlapped = FALSE /\ received = 0 /\ now = 0 /\ closed = <<>>

IsClient == config.program = "client"
Busy(g) == where[g] \in {"deciding", "reporting"}
At(g, statement) == up /\ todo[g] # <<>> /\ Head(todo[g]) = statement
Goto(g, statements) == todo' = [todo EXCEPT ![g] = statements]
Panic == up' = FALSE /\ UNCHANGED <<config, local, shared, history>>

-----------------------------------------------------------------------------
(* The body of a message: 0 is a zero byte, k is byte k of the timestamp.  *)

StampSize == 8
MakeBody(n) == [k \in 0..(n-1) |-> IF k < StampSize THEN k + 1 ELSE 0]

(* Slip, see Server.tla: the loop ends before the last fragment. *)
FragmentsButLast(n, size) == {i \in 0..(n-1) : i % size = 0 /\ i + size < n}

Fragments(n, size) == {i \in 0..(n-1) : i % size = 0}

(* copy(Body[i:i+8], Body[:8]), for each fragment in turn, the last one    *)
(* onto what the others have made.                                         *)
CopyTo(b, i) ==
  [k \in DOMAIN b |-> IF k \in i..(i + StampSize - 1) THEN b[k-i] ELSE b[k]]

ReplyBody(n, size) ==
  MapThenFoldSet(LAMBDA i, b : CopyTo(b, i), MakeBody(n), LAMBDA i : i, Max, Fragments(n, size))

(* Slicing past the end of a body panics. *)
SlicesPastEnd(n, size) == \E i \in Fragments(n, size) : i + StampSize > n

-----------------------------------------------------------------------------
(* Calls begin and end.  A call overlaps those already in progress.        *)

Begin(g, callback, statements) ==
  /\ where' = [where EXCEPT ![g] = callback]
  /\ Goto(g, statements)
  /\ overlapped' = (overlapped \/ \E h \in Goroutines : Busy(h))

(* FixedDecision, ReplyDecision *)
Decision(g) ==
  /\ up /\ g \in config.callers /\ where[g] = "idle" /\ calls < config.messages
  /\ Begin(g, "deciding", IF IsClient THEN <<"countSnt", "body", "window">>
                                      ELSE <<"body", "countRcv", "window">>)
  /\ calls' = calls + 1
  /\ UNCHANGED <<process, half, reg, arg, body, shared, received, now, closed>>

(* FixedSetLastResponse, ReplySetLastResponse, with a Response. *)
SetLastResponse(g) ==
  /\ up /\ where[g] = "waiting"
  /\ Begin(g, "reporting", IF IsClient THEN <<"countRcv">> ELSE <<"countSnt">>)
  /\ UNCHANGED <<process, half, reg, arg, body, shared, calls, received, now, closed>>

(* The client's request fails, or is refused: nothing is counted.          *)
Unanswered(g) ==
  /\ up /\ IsClient /\ where[g] = "waiting"
  /\ where' = [where EXCEPT ![g] = "idle"]
  /\ UNCHANGED <<process, todo, half, reg, arg, body, shared, history>>

Return(g) ==
  /\ up /\ Busy(g) /\ todo[g] = <<>>
  /\ where' = [where EXCEPT ![g] = IF @ = "deciding" THEN "waiting" ELSE "idle"]
  /\ UNCHANGED <<process, todo, half, reg, arg, body, shared, history>>

(* The client makes a request of reqSize bytes and stamps it.  The server  *)
(* makes a reply of as many bytes as were asked for and stamps it, then    *)
(* each of its fragments; with fragments of no size the loop never ends.   *)
Body(g) ==
  LET n == IF IsClient THEN config.reqSize ELSE config.resSize
      size == config.packetSize
  IN /\ At(g, "body")
     /\ \/ n < StampSize /\ Panic
        \/ ~ IsClient /\ n >= StampSize /\ size > 0 /\ SlicesPastEnd(n, size) /\ Panic
        \/ /\ ~ IsClient /\ n >= StampSize /\ size = 0
           /\ where' = [where EXCEPT ![g] = "spinning"]
           /\ Goto(g, <<>>)
           /\ UNCHANGED <<process, half, reg, arg, body, shared, history>>
        \/ /\ n >= StampSize
           /\ IsClient \/ (size > 0 /\ ~ SlicesPastEnd(n, size))
           /\ body' = [body EXCEPT ![g] = IF IsClient THEN MakeBody(n) ELSE ReplyBody(n, size)]
           /\ Goto(g, Tail(todo[g]))
           /\ UNCHANGED <<process, where, half, reg, arg, shared, history>>

-----------------------------------------------------------------------------
(* The statements *)

(* Slip, see Server.tla: sntW is not reset. *)
ClosingKeepsCount == <<"push", "carryRcv", "carrySnt">>

Closing == <<"push", "carryRcv", "carrySnt", "reset">>

(* Whichever call finds the window over closes it. *)
Window(g) ==
  /\ At(g, "window")
  /\ \/ /\ stime' = TRUE
        /\ Goto(g, <<>>)
        /\ UNCHANGED <<now, closed>>
     \/ /\ stime /\ UNCHANGED stime
        /\ Goto(g, Closing)
        /\ now' = 0 /\ closed' = Append(closed, now)
  /\ UNCHANGED <<process, where, half, reg, arg, body, mem, wild, calls, overlapped, received>>

(* Mavg_push(&bUp, sntW) looks which of its branches to take. *)
Push(g) ==
  /\ At(g, "push")
  /\ arg' = [arg EXCEPT ![g] = mem.sntW]
  /\ Goto(g, (IF mem.vec = <<>> THEN <<"append", "first">>
              ELSE IF Len(mem.vec) < TimeWindow THEN <<"append", "add">>
              ELSE <<"replace", "slot", "advance">>) \o Tail(todo[g]))
  /\ UNCHANGED <<process, where, half, reg, body, shared, history>>

Target == [countSnt |-> "sntW", countRcv |-> "rcv",
           carryRcv |-> "rcv", carrySnt |-> "snt", reset |-> "sntW",
           append |-> "vec", first |-> "sum", add |-> "sum",
           replace |-> "sum", slot |-> "vec", advance |-> "begin"]

(* Slips, see Server.tla: rcv is given what was sent; begin does not wrap. *)
CounterCrossed(s) ==
  CASE s = "countSnt" -> mem.sntW + config.resSize
    [] s = "countRcv" -> mem.rcv + config.resSize
    [] s = "carryRcv" -> mem.rcv + mem.sntW
    [] s = "carrySnt" -> mem.snt + mem.sntW
    [] s = "reset" -> 0

AfterNoWrap(i) == i + 1

Counter(s) ==
  CASE s = "countSnt" -> mem.sntW + config.resSize
    [] s = "countRcv" -> mem.rcv + config.resSize
    [] s = "carryRcv" -> mem.rcv                   \* rcvW is 0
    [] s = "carrySnt" -> mem.snt + mem.sntW
    [] s = "reset" -> 0

After(i) == (i + 1) % Len(mem.vec)

(* The statements of Mavg_push; append and slot are worth an index of vec. *)
Ring(s, y) ==
  CASE s = "append" -> Len(mem.vec)
    [] s = "first" -> y
    [] s = "add" -> mem.sum + y
    [] s = "replace" -> mem.sum - mem.vec[mem.begin + 1] + y
    [] s = "slot" -> mem.begin
    [] s = "advance" -> After(mem.begin)

Counters == {"countSnt", "countRcv", "carryRcv", "carrySnt", "reset"}

(* The right side of statement s of g, which reads shared variables.       *)
Evaluate(g, s) ==
  /\ At(g, s) /\ ~ half[g]
  /\ half' = [half EXCEPT ![g] = TRUE]
  /\ reg' = [reg EXCEPT ![g] = IF s \in Counters THEN Counter(s)
                               ELSE IF wild THEN 0 ELSE Ring(s, arg[g])]
  /\ UNCHANGED <<process, where, todo, arg, body, shared, history>>

(* An append that finds the slice full, or longer than it is to become:    *)
(* other goroutines have appended since its length was read.  Their slots  *)
(* are lost, or still written in an array that is given up; from there on  *)
(* what the ring holds is not followed.                                    *)
Garbles(s, i) == s = "append" /\ (i >= TimeWindow \/ i + 1 < Len(mem.vec))

Written(s, i, y) ==
  IF s = "append" THEN SubSeq(mem.vec, 1, i) \o <<y>> ELSE [mem.vec EXCEPT ![i + 1] = y]

Assign(g, s) ==
  /\ At(g, s) /\ half[g]
  /\ half' = [half EXCEPT ![g] = FALSE]
  /\ Goto(g, Tail(todo[g]))
  /\ reg' = [reg EXCEPT ![g] = 0]
  /\ wild' = (wild \/ Garbles(s, reg[g]))
  /\ mem' = IF s \in Counters THEN [mem EXCEPT ![Target[s]] = reg[g]]
            ELSE IF wild' THEN mem
            ELSE IF Target[s] = "vec" THEN [mem EXCEPT !.vec = Written(s, reg[g], arg[g])]
            ELSE [mem EXCEPT ![Target[s]] = reg[g]]
  /\ received' = IF s = "countRcv" THEN received + config.resSize ELSE received
  /\ now' = IF s = "countSnt" THEN now + config.resSize ELSE now
  /\ UNCHANGED <<process, where, arg, body, stime, calls, overlapped, closed>>

-----------------------------------------------------------------------------
Step(g) ==
  \/ Decision(g) \/ SetLastResponse(g) \/ Unanswered(g) \/ Return(g)
  \/ Body(g) \/ Window(g) \/ Push(g)
  \/ \E s \in DOMAIN Target : Evaluate(g, s) \/ Assign(g, s)

Next == \E g \in Goroutines : Step(g)

Spec == Init /\ [][Next]_vars

-----------------------------------------------------------------------------
Statements == DOMAIN Target \cup {"body", "window", "push"}

(* Type invariant. *)
TypeOK ==
  /\ config \in Configs /\ up \in BOOLEAN /\ stime \in BOOLEAN /\ wild \in BOOLEAN
  /\ where \in [Goroutines -> {"idle", "deciding", "waiting", "reporting", "spinning"}]
  /\ \A g \in Goroutines : todo[g] \in Seq(Statements)
  /\ half \in [Goroutines -> BOOLEAN]
  /\ \A g \in Goroutines : reg[g] \in Int /\ arg[g] \in Nat
  /\ mem.rcv \in Nat /\ mem.snt \in Nat /\ mem.sntW \in Nat /\ mem.sum \in Int
  /\ mem.vec \in Seq(Nat) /\ Len(mem.vec) <= TimeWindow
  /\ mem.begin \in 0..(TimeWindow - 1)

Quiet == up /\ \A g \in Goroutines : ~ Busy(g)
LastWindows == SubSeq(closed, 1 + (IF Len(closed) > TimeWindow THEN Len(closed) - TimeWindow
                                   ELSE 0), Len(closed))
SumOf(f) == FoldSeq(+, 0, f)

(* The statistics are exact as long as no two calls have overlapped, as    *)
(* with one worker, or MaxConcurrentConnections = 1, however many messages *)
(* are under way: every byte is in one window, and bUp is the average over *)
(* the last ones (client main.go:95-121, :134; server main.go:97-110).     *)
ExactUnlessOverlapped ==
  Quiet /\ ~ overlapped =>
    /\ mem.rcv = received /\ mem.sntW = now /\ mem.snt = SumOf(closed)
    /\ ~ wild /\ Len(mem.vec) = Len(LastWindows) /\ mem.sum = SumOf(LastWindows)

(* Calls that overlap lose updates of rcv, but never count a byte twice:   *)
(* what is added to it is never taken from another variable                *)
(* (client main.go:113, :134; server main.go:98, :107).                    *)
NeverOvercounts == mem.rcv <= received

(* A server survives a request exactly if the reply it asks for holds a    *)
(* timestamp and so does its last fragment; then each fragment begins with *)
(* the timestamp, and the client reads its own back (server                *)
(* main.go:78-88, client main.go:97-101, :141).                            *)
LastFragment == IF config.resSize % config.packetSize = 0 THEN config.packetSize
                ELSE config.resSize % config.packetSize
Survives ==
  IF IsClient THEN config.reqSize >= StampSize
  ELSE config.resSize >= StampSize /\ (config.packetSize = 0 \/ LastFragment >= StampSize)
FragmentsStamped ==
  \A g \in Goroutines :
    /\ (\E h \in Goroutines : body[h] # <<>>) => Survives
    /\ ~ up /\ ~ wild => ~ Survives
    /\ ~ IsClient /\ body[g] # <<>> =>
         \A k \in 0..(config.resSize - 1) :
           k % config.packetSize < StampSize => body[g][k] = (k % config.packetSize) + 1

(* All monitoring utilities are goroutine-safe, says README.md:186: when   *)
(* no call is in progress the sum a moving average keeps is that of its    *)
(* elements.  Mavg_push (util.go:350-368) holds no lock, nor do callers.   *)
GoroutineSafe == Quiet /\ ~ wild => mem.sum = SumOf(mem.vec)
=============================================================================
