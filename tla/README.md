# TLA+ models of RoPE (go_rope)

RoPE measures request/response performance over QUIC. A *client* issues requests
on a ticker, a *server* answers them from a bounded queue with a fixed pool of
workers, and a *proxy* may sit between them and choose, request by request,
which server to use. Every request has a QUIC stream of its own and every
message is one gob-encoded `RoPEMessage`.

This directory holds TLA+ modules that follow the Go source, TLC configurations
that check them on small instances, and proofs that hold for every instance.
`PROJECT.json` maps each definition to the lines it models.

## The system

| part | source | state it keeps | operations | what is hard about it |
|---|---|---|---|---|
| server core | `pkg/server/server.go` | `requestQueue`, one goroutine per stream, a pool of workers | `newRequest`, `newRequestServer`, `handleQueueFull`, `worker`, shutdown | non-blocking send races with the pool; a worker returns when `Close` fails; callbacks may panic; shutdown drops jobs |
| proxy core | `pkg/routing/proxy.go` | `tokensUp`, `tokensDn`, `Sinks`, one goroutine per connection and per stream | `newClient`, `newRequest`, `forwardRequest`, shutdown | a semaphore taken in one goroutine and released in another; early returns between the two; waits without a deadline |
| client core | `pkg/client/client.go` | `Connections`, `Done` | `InitClient`, `clientMain`, `NewReq`, `forwardResponse`, `setupTestDuration` | two senders and one receive on `Done`; responses handled on goroutines of their own |
| client main loop | `examples/client/main.go` | `counter` (slots), `wg`, histogram | the `select` loop | slots given back by deferred calls; draining at the end |
| client application | `examples/client/main.go` | `rcv`, `snt`, `sntW`, `stime`, `bUp`, `bDown` | `InitFixed`, `FixedDecision`, `FixedSetLastResponse` | all request goroutines share the statistics without a lock |
| server application | `examples/server/main.go` | the same, under other names | `InitReply`, `ReplyDecision`, `ReplySetLastResponse` | all workers share the statistics without a lock; stamping fragments may panic |
| weighted policy | `pkg/routing/probability.go` | byte counters, moving averages, start of the window | `InitWeightedRandom`, `WeightedRandomDecision`, `WeightedRandomSetLastResponse` | counting, totalling and resetting in the right order |
| latency policy | `pkg/routing/probabilityLatency.go` | the same, plus delays | `InitPL`, `PLDecision`, `PLSetLastResponse` | sleeps while it holds its mutex; credits responses by the wrong field |
| fixed policy | `pkg/routing/fixed.go` | cumulative counters | `InitFixed`, `FixedDecision`, `FixedSetLastResponse` | counters never reset; the destination is left as it is |
| utilities | `pkg/util/util.go` | rings, histogram, matrix | `Mavg_*`, `Delay`, `PingTest`, `Histogram`, `Matrix`, TLS, ZeroMQ | ring arithmetic; units of durations; `wg.Add` inside the goroutine |
| logger | `pkg/util/logger.go` | `writeAPI`, `client` | `InitLogger`, `LogEvent`, `CloseLogger`, `SetupGracefulShutdown` | check-then-use against close |

They interact by messages on streams (client–proxy, proxy–server or
client–server directly), by Go channels inside a process, and by callbacks:
`ForwardDecision` and `ForwardSetLastResponse` of the server, the client and
the proxy. `PROJECT.json` lists every part with its status, and under
`hazards` what in each is hard to test, at its line.

## The modules

* **`Server`** — the server. `handler[s]` is where `newRequestServer` is for
  stream `s`; `queue` is the channel `requestQueue`; `worker[w]`, `job[w]`,
  `attempt[w]` are worker `w`'s place in its loop, the job it took and the value
  of `attempt`. The wire is `request`, `reply`, `fin` (streams closed by the server),
  `peer` (whether the other end still reads) and `up`. A `select` is two
  actions, `Enqueue` and `FindFull`, because between finding the channel full
  and encoding QueueFull other goroutines run. The application is a parameter:
  `Rounds` (how many times it may ask to be called), `Suppresses`
  (`Destination = " "`), `Decision` (total, may panic, or nil), `HasBlock`.
* **`RequestReply`** — what the server promises a peer, with no queue and no
  workers: `fate[s]` goes from new to taken, refused or failed, from taken to
  done; `told[s]` is what the peer was sent. `Server` implements it under the
  mapping in `Server!Promise`; `Fate` computes a stream's fate from `handler`
  and `fin`.
* **`Proxy`** — the proxy. `accept[c]` is the `newClient` loop of connection
  `c`, `pc[s]` the place of `newRequest`/`forwardRequest` for stream `s`,
  `upTokens` and `dnTokens` the lengths of the two token channels. `leak` is a
  history variable: the tokens whose holder returned without taking them back.
* **`Client`** — `pkg/client/client.go` under the loop of
  `examples/client/main.go`. `counter` and `wg` are the channel of slots and the
  WaitGroup of `main`, `pending[r]` the WaitGroup of `NewReq`, `got[r]` the type
  of the one message a request decodes, `measured` the histogram, as the set of
  requests that are in it. `FixedSetLastResponse` of the example leaves out a
  Response whose body is shorter than a timestamp (`examples/client/main.go:137`);
  `ShortBodies` are the requests that get one. A request decodes at most one message: every
  message is written by a new `gob.Encoder`, which repeats the type
  definition, and the client's one `Decoder` refuses a definition it has.
* **`Direct`** — a client and a server on one wire. **`Chain`** — client, proxy
  and server on two. Both instantiate the modules above and identify their
  wire variables, so that one program's environment is the other program.
* **`Mavg`** — the moving-average ring as operators on records, and
  **`RoutingPolicy`** — the parameters and the draw of a sink the policies share.
* **`WeightedRouter`** — the weighted policy. `routed`, `returned` and `past`
  record independently what was really sent and received in the last windows.
  `UplinkSpec` is the half of it that is about requests, as a specification of its
  own: draw, count and perhaps close the window, all at one moment.
* **`LatencyRouter`** — the weighted policy with injected delays. A call is two
  steps, up to the delay and after it, with `plMutex` held in between; `drawn`
  records each request where it draws its sink, before the delay, and
  `returned` each Response when it is let through, whichever way its ends are
  written. The refinement mapping to `WeightedRouter!UplinkSpec`, whose decisions
  are atomic, leaves out of `routed` what is drawn and still asleep. Of the downlink
  there is no such promise: line 154 finds a sink only for a Response whose ends the
  server has *not* swapped, as `LatencyDownlink` shows.
* **`FixedRouter`** — the fixed policy: `cu` and `cd` count since the proxy was
  started. `now` and `recent` record the bytes of this window and of each of the
  last ones.
* **`Routing`** — the policy a proxy is started with: one of the three, chosen by
  `policy`, over one set of counters where two policies keep the same ones.
* **`Application`** — the callbacks of both example applications, one statement
  at a time. `todo[g]` is what is left of goroutine `g`'s call; an assignment
  to a shared variable is `Evaluate`, then `Assign`. `Window` and `Push` decide
  which statements follow. `mem` holds the shared counters and the fields of
  the ring; `received`, `now`, `closed` record what really happened. Once two
  appends have garbled the slice (`wild`) the ring's contents are not followed
  any further; the counters are.
* **`Delay`** — `InitDelay` and `Delay`: how a configured duration becomes a number,
  and a drawn number a duration again.
* **`MC…`** — the values TLC uses.
* **`ServerProofs`**, **`ProxyProofs`**, **`ClientProofs`** — theorems about one
  program each; **`DirectProofs`**, **`ChainProofs`** — theorems about the
  compositions, which use the former; **`RoutingProofs`** — theorems about the
  policies and their moving averages; **`ApplicationProofs`** — theorems about the
  applications' statistics; **`Counting`** — facts about finite sets, sums and rings.

Most modules have a few definitions under *Slips*: an operation as it would read
with one plausible mistake in it. No specification uses them; they document which
mistake each property is there to catch.

## What TLC checks

| run | instance | shows |
|---|---|---|
| `Serving` | 3 streams, 2 workers, queue of 1, one or two rounds, callbacks that suppress or panic, all faults, one peer may stop reading | `TypeOK`, `OneOwner`, `Backpressure`, `ReplyMatchesFate`, `LossesExplained`, `FinalIsFinal`, `EveryRequestSettled`, and the refinement `ImplementsRequestReply` |
| `Proxying` | 2 connections, 3 streams, 1 server, `ParallelConn` 2, undecodable and unroutable requests, connections lost on both sides, servers that refuse or do not answer, shutdown | `TypeOK`, `TokensAccounted`, `GivingBackNeverBlocks`, `PhasesBounded`, `ToldTheTruth`, `NothingStuck`, `FinalIsFinal` |
| `Requesting` | 2 requests over 1 slot, 2 destinations, timer and signal, failed dials, lost connections, refusals, servers that answer twice, one request with a short answer | `TypeOK`, `SlotsAccounted`, `NothingMissedAtStop`, `ResultsExplained`, `DoneIsFinal`, `ClientStops` |
| `DirectLarge` | 3 requests over 2 slots, queue of 2, server may be shut down | `NeverRefused`, `NoAbandonedWork`, `SlotsAccounted`, `NothingMissedAtStop`, `TestEnds` |
| `DirectSmall` | 2 requests, 2 slots, queue of 1 | **violates** `TestEnds` |
| `ChainEnds` | 2 requests, `ParallelConn` 2, queue of 1, server may be shut down | `EndToEnd`, `TestEnds` |
| `ChainServerDown` | the same with `ParallelConn` 1 | **violates** `TestEnds` |
| `Routing` | all three policies; 2 callers, 2 sinks, rings of 2 | `TypeOK`, `WindowsAreSliding`, `TotalsAgree`, `NeverUnderreports`, `DelaysAreSerial`, `EveryCallReturns`, and the refinement `ImplementsWeightedUplink` |
| `LatencyDownlink` | the same | **violates** `EveryResponseCredited` |
| `Applications` | one caller with every body of 0–2 and 7–25 bytes and fragment of 0–17; two callers with 3 (client) or 4 (server) messages; rings of 2 | `TypeOK`, `ExactUnlessOverlapped`, `NeverOvercounts`, `FragmentsStamped` |
| `StatisticsRaces` | the same | **violates** `GoroutineSafe` |
| `InjectedDelay` | durations of 10 ms, 100 ms, 1 s and 10 s, at 10 ms a tick | **violates** `UniformWithinInterval` |

Bounds.

* `Serving`: with a queue of one and two workers a burst of three leaves one to
  refuse while a worker is about to free a place, and a worker can be lost while
  the other goes on. Three streams never exceed the capacity of
  `RequestReply`, three as well; that the refinement respects that capacity is
  proved for any number of streams. `Backpressure` counts busy workers only, so
  that it can be broken with three streams.
* `Proxying`: three streams on two connections with two tokens make both
  connections and requests compete. It leaves out the stream limit of a
  connection, which fails `OpenStream` exactly as a lost connection does. A server
  sends one message at most on a stream here; that of several the first is passed on
  is in the proof of `ToldTheTruth`, for every `MaxReplies`.
* `ShortBodies` is one of the requests wherever the histogram is checked, so that
  measured and unmeasured Responses occur together.
* `Requesting` has one slot for two requests, so that the second waits for the
  first one's deferred calls, under every fault; requests that overlap, three
  over two slots, are in `DirectLarge`.
* `Routing`: rings of two wrap more than once, as windows are closed without
  limit and only the last ones are remembered. The fixed policy counts up to
  `MaxTotal` bytes in all; it may then only close windows. Two callers are enough:
  what can go wrong is one call in the sleep of another, and `plMutex` lets no
  third one matter.
* `Applications`: two callers lose updates; three or four messages let both
  find a window over and the ring fill up. A single caller, who cannot race,
  makes five calls, so that the ring wraps. Sizes only decide whether a body
  can be stamped, so with two callers there is one.
* `MaxStops`, `MaxReplies`, `MaxLoad`, `MaxDelayed`, `MaxTotal`, `MaxDraw` and
  `messages` bound what the environment does; nothing of the programs is bounded.

Symmetry is used in `Proxying` only, which checks no liveness. `CHECK_DEADLOCK FALSE`: finitely many
streams are opened, or messages sent, and each program ends, so every one of
these systems really stops; the policies and the delays do not and are checked
for deadlock.

Fairness. `Server`, `Client`, `Direct` and `Chain` ask for the least there is: while some
goroutine of the programs can make a step, one does (`Progress`). No goroutine is
promised anything; since all of their loops do finitely much for each request,
they catch up all the same. For `Proxy` alone progress is stated as a state
invariant, `NothingStuck`: where neither a goroutine nor a reachable server can make
a step, every request has been closed, provided that the leaks have left a token
for each connection still listened to. Every step takes a goroutine or a server
further, so that behaviours are finite and this is what progress comes to; as an
invariant it can be checked with all the faults at once.
`Routing` asks it of a caller of the latency policy that sleeps or waits for
`plMutex`, which `sync.RWMutex` hands to the goroutine that has waited longest
once it has waited a millisecond. Peers, ticks, signals and connection losses
are never fair, with two exceptions: in the run of `Client` alone, servers
that can be reached eventually answer or close (`ServerCloses`),
which `Direct` and `Chain` replace by the server itself, and a connection to a
dead server is given up after the idle timeout. `ClientStops` is stated for a
client that no server refuses: what happens to one that is refused is what
`DirectSmall` shows.

### What the five violations show

`DirectSmall`: `handleQueueFull` (`server.go:290-305`) answers QueueFull and
leaves the stream open. `NewReq` reads until the stream ends or the connection
is lost (`client.go:268-275`), and the timeout that is read from the
configuration is never armed. So the refused request keeps its slot, and when
the test duration is over the client waits for it. The documentation
(`docs/CONFIGURATION.md:26`, `docs/ARCHITECTURE.md:24`) promises a test that
ends. `NeverRefused` in `DirectLarge` shows when this cannot happen: the queue is
at least as long as the client's limit. A client behind a proxy does not hang
for this reason (`ChainEnds`): the proxy always closes the client's stream.

`ChainServerDown`: `forwardRequest` returns at `proxy.go:231`, when the
connection to the server is gone, before it has taken its token back. With one
token the proxy then accepts nothing any more; the client's next request is
never answered and the client never stops. `TokensAccounted` lists all the
returns that leak: an undecodable request, one without a route, a failed
`OpenStream`, an undecodable answer, and a client that disconnects.

`StatisticsRaces`: `README.md:186` calls the monitoring utilities goroutine-safe.
`Mavg_push` (`util.go:350-368`) has no lock and neither have its callers in the
example applications. Two goroutines that both find the window over push onto
`bUp` at the same time, one update of its sum is lost, and as the sum is only
ever changed by differences every later average is off by as much.
`ExactUnlessOverlapped` says where the figures can be trusted: calls that never
overlap, as with one worker.

`LatencyDownlink`: `PLSetLastResponse` looks for the sink of a Response by its
`Destination` (`probabilityLatency.go:154`), the weighted policy by its `Source`
(`probability.go:138`). The server application swaps the two
(`examples/server/main.go:92-95`), so the destination is the client and no sink
matches. `BUG_REPORT.md:246` and `REFACTORING_PLAN.md:1297-1345` call this a logic
error. What `Routing` does check of this policy's downlink is only that nothing is
counted that did not come back, and nothing in another window (`DownlinkWithin`).

`InjectedDelay`: `InitDelay("uniform", 10ms, 100ms)`, the example of
`docs/UTILITIES.md:191`, divides both bounds as integers by `time.Second`
(`util.go:234`), so that every delay is nothing. Longer bounds survive
the division, but `Delay` multiplies by `time.Second` twice (lines 297-298): one
second becomes 10^9, some 31 years, and ten seconds overflow `int64` and sleep not
at all. Exponential delays are not divided and sleep, at 50 ms, for 579 days.
The latency policy holds `plMutex` all the while, and by `DelaysAreSerial` no
other request of the proxy passes.

### Other things the models make plain

* `README.md:173` and `docs/ROUTING.md:97-102` describe the latency policy as a choice by
  measured round-trip time. `PLDecision` draws by weight and measures nothing
  (`probabilityLatency.go:98-106`); the latencies it is configured with are slept, not
  compared. `LockUp` draws as the code does; no property says that this is right,
  and `UplinkSpec` leaves the choice open.
* `FixedDecision` pushes `cu` and `cd` at the end of each window and resets neither
  (`fixed.go:62-63`): an entry is a running total and the bandwidth printed grows
  with the proxy's age, where `docs/ROUTING.md:35-37` and `docs/UTILITIES.md:118-145`
  promise bytes per window. `NeverUnderreports` is what is left to rely on: the
  averages err upwards only.
* `rcvW` (`rcv_w` in the server) is never added to, so `bDown` averages zeros,
  and `rcv` grows by the length of a response where a request was received.
  `sntW` in the client grows by the size of the response asked for, not by that of
  the request sent.
* The server's fragment loop panics when the last fragment is shorter than a
  timestamp (`FragmentsStamped`): always, with fragments shorter than eight bytes.
  It never ends when fragments have no size.
* `FixedDecision` leaves the destination to the client, where
  `docs/ROUTING.md:27-30` describes a fixed destination from the configuration.

## What is proved

Everything here holds for every value of the constants that satisfies the
`ASSUME` of the component's module (those of the compositions only join the
components' and name the two ends of the wires); no proof assumes more, but for
`NoWorkAbandoned`. The theorems are listed in `PROJECT.json`; each names the
property of a run.

**Server** (`ServerProofs`): for every set of streams, finite pool of workers, queue
capacity, callback and choice of faults, the five invariants that `Serving`
checks, the action property `FinalIsFinal`, and the refinement of `RequestReply`.
The inductive invariant is `Owned`: the types; `Hands` (a worker has a job
exactly when it is not waiting for one), without which not even the types are
inductive, because `CloseStream` adds the worker's job to `fin`;
`ClosedWereTaken` (only streams of requests that were taken on are closed),
without which a request put on the queue might already be closed; and
`OneOwner`. `Bounded` (the queue is never longer than its capacity) follows
from the guard of `Enqueue`; together with `OneOwner`, which says that pending
requests are exactly those on the queue and in hand, each once, it bounds the
load by counting: the queue is a surjection from `1..Len(queue)` and `job` one
from the busy workers. `LossesExplained` needs the invariant `Excused` (a worker
that returned holds a stopped stream) and `OneOwner`: two workers never hold the
same stream, so `job` is an injection of the lost workers into the stopped
streams. The refinement maps every action to one of `RequestReply` or to a
stutter; that a request is only taken on below the capacity comes from
`LoadIsBounded` in the *next* state.

**Proxy** (`ProxyProofs`): the invariants that `Proxying` checks but for `NothingStuck`, and
`FinalIsFinal`. Types alone are not inductive: `Relay` and `Reply` send
`result[s]`, so `Typed` adds `Known` (a goroutine that is about to send a result
has one). `Accounted` is `Typed`, `TokensAccounted`, and `Bounded` (neither
channel is longer than `ParallelConn`). Each step moves at most one goroutine
between the sets of holders (`RequestMoves`, `ListenerMoves`), and the sizes of
these sets change by one with the tokens. `NeverStuckGivingBack` and
`PhasesAlwaysBounded` are consequences: a holder is a member of a finite set
whose size is at most the number of tokens. `ToldTheTruth` is proved stream by
stream. `Good(s)` says how far the goroutine is and what it knows (`Progressed`:
where the wire to the server stands at each label), how a result that it has was
come by (`Explained`), and that nothing was sent but results (`Relayed`). A step
about another stream leaves `Good(s)` alone (`RequestAlone`); one about `s`
re-establishes it. `FinalIsFinal` uses `Progressed` too: at the label where a request is
sent, nothing was sent on its stream before, so none is sent twice.

**Client** (`ClientProofs`): the four invariants that `Requesting` checks, and
`DoneIsFinal`. `Slotted` joins the types to `SlotsAccounted`, since the counters
can only be shown not to go below zero by what they count. `Truthful` does for
requests what the proxy's `Good` does for streams. `NothingMissedAtStop` adds
`Quiet`: once the main loop has stopped, `wg` is zero; by `SlotsAccounted` no
request is then under way, and by `Truthful` one that has returned with a
Response that can be measured is in the histogram.

**Client with server** (`DirectProofs`). The invariant `Joint` takes the invariants
of both programs over the shared wires; each component's lemma `NextSteps` says
what its program may do to a wire, which is what the other program's
environment allows. Two facts relate the programs: `Heard` (only streams on
which a request was sent are handled) and `Reading` (while the connection lasts, the client reads
every stream that the server has neither answered nor closed). `QueueNeverOverflows`
then counts: the requests that the server has taken on and not closed are
requests for which the client holds a slot (`ReadersHoldSlots`), the one that finds the
queue full is another, and slots are at most as many as the queue has places
(`RoomForAll`). `NoWorkAbandoned` needs `ReadToTheEnd`
(a request the client is done with, while the connection lasts, has been
closed by the server), which holds with one round (`Rounds = {1}`); with two
it is false, as said below. The client's
`SlotsAccounted` and `NothingMissedAtStop` carry over.

**Client, proxy and server** (`ChainProofs`). `ToldTheTruthEndToEnd`: the invariant
joins the three programs' invariants over the two wires, and `TimedOut` (the
proxy reports a time-out only when its connection to the server is lost). What
the client got was sent by the proxy (`ToldByProxy`), the proxy got it from the
server, where `ReplyMatchesFate` speaks, or made it up for a reason that the
property names.

**Policies** (`RoutingProofs`): for every set of callers, all weights, capacity
of the averages, latencies and bodies, the four invariants that `Routing` checks,
`DelaysAreSerial`, and the refinement `ImplementsWeightedUplink`.

*The ring.* `Holds(x, n, w)` says that the moving average `x` stands for the `n`
numbers `w`, oldest first: entry `k` is `k` slots from `begin`, going round, and
the sum is theirs. `PushHolds` proves `Mavg_push` right against it: pushed onto, a
ring holds the same numbers without the oldest and with the new one (`Slides`).
That sum and contents stay together needs induction over the number of
entries, for which no induction theorem with an operator parameter can be used;
`Counting` does it with sets in the place of predicates (`Inductive`,
`SetInductive`: a set that contains 0 and each successor, or the empty set and
each set with one member more), from `WFMin`, and proves the facts
about `SumFunctionOnSet` that follow: it adds up in any order, is monotonic, changes with one member,
grows and slides with a sequence, and is the same by rows as by columns.

*The calls.* `Calls` is the types; `Serial` (whoever sleeps holds `plMutex`), from
which `DelaysAdd` follows; `Elsewhere` (under the other policies nobody calls); and
`Asked` (a call under way counts one of the bodies, its sink is what some draw
chose, and once it is past its delay a window has begun).

*The refinement.* `Sent` is what the mapping makes of `routed`: without the bytes
of callers asleep. Since at most one is (`Serial`), `Sent` changes by one entry at
most (`SentOne`). `Decides` and `Credits` say what a request and an answer may do to
the counters, in terms of the bytes sent before and after; `LockUpStutters`,
`WakeUpDecides` and `WakeDownCredits` show each step of the latency policy to be nothing or one of
them (`PolicySteps`), and `StepsRefine` that of these only a decision is visible in the
uplink. An answer may be counted or not (`Credits` has `counted` as a parameter): nothing
about the latency policy's downlink is assumed that line 154 does not give.

*The averages.* Only because of the refinement do they have to be treated once.
`Counted`: `cup` is `Sent`, and `cdw` is at most `returned` and equal to it unless the
policy is the latency one. `Averaged`: there are windows `q` as they were *counted*,
each `Within` the true one in `past` (the same uplink, no more downlink), and each ring
`Holds` its column of `q`. Every one of `PolicySteps` keeps both. `WindowsAreSliding` reads
off `Holds`; `TotalsAgree` exchanges two sums over `q` (`Sideways`), so it holds of
what was counted whatever was missed.

*The fixed policy.* Each ring `Covers` the windows in `recent`: it holds *some* numbers,
none less than those of their window (`AtLeast`). A push of a counter that is at
least what the window carried keeps this (`PushCovers`), however much the counter
has gathered before; the sums compare by `SumBelow`.

**Applications** (`ApplicationProofs`): for every set of goroutines, every
configuration and every `timeWindow`, the four invariants that `Applications` checks.

*Types.* A statement is two steps, and what is evaluated now is assigned when other
goroutines have moved on. `Fits` says what a value on its way may be: an index
read for `append` was the length, which only grows; one read for `slot` or
`advance` is a place in the ring. And whoever is about to replace an entry has
seen the ring full, which it stays; without that `vec[begin]` might be read
outside of the slice.

*No byte twice.* `NoneTwice`: what a goroutine is about to assign to `rcv` is at
most what has been received, and one response more if it is counting one
(`Within`). Since `received` only grows, a value that has gone stale is too small,
never too large.

*Exact while alone.* Until two calls have overlapped, one is in progress at
most, and everything is determined by the statement it is at. `Alone` says
so by `Midway`, which has a part for the counters (`Counts`: while a window is being
closed its bytes are in `sntW`, and after `carrySnt` in `snt` as well) and one for the
ring (`Averages`: the ring `Entries` and their sum are those before the push
or after it; between `slot` and `advance` the new entry is in the place of the
oldest and `begin` has yet to move). One lemma for each kind of step carries it
on: `Starts`, `BodyOn`, `Closes`, `Branches`, `Reads`, `Writes`. The ring lemmas are
those that `RoutingProofs` uses, in `Counting`.

*Fragments.* A reply is a fold of `CopyTo` over the offsets of its fragments. That
the recursive function behind it exists (`StampingDefined`) and what it computes
(`FoldStamps`) is shown by the induction over sets in `Counting`, as for sums: a
copy overwrites no stamp, and not the one that is copied (`CopyStamps`), because
fragments lie apart (`FragmentsApart`) if a stamp fits into the last of them
(`LastFragments`). `Served` joins this to whether a process survives.

These proofs found two things about the models. The client's type for messages
left out two of the types that `util.go:29-36` lists, which a reply may have as
far as the client's code can tell; and the proxy's `ToldTheTruth` needs that the
destination of a request on its way is one of the servers, which no invariant
had said.

Checked by TLC only: liveness under fairness (`EveryRequestSettled`,
`ClientStops`, `TestEnds`, `EveryCallReturns`), which the
provers do not reach, and `NothingStuck`, which speaks of `ENABLED`. The `violation` runs are TLC's alone.

## Not modelled

Configuration parsing appears as the assumptions on constants (`BufSize` is
checked to be positive by the code, `Workers` is not). In the models of the
programs a message is its `Type`; bodies and sizes appear in `Application`
and in the policies, which count them. Timestamps and round-trip times are left
out, and so is the rounding of floating-point numbers in averages and delays.
`NoAbandonedWork` is checked for applications that answer once: with two
rounds a client stops reading at the second message and returns while the
worker is still at it. Flow control is left out: an encoder never blocks. A second
connection from client to server and several servers behind the proxy differ
from one only in the number of wires. The histogram's bins and `Matrix` are pure
counting under a mutex. `InitLogger`, `PingTest` and the ZeroMQ client are called
from no program of the repository; JSON and TLS are pure data.

## Plan

Modelled as far as planned: all three programs, their compositions, the three
policies, the applications and the injected delays. All invariants and action
properties of the passing runs are proved but for `NothingStuck`, and both refinements.
