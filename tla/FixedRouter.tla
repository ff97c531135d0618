----------------------------- MODULE FixedRouter -----------------------------
(***************************************************************************)
(* The fixed routing policy of a proxy, pkg/routing/fixed.go.  It leaves   *)
(* the destination of a request as the client wrote it, whatever           *)
(* variables.dest says, and keeps two counters of bytes.  At the first     *)
(* request after the observation window is over it pushes them onto the    *)
(* moving averages, as the other policies do, but does not reset them.     *)
(*                                                                         *)
(* Both entry points hold fixedMutex from beginning to end, so each is one *)
(* action.                                                                 *)
(***************************************************************************)
EXTENDS RoutingPolicy

CONSTANT MaxTotal    \* bound on the bytes counted since the proxy was started

VARIABLES
  cu, cd,         \* bytes counted since the proxy was started, up and down
  stim,           \* the window has a beginning: stim is not time.Time{}
  b_u, b_d        \* the moving averages

(* History: the bytes of this window, and of each of the last TimeWindow   *)
(* windows, as records [up, down].                                         *)
VARIABLES now, recent

averages == <<b_u, b_d>>
vars == <<cu, cd, stim, averages, now, recent>>

NoBytes == [up |-> 0, down |-> 0]
Plus(a, b) == [up |-> a.up + b.up, down |-> a.down + b.down]

Init ==
  /\ cu = 0 /\ cd = 0 /\ stim = FALSE
  /\ b_u = NewMavg(TimeWindow) /\ b_d = NewMavg(TimeWindow)
  /\ now = NoBytes /\ recent = <<>>

(* A body may be empty: such calls can always be made.                     *)
Room(body) == body = 0 \/ cu + cd + body <= MaxTotal

(* Slip, see Server.tla: the averages are given what was counted before    *)
(* this request, which the window that is over includes.                   *)
DecisionPushesFirst(body) ==
  LET window == Plus(now, [up |-> body, down |-> 0])
      all == Append(recent, window)
  IN /\ Room(body)
     /\ cu' = cu + body
     /\ stim' = TRUE
     /\ \/ now' = window /\ UNCHANGED <<averages, recent>>
        \/ /\ stim
           /\ b_u' = Mavg_push(b_u, cu) /\ b_d' = Mavg_push(b_d, cd)
           /\ now' = NoBytes
           /\ recent' = IF Len(all) > TimeWindow THEN Tail(all) ELSE all
     /\ UNCHANGED cd

(* FixedDecision.  The request that finds the window over counts in it.    *)
Decision(body) ==
  LET window == Plus(now, [up |-> body, down |-> 0])
      all == Append(recent, window)
  IN /\ Room(body)
     /\ cu' = cu + body
     /\ stim' = TRUE
     /\ \/ now' = window /\ UNCHANGED <<averages, recent>>
        \/ /\ stim
           /\ b_u' = Mavg_push(b_u, cu') /\ b_d' = Mavg_push(b_d, cd)
           /\ now' = NoBytes
           /\ recent' = IF Len(all) > TimeWindow THEN Tail(all) ELSE all
     /\ UNCHANGED cd

(* FixedSetLastResponse *)
SetLastResponse(type, body) ==
  /\ stim /\ Room(body)
  /\ IF type = "Response"
       THEN cd' = cd + body /\ now' = Plus(now, [up |-> 0, down |-> body])
       ELSE UNCHANGED <<cd, now>>
  /\ UNCHANGED <<cu, stim, averages, recent>>

Next == \E body \in Bodies \cup {0} :
  \/ Decision(body)
  \/ \E type \in {"Response", "QueueFull"} : SetLastResponse(type, body)

Spec == Init /\ [][Next]_vars

-----------------------------------------------------------------------------
(* Type invariant. *)
TypeOK ==
  /\ cu \in Nat /\ cd \in Nat /\ stim \in BOOLEAN
  /\ RingOK(b_u) /\ RingOK(b_d)

(* The counters pushed are reset nowhere (fixed.go:62-63), so the averages *)
(* are not the bytes of observation windows that docs/UTILITIES.md:118-145 *)
(* and docs/ROUTING.md:35-37 speak of.  What can be relied upon is that    *)
(* they never report less than was carried: each window is one             *)
(* entry of the two rings, and all bytes sent and answered in the last     *)
(* TimeWindow windows are in the sums, the request that closed a window    *)
(* (fixed.go:55-63) in that window; what they have not got yet is in the   *)
(* counters.                                                               *)
SentIn(windows) == SumFunction([k \in DOMAIN windows |-> windows[k].up])
AnsweredIn(windows) == SumFunction([k \in DOMAIN windows |-> windows[k].down])

NeverUnderreports ==
  /\ Len(b_u.vec) = Len(recent) /\ Len(b_d.vec) = Len(recent)
  /\ b_u.sum >= SentIn(recent) /\ b_d.sum >= AnsweredIn(recent)
  /\ cu >= now.up /\ cd >= now.down
=============================================================================
