--------------------------- MODULE RequestReply -----------------------------
(***************************************************************************)
(* What a RoPE server promises its peers, stream by stream, and nothing    *)
(* about how: there are no channels and no workers here.  A request is     *)
(* taken on, refused or found undecodable, once; only a request that was   *)
(* taken on is answered, only a refused one is told QueueFull, the stream  *)
(* of a request that was taken on is closed at most once and not written   *)
(* afterwards; and never more than Capacity requests are taken on and not  *)
(* yet finished.  Server implements it.                                    *)
(***************************************************************************)
EXTENDS Naturals, Sequences, FiniteSets

CONSTANTS
  Streams,   \* the streams peers may open
  Capacity   \* most requests taken on and unfinished

VARIABLES
  fate,      \* fate[s]: what has become of the request on s
  told,      \* told[s]: the messages the peer of s has been sent
  alive      \* the server is running

avars == <<fate, told, alive>>

Taken == {s \in Streams : fate[s] = "taken"}

AInit ==
  /\ fate = [s \in Streams |-> "new"]
  /\ told = [s \in Streams |-> <<>>]
  /\ alive = TRUE

Take(s) ==
  /\ alive /\ fate[s] = "new" /\ Cardinality(Taken) < Capacity
  /\ fate' = [fate EXCEPT ![s] = "taken"]
  /\ UNCHANGED <<told, alive>>

Refuse(s) ==
  /\ alive /\ fate[s] = "new"
  /\ fate' = [fate EXCEPT ![s] = "refused"]
  /\ told' \in {told, [told EXCEPT ![s] = <<"QueueFull">>]}
  /\ UNCHANGED alive

Fail(s) ==
  /\ alive /\ fate[s] = "new"
  /\ fate' = [fate EXCEPT ![s] = "failed"]
  /\ UNCHANGED <<told, alive>>

Answer(s) ==
  /\ alive /\ fate[s] = "taken"
  /\ told' = [told EXCEPT ![s] = Append(@, "Response")]
  /\ UNCHANGED <<fate, alive>>

Finish(s) ==
  /\ alive /\ fate[s] = "taken"
  /\ fate' = [fate EXCEPT ![s] = "done"]
  /\ UNCHANGED <<told, alive>>

Stop ==
  /\ alive
  /\ alive' = FALSE
  /\ UNCHANGED <<fate, told>>

ANext ==
  \/ \E s \in Streams : Take(s) \/ Refuse(s) \/ Fail(s) \/ Answer(s) \/ Finish(s)
  \/ Stop

ASpec == AInit /\ [][ANext]_avars
=============================================================================
