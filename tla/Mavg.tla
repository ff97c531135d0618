-------------------------------- MODULE Mavg --------------------------------
(***************************************************************************)
(* The moving average of pkg/util/util.go: a slice that grows to its       *)
(* capacity and is then used as a ring, with the sum of its elements kept  *)
(* up to date.  Mavg_eval divides sum by the number of elements.           *)
(***************************************************************************)
EXTENDS Integers, Sequences

NewMavg(size) == [vec |-> <<>>, size |-> size, begin |-> 0, end |-> 0, sum |-> 0]

(* Mavg_push on a full ring, once the slot begin is overwritten and the    *)
(* indices have become first and last.                                     *)
Overwrite(x, y, first, last) ==
  [x EXCEPT !.sum = @ - x.vec[x.begin + 1] + y,
            !.vec = [@ EXCEPT ![x.begin + 1] = y],
            !.begin = first, !.end = last]

Grow(x, y) ==
  [x EXCEPT !.vec = Append(@, y), !.sum = @ + y, !.end = @ + 1]

(* Slips, see Server.tla: the oldest slot is overwritten once and for all; *)
(* and the index does not wrap.                                            *)
Mavg_pushKeepsBegin(x, y) ==
  IF Len(x.vec) < x.size THEN Grow(x, y) ELSE Overwrite(x, y, x.begin, x.end)

Mavg_pushNoWrap(x, y) ==
  IF Len(x.vec) < x.size THEN Grow(x, y) ELSE Overwrite(x, y, x.begin + 1, x.end + 1)

(* The two growing branches of the code differ only in that the first      *)
(* assigns the sum, which is 0 then.                                       *)
Mavg_push(x, y) ==
  IF Len(x.vec) < x.size
  THEN Grow(x, y)
  ELSE Overwrite(x, y, (x.begin + 1) % Len(x.vec), (x.end + 1) % Len(x.vec))
=============================================================================
