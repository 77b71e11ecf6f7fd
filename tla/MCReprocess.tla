----------------------------- MODULE MCReprocess -----------------------------
(* Instance of Reprocess for TLC: two rides of the old client, each of which *)
(* ends where the other one starts, and a stationary one of the new client   *)
(* that meets the first at its start.  The detections of the second ride may *)
(* be stored twice, all the same.                                            *)
EXTENDS Reprocess, TLC

CONSTANTS d1, d2, d3, d4, d5, d6, d7, d8, d9

Line(t, xs) == [i \in DOMAIN xs |-> [t |-> t + 2 * (i - 1), x |-> xs[i]]]

Tracks ==
  1 :> Line(100, <<0, 2, 4, 6, 8>>) @@
  2 :> Append(Line(110, <<8, 4, 0, 0>>), [t |-> None, x |-> 8]) @@
  3 :> Line(0, <<0, 1, 0, 0, 1>>)

OfRide ==
  d1 :> 1 @@ d2 :> 1 @@ d3 :> 1 @@ d4 :> 2 @@ d5 :> 2 @@ d6 :> 3 @@ d7 :> 3 @@ d8 :> 2 @@ d9 :> 2
TimeOf ==
  d1 :> 4 @@ d2 :> 4 @@ d3 :> 2 @@ d4 :> 2 @@ d5 :> 3 @@ d6 :> 1 @@ d7 :> 2 @@ d8 :> 2 @@ d9 :> 3
AheadOf ==
  d1 :> 0 @@ d2 :> 1 @@ d3 :> 0 @@ d4 :> 0 @@ d5 :> 0 @@ d6 :> 0 @@ d7 :> 1 @@ d8 :> 0 @@ d9 :> 0
RoundOf == [d \in DOMAIN OfRide |-> IF d \in {d8, d9} THEN 2 ELSE 1]
=============================================================================
