---------------------------- MODULE MCPotholeSync ----------------------------
(* Instances of PotholeSync for TLC: the middle place is near to both ends. *)
EXTENDS PotholeSync, TLC

CONSTANTS p1, p2, rideA, rideB

TwoRides == p1 :> rideA @@ p2 :> rideB

Found(hits, area, frame, confidence, places) ==
  {[at |-> x, hits |-> hits, area |-> area, frame |-> frame, confidence |-> confidence] :
     x \in places}

(* Severe ones, seen small from 20 m, Minor ones, and one whose coordinates *)
(* are out of range.                                                       *)
SomeClusters ==
  Found(2, 20, FrameSeverity(150, 200), 90, Places)
  \cup Found(1, 2, FrameSeverity(300, None), 30, Places)
  \cup Found(1, 0, FrameSeverity(0, None), 0, {None})

(* The second ride finds at most one pothole and is not repeated. *)
SmallSecondRide == Len(found[rideB]) <= 1 /\ proc[p2].tries <= 1
=============================================================================
