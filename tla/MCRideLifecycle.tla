--------------------------- MODULE MCRideLifecycle ---------------------------
(* Instances of RideLifecycle for TLC. *)
EXTENDS RideLifecycle, TLC

CONSTANTS w1, w2, q1, q2, b1, c1

Symmetry == Permutations(Workers) \cup Permutations(Requests)

(* The second ride is there for the order of the queue only: it arrives while *)
(* the first one waits in the queue and nobody is at work, and from then on   *)
(* nothing crashes, times out or raises, and process_by_id is not run.        *)
SecondRideForTheQueue ==
  status'[2] # "absent" =>
    /\ status[2] = "absent" => status[1] = "queued" /\ \A j \in Jobs : job[j] = Idle
    /\ stops' = 0 /\ interfered' = {}
    /\ job'[c1] = Idle
    /\ \A j \in Jobs : job'[j].task \notin {"timedout", "report"} /\ job'[j].thread # "raised"
=============================================================================
