---------------------------- MODULE HazardConsensus ----------------------------
(***************************************************************************)
(* What the community is promised about a hazard (the header of             *)
(* add_fixed_verification.sql): each user has one signal, the last one      *)
(* tapped; the hazard is fixed when enough users say so and they outnumber  *)
(* those who say it is still there; its owner hears of a change that        *)
(* somebody else's tap makes.  Something else may blur the status, until    *)
(* the next tap that meets no other.                                        *)
(***************************************************************************)
EXTENDS Naturals, FiniteSets

CONSTANTS Users, Owner, FixAt, None

VARIABLES signal,   \* each user's signal, or None
          status,   \* "active" or "fixed"
          told,     \* the status in the owner's last flip notification
          blurred   \* whether status may be other than the consensus

Saying(s, of) == Cardinality({u \in Users : of[u] = s})

Consensus(of) ==
  IF Saying("fixed", of) >= FixAt /\ Saying("fixed", of) > Saying("still", of)
  THEN "fixed" ELSE "active"

Signal(u, s) == signal' = [signal EXCEPT ![u] = s]

(* The owner hears of the status, but surely only if it was right before.   *)
Tap(u, s) ==
  /\ Signal(u, s)
  /\ status' = Consensus(signal')
  /\ \/ told' = IF status' # status /\ u # Owner THEN status' ELSE told
     \/ blurred /\ told' \in {told, status'}
  /\ blurred' = FALSE

Blur ==
  /\ signal' = signal \/ \E u \in Users, s \in {"still", "fixed"} : Signal(u, s)
  /\ status' \in {"active", "fixed"} /\ told' \in {told, status'}
  /\ blurred' = TRUE

Init ==
  /\ signal = [u \in Users |-> None]
  /\ status = "active" /\ told = "active" /\ blurred = FALSE

Next == (\E u \in Users, s \in {"still", "fixed"} : Tap(u, s)) \/ Blur

Spec == Init /\ [][Next]_<<signal, status, told, blurred>>
=============================================================================
