------------------------------ MODULE Reprocess ------------------------------
(***************************************************************************)
(* reprocess_gps_coords.py: rides whose client stored their time stamps in  *)
(* milliseconds were processed with every detection at the start of the     *)
(* track.  The script, run by hand and as often as it takes, corrects the   *)
(* detections of a ride one by one, deletes the potholes of the ride and    *)
(* inserts those of the corrected detections.  Any call may fail, and the   *)
(* script may be killed between any two; rides go on being processed        *)
(* meanwhile, also again: a failed one by its client, any one by            *)
(* process_by_id.                                                           *)
(*                                                                          *)
(* A ride is a number, by created_at.  DBSCAN is external: clusters of a    *)
(* line.  Severity is left out (the script inserts "Minor"), and --dry-run, *)
(* which changes nothing.                                                   *)
(***************************************************************************)
EXTENDS GpsTrack, FiniteSetsExt

CONSTANTS
  Rides, Track,              \* the GPS track of each ride
  Dets, Of, Time, Ahead,     \* detections: ride, video_timestamp, offset,
  Round,                     \* and which insertion of the ride's stores it
  Radius, MinDetections      \* MERGE_RADIUS_METERS, CLUSTER_MIN_DETECTIONS

ASSUME ReprocessAssumption ==
  /\ Rides \subseteq Nat
  /\ IsFiniteSet(Dets) /\ Of \in [Dets -> Rides] /\ Round \in [Dets -> Nat \ {0}]

ASSUME NoneAssumption == None \notin Rides

VARIABLES
  status,  \* rides_metadata.status of each ride
  rounds,  \* how often the detections of each ride have been inserted
  coord,   \* raw_detections: the place of each detection, or None
  pending, \* the ride in process and its clusters not yet synced
  rows,    \* verified_potholes [at, ride, hits]
  pass,    \* the script: where, rides left, ride, detections and clusters left
  broken,  \* history: rides given up with their detections already right
  redone   \* history: rides processed again in the script's hands or after it

rideVars == <<status, rounds, pending>>
vars == <<rideVars, coord, rows, pass, broken, redone>>

(* The detections that the n-th insertion of a ride stores, and all that are *)
(* stored by now.                                                           *)
Batch(r, n) == {d \in Dets : Of[d] = r /\ Round[d] = n}
Present(r) == {d \in Dets : Of[d] = r /\ Round[d] <= rounds[r]}

(* Where the pipeline puts a detection, and where the script does. *)
Placed == [d \in Dets |-> Located(Track[Of[d]], Time[d], Ahead[d])]
Corrected ==
  [d \in Dets |-> Interpolate(Normalize(Track[Of[d]]), Time[d])]

(***************************************************************************)
(* DBSCAN on a line.  A detection with enough neighbours is a core; cores   *)
(* belong together when no gap between them is wider than the radius, and   *)
(* with them their neighbours.                                              *)
(***************************************************************************)
Cores(S, f) ==
  {d \in S : Cardinality({e \in S : Apart(f[d], f[e]) <= Radius}) >= MinDetections}

Linked(S, f, d, e) ==
  \A c \in Cores(S, f) : f[d] <= f[c] /\ f[c] < f[e] =>
    \E g \in Cores(S, f) : f[c] < f[g] /\ f[g] <= f[c] + Radius

Groups(S, f) ==
  {{d \in S : \E e \in Cores(S, f) : /\ Apart(f[d], f[e]) <= Radius
                                     /\ Linked(S, f, c, e) /\ Linked(S, f, e, c)} :
     c \in Cores(S, f)}

Centroid(G, f) == MapThenSumSet(LAMBDA d : f[d], G) \div Cardinality(G)

Clusters(S, f) ==
  {[at |-> Centroid(G, f), hits |-> Cardinality(G)] : G \in Groups(S, f)}

ClustersOf(S, f) == Clusters(S, [d \in S |-> f[d]])

(***************************************************************************)
(* The pipeline: PotholeSync has the detail.  A ride gets its detections,   *)
(* and its clusters are merged into the nearest row or inserted, one after  *)
(* the other; then it is completed.  Or the processing fails.               *)
(***************************************************************************)
(* The script has the ride before it, or has moved a detection of it.       *)
Touched(r) ==
  \/ pass.ride = r \/ r \in pass.left
  \/ \E d \in Present(r) : coord[d] # Placed[d]

(* process_by_id takes a ride in any status, also a completed one.  Rides   *)
(* are processed one at a time here; PotholeSync has overlaps.              *)
Claimable == \A s \in Rides : status[s] # "processing"

(* The first time, after a failure, or once more; the pipeline knows        *)
(* nothing of the corrected track.  An insertion whose answer is lost is    *)
(* made again (it is all or nothing); the clusters are of the detections in *)
(* hand, one batch, whatever is stored.                                     *)
Process(r) ==
  /\ Claimable
  /\ \E n \in {Round[d] : d \in Dets} :
       /\ n > rounds[r] /\ Batch(r, n) # {}
       /\ rounds' = [rounds EXCEPT ![r] = n]
       /\ coord' = [d \in Dets |->
            IF Of[d] = r /\ rounds[r] < Round[d] /\ Round[d] <= n THEN Placed[d] ELSE coord[d]]
       /\ pending' = ClustersOf(Batch(r, n), Placed)
  /\ status' = [status EXCEPT ![r] = "processing"]
  /\ redone' = IF Touched(r) THEN redone \cup {r} ELSE redone
  /\ UNCHANGED <<rows, pass, broken>>

Nearest(c) ==
  {w \in rows : /\ Apart(w.at, c.at) <= Radius
                /\ \A v \in rows : Apart(w.at, c.at) <= Apart(v.at, c.at)}

Row(at, ride, hits) == [at |-> at, ride |-> ride, hits |-> hits]

Sync(r) ==
  /\ status[r] = "processing"
  /\ \E c \in pending :
       /\ pending' = pending \ {c}
       /\ \/ \E w \in Nearest(c) :
               rows' = (rows \ {w}) \cup {Row(w.at, w.ride, w.hits + c.hits)}
          \/ Nearest(c) = {} /\ rows' = rows \cup {Row(c.at, r, c.hits)}
  /\ UNCHANGED <<status, rounds, coord, pass, broken, redone>>

Complete(r) ==
  /\ status[r] = "processing" /\ pending = {}
  /\ status' = [status EXCEPT ![r] = "completed"]
  /\ UNCHANGED <<rounds, coord, pending, rows, pass, broken, redone>>

(* process_ride raises with some of the clusters synced.                    *)
FailProcess(r) ==
  /\ status[r] = "processing"
  /\ status' = [status EXCEPT ![r] = "failed"]
  /\ pending' = {}
  /\ UNCHANGED <<rounds, coord, rows, pass, broken, redone>>

(***************************************************************************)
(* The script.                                                             *)
(***************************************************************************)
Pass(at, left, ride, todo, add) ==
  [at |-> at, left |-> left, ride |-> ride, todo |-> todo, add |-> add]

Stopped == Pass("stopped", {}, None, {}, {})
Idle(left) == Pass("ride", left, None, {}, {})

(* main: the completed rides, one of them (--ride-id), or the oldest ones   *)
(* (--limit).                                                               *)
StartPass ==
  LET completed == {r \in Rides : status[r] = "completed"} IN
  /\ pass = Stopped
  /\ \E left \in {{r} : r \in completed} \cup
                 {{s \in completed : s <= r} : r \in completed} :
       pass' = Idle(left)
  /\ UNCHANGED <<rideVars, coord, rows, broken, redone>>

Wrong(r) == {d \in Present(r) : coord[d] # Corrected[d]}

(* reprocess_ride: a ride is skipped when its track is empty or normalized, *)
(* when it has no detections, and when all of them are right.               *)
Skipped(r) == Track[r] = <<>> \/ IsNormalized(Track[r]) \/ Wrong(r) = {}

TakeRide(r) ==
  /\ pass.at = "ride" /\ r \in pass.left /\ \A s \in pass.left : r <= s
  /\ LET left == pass.left \ {r} IN
     pass' = IF Skipped(r) THEN Idle(left) ELSE Pass("update", left, r, Wrong(r), {})
  /\ UNCHANGED <<rideVars, coord, rows, broken, redone>>

(* Mutant of UpdateDetection: the track is not normalized. *)
UpdateRaw(d) ==
  /\ pass.at = "update" /\ d \in pass.todo
  /\ coord' = [coord EXCEPT ![d] = Interpolate(Track[Of[d]], Time[d])]
  /\ pass' = Pass("update", pass.left, pass.ride, pass.todo \ {d}, {})
  /\ UNCHANGED <<rideVars, rows, broken, redone>>

(* svc.update: retried, and the same each time. *)
UpdateDetection(d) ==
  /\ pass.at = "update" /\ d \in pass.todo
  /\ coord' = [coord EXCEPT ![d] = Corrected[d]]
  /\ pass' = Pass("update", pass.left, pass.ride, pass.todo \ {d}, {})
  /\ UNCHANGED <<rideVars, rows, broken, redone>>

Own(r) == {w \in rows : w.ride = r}

(* Mutant of DeletePotholes: none is deleted. *)
DeleteNothing ==
  /\ pass.at = "update" /\ pass.todo = {}
  /\ pass' = Pass("fetch", pass.left, pass.ride, {}, {})
  /\ UNCHANGED <<rideVars, coord, rows, broken, redone>>

(* The ride starts anew here, when nobody processes it and nothing has been *)
(* stored since the script read its detections.                             *)
DeletePotholes ==
  LET r == pass.ride
      anew == IF status[r] = "completed" /\ Wrong(r) = {} THEN {r} ELSE {} IN
  /\ pass.at = "update" /\ pass.todo = {}
  /\ rows' = rows \ Own(r)
  /\ pass' = Pass("fetch", pass.left, r, {}, {})
  /\ broken' = broken \ anew
  /\ redone' = redone \ anew
  /\ UNCHANGED <<rideVars, coord>>

(* Mutant of Recluster: of the detections as they were. *)
ReclusterStale ==
  /\ pass.at = "fetch"
  /\ pass' = Pass("insert", pass.left, pass.ride, {}, ClustersOf(Present(pass.ride), Placed))
  /\ UNCHANGED <<rideVars, coord, rows, broken, redone>>

(* The detections are fetched again. *)
Recluster ==
  /\ pass.at = "fetch"
  /\ pass' = Pass("insert", pass.left, pass.ride, {}, ClustersOf(Present(pass.ride), coord))
  /\ UNCHANGED <<rideVars, coord, rows, broken, redone>>

(* An insert that the unique index refuses, or that fails three times, is   *)
(* logged and passed over.                                                  *)
InsertPothole(c) ==
  LET free == \A w \in rows : w.at # c.at IN
  /\ pass.at = "insert" /\ c \in pass.add
  /\ pass' = Pass("insert", pass.left, pass.ride, {}, pass.add \ {c})
  /\ \/ free /\ rows' = rows \cup {Row(c.at, pass.ride, c.hits)} /\ UNCHANGED broken
     \/ rows' = rows /\ broken' = broken \cup {pass.ride}
  /\ UNCHANGED <<rideVars, coord, redone>>

EndRide ==
  /\ pass.at = "insert" /\ pass.add = {}
  /\ pass' = Idle(pass.left)
  /\ UNCHANGED <<rideVars, coord, rows, broken, redone>>

EndPass ==
  /\ pass.at = "ride" /\ pass.left = {}
  /\ pass' = Stopped
  /\ UNCHANGED <<rideVars, coord, rows, broken, redone>>

(* A call raises, executed or not: main logs it and goes on with the next   *)
(* ride.  (An insert does not raise.)  Or the script is killed.             *)
Fail ==
  /\ pass.ride # None
  /\ \/ UNCHANGED <<coord, rows>>
     \/ /\ \E d \in pass.todo : coord' = [coord EXCEPT ![d] = Corrected[d]]
        /\ UNCHANGED rows
     \/ /\ pass.at = "update" /\ pass.todo = {}
        /\ rows' = rows \ Own(pass.ride)
        /\ UNCHANGED coord
  /\ \/ pass' = Stopped
     \/ pass.at # "insert" /\ pass' = Idle(pass.left)
  /\ broken' = IF \/ pass.at = "insert" /\ pass.add = {}
                  \/ \E d \in Present(pass.ride) : coord'[d] # Corrected[d]
               THEN broken ELSE broken \cup {pass.ride}
  /\ UNCHANGED <<rideVars, redone>>

(* The track or the detections of a ride cannot be read, or the script is   *)
(* killed between two rides.                                                *)
FailRide ==
  /\ pass.at = "ride" /\ pass.left # {}
  /\ pass' \in {Idle(pass.left \ {Min(pass.left)}), Stopped}
  /\ UNCHANGED <<rideVars, coord, rows, broken, redone>>

Init ==
  /\ status = [r \in Rides |-> "queued"]
  /\ rounds = [r \in Rides |-> 0]
  /\ coord = [d \in Dets |-> None]
  /\ pending = {}
  /\ rows = {}
  /\ pass = Stopped
  /\ broken = {}
  /\ redone = {}

Next ==
  \/ \E r \in Rides : Process(r) \/ Sync(r) \/ Complete(r) \/ FailProcess(r) \/ TakeRide(r)
  \/ \E d \in Dets : UpdateDetection(d)
  \/ \E c \in pass.add : InsertPothole(c)
  \/ StartPass \/ DeletePotholes \/ Recluster \/ EndRide \/ EndPass \/ Fail \/ FailRide

Spec == Init /\ [][Next]_vars

-----------------------------------------------------------------------------
(* Type invariant; a detection has a place from its insertion on. *)
TypeOK ==
  /\ status \in [Rides -> {"queued", "processing", "completed", "failed"}]
  /\ rounds \in [Rides -> Nat]
  /\ DOMAIN coord = Dets
  /\ \A r \in Rides : \A d \in Present(r) : coord[d] \in {Placed[d], Corrected[d]}
  /\ \A w \in rows : w.ride \in Rides /\ w.hits \in Nat
  /\ pass.at \in {"stopped", "ride", "update", "fetch", "insert"}
  /\ pass.left \subseteq Rides /\ pass.ride \in Rides \cup {None}
  /\ pass.todo \subseteq Dets
  /\ broken \subseteq Rides /\ redone \subseteq Rides

At(S) == {c.at : c \in S}

(* What the pipeline makes of some insertion, and the script of them all.   *)
Old(r) == UNION {ClustersOf(Batch(r, n), Placed) : n \in 1 .. rounds[r]}
New(r) == ClustersOf(Present(r), Corrected)

(* The potholes of a ride never are of two clusterings at once: all are     *)
(* where the pipeline put them, or all where the corrected detections are,  *)
(* whatever failed in between, also when the ride has been processed more   *)
(* than once before.  Only process_by_id on a ride that the script is at,   *)
(* or has corrected, mixes the two, until a pass has deleted them all.      *)
OneClustering ==
  \A r \in Rides \ redone :
    At(Own(r)) \subseteq At(Old(r)) \/ At(Own(r)) \subseteq At(New(r))

(* A ride whose detections have been corrected has exactly the potholes of  *)
(* the corrected detections, each with their hits at least, in this pass    *)
(* and ever after: or it was given up between its last update and its last  *)
(* insert, which no later pass makes up for, or process_by_id has put it    *)
(* back to the uncorrected places.                                          *)
CorrectedIsShown ==
  \A r \in Rides \ (broken \cup redone) :
    /\ status[r] = "completed" /\ pass.ride # r
    /\ Wrong(r) = {}
    /\ \E d \in Present(r) : Placed[d] # Corrected[d]
    => /\ At(Own(r)) = At(New(r))
       /\ \A c \in New(r) : \E w \in Own(r) : w.at = c.at /\ w.hits >= c.hits
=============================================================================
