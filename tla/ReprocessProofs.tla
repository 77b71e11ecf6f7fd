--------------------------- MODULE ReprocessProofs ---------------------------
(***************************************************************************)
(* Proofs about Reprocess, for every set of rides, track and clustering     *)
(* radius: the type invariant, that the potholes of a ride are never of two *)
(* clusterings, and that a corrected ride shows its corrected potholes; and *)
(* about the operators it is made of: what clustering makes of detections,  *)
(* and where a track puts one.                                              *)
(***************************************************************************)
EXTENDS Reprocess, FiniteSetTheorems, TLAPS

OldAt(r) == \A w \in rows : w.ride = r => \E c \in Old(r) : w.at = c.at
NewAt(r) == \A w \in rows : w.ride = r => \E c \in New(r) : w.at = c.at
NoneOf(r) == \A w \in rows : w.ride # r

Shown(r, c) == \E w \in rows : w.ride = r /\ w.at = c.at /\ w.hits >= c.hits

(* The stored detections of a ride are all where the script puts them, all  *)
(* where the pipeline put them; the two places differ for one of them.      *)
Right(r) == \A d \in Present(r) : coord[d] = Corrected[d]
Untouched(r) == \A d \in Present(r) : coord[d] = Placed[d]
Moved(r) == \E d \in Present(r) : Placed[d] # Corrected[d]

(* What the script has in hand, whatever the pipeline does.                 *)
PassInv ==
  /\ pass.ride = None <=> pass.at \in {"stopped", "ride"}
  /\ \A d \in pass.todo : Of[d] = pass.ride
  /\ \A c \in pass.add : c.hits \in Nat
  /\ pass.ride # None => Moved(pass.ride)

(* How far the script has come with a ride that nobody processes again. *)
Progress(r) ==
  /\ status[r] = "completed"
  /\ pass.at = "update" => \A d \in Present(r) : d \in pass.todo \/ coord[d] = Corrected[d]
  /\ pass.at \in {"fetch", "insert"} => Right(r)
  /\ pass.at = "fetch" => NoneOf(r)
  /\ pass.at = "insert" =>
       /\ NewAt(r)
       /\ pass.add \subseteq New(r)
       /\ r \in broken \/ \A c \in New(r) \ pass.add : Shown(r, c)

ScriptInv ==
  \A r \in Rides \ redone :
    /\ r \in pass.left => status[r] = "completed"
    /\ pass.ride = r => Progress(r)

(* A ride in process. *)
PendingInv ==
  /\ \A r, s \in Rides : status[r] = "processing" /\ status[s] = "processing" => r = s
  /\ \A r \in Rides : status[r] = "processing" =>
       /\ pending \subseteq Old(r)
       /\ r \in redone \/ Untouched(r)

(* The potholes of a ride are the old ones until it is corrected. *)
StillOld(r) ==
  \/ Untouched(r) /\ pass.ride # r
  \/ ~Right(r)
  \/ pass.ride = r /\ pass.at = "update"

RowsInv ==
  \A r \in Rides \ redone : (StillOld(r) => OldAt(r)) /\ (OldAt(r) \/ NewAt(r))

ShownInv ==
  \A r \in Rides \ redone :
    r \notin broken /\ status[r] = "completed" /\ pass.ride # r /\ Right(r) /\ Moved(r)
    => NewAt(r) /\ \A c \in New(r) : Shown(r, c)

Inv == TypeOK /\ PassInv /\ ScriptInv /\ PendingInv /\ RowsInv /\ ShownInv

(* A pass record has the fields it was made with. *)
LEMMA PassFields ==
  ASSUME NEW at, NEW left, NEW ride, NEW todo, NEW add
  PROVE  /\ Pass(at, left, ride, todo, add).at = at
         /\ Pass(at, left, ride, todo, add).left = left
         /\ Pass(at, left, ride, todo, add).ride = ride
         /\ Pass(at, left, ride, todo, add).todo = todo
         /\ Pass(at, left, ride, todo, add).add = add
  BY DEF Pass

(* A row has the fields it was made with. *)
LEMMA RowFields ==
  ASSUME NEW at, NEW ride, NEW hits
  PROVE  /\ Row(at, ride, hits).at = at
         /\ Row(at, ride, hits).ride = ride
         /\ Row(at, ride, hits).hits = hits
  BY DEF Row

(* A cluster counts some detections. *)
LEMMA ClusterHits ==
  ASSUME NEW S \in SUBSET Dets, NEW f, NEW c \in ClustersOf(S, f)
  PROVE  c.hits \in Nat
  <1> DEFINE g == [d \in S |-> f[d]]
  <1>1. PICK G \in Groups(S, g) : c.hits = Cardinality(G)
    BY DEF ClustersOf, Clusters
  <1>2. G \subseteq Dets
    BY <1>1 DEF Groups
  <1> QED BY <1>1, <1>2, FS_Subset, FS_CardinalityType, ReprocessAssumption

(* So do the clusters of either kind of a ride. *)
LEMMA OldNewHits ==
  ASSUME NEW r
  PROVE  \A c \in Old(r) \cup New(r) : c.hits \in Nat
  <1>1. \A n : Batch(r, n) \in SUBSET Dets
    BY DEF Batch
  <1>2. Present(r) \in SUBSET Dets
    BY DEF Present
  <1> QED BY <1>1, <1>2, ClusterHits DEF Old, New

(* Where two functions agree on detections, so do their clusters. *)
LEMMA SameClusters ==
  ASSUME NEW S, NEW f, NEW g, \A d \in S : f[d] = g[d]
  PROVE  ClustersOf(S, f) = ClustersOf(S, g)
  <1>1. [d \in S |-> f[d]] = [d \in S |-> g[d]]
    OBVIOUS
  <1> QED BY <1>1 DEF ClustersOf

(* The places are constants, and until a ride is processed again so are its *)
(* detections and the clusters of either kind.                              *)
LEMMA Fixed ==
  ASSUME NEW CONSTANT r, rounds'[r] = rounds[r]
  PROVE  /\ Old(r)' = Old(r) /\ New(r)' = New(r) /\ Present(r)' = Present(r)
         /\ Placed' = Placed /\ Corrected' = Corrected
  BY DEF Old, New, Present

(* What is said of a ride whose detections are not touched. *)
LEMMA Kept ==
  ASSUME NEW CONSTANT r, rounds'[r] = rounds[r],
         \A d \in Present(r) : coord'[d] = coord[d]
  PROVE  /\ Right(r)' <=> Right(r)
         /\ Untouched(r)' <=> Untouched(r)
         /\ Moved(r)' <=> Moved(r)
  BY Fixed DEF Right, Untouched, Moved

(* And of a ride with the same potholes. *)
LEMMA SameRows ==
  ASSUME NEW CONSTANT r, rounds'[r] = rounds[r],
         \A w : w \in rows' /\ w.ride = r <=> w \in rows /\ w.ride = r
  PROVE  /\ OldAt(r)' <=> OldAt(r)
         /\ NewAt(r)' <=> NewAt(r)
         /\ NoneOf(r)' <=> NoneOf(r)
         /\ \A c : Shown(r, c)' <=> Shown(r, c)
  BY Fixed DEF OldAt, NewAt, NoneOf, Shown

(* The script has touched a ride that it has corrected.                     *)
LEMMA RightIsTouched ==
  ASSUME NEW r, Right(r), Moved(r)
  PROVE  ~Untouched(r)
  BY DEF Right, Moved, Untouched

-----------------------------------------------------------------------------
LEMMA InitInv == Init => Inv
  <1> SUFFICES ASSUME Init PROVE Inv
    OBVIOUS
  <1>1. \A r \in Rides : Present(r) = {}
    BY ReprocessAssumption DEF Init, Present
  <1>2. /\ pass.at = "stopped" /\ pass.left = {} /\ pass.ride = None
        /\ pass.todo = {} /\ pass.add = {}
    BY PassFields DEF Init, Stopped
  <1> QED BY <1>1, <1>2, NoneAssumption
      DEF Init, Inv, TypeOK, PassInv, ScriptInv, PendingInv, RowsInv, ShownInv, OldAt, Moved

-----------------------------------------------------------------------------
(* The pipeline. *)
LEMMA ProcessInv ==
  ASSUME Inv, NEW r \in Rides, Process(r)
  PROVE  Inv'
  <1> USE DEF Inv
  <1>1. PICK n \in {Round[d] : d \in Dets} :
          /\ n > rounds[r] /\ rounds' = [rounds EXCEPT ![r] = n]
          /\ coord' = [d \in Dets |->
               IF Of[d] = r /\ rounds[r] < Round[d] /\ Round[d] <= n THEN Placed[d] ELSE coord[d]]
          /\ pending' = ClustersOf(Batch(r, n), Placed)
    BY DEF Process
  <1>2. /\ \A s \in Rides : status[s] # "processing"
        /\ status' = [status EXCEPT ![r] = "processing"]
        /\ redone' = IF Touched(r) THEN redone \cup {r} ELSE redone
        /\ rows' = rows /\ pass' = pass /\ broken' = broken
    BY DEF Process, Claimable
  <1>3. /\ n \in Nat /\ n > 0 /\ rounds[r] \in Nat /\ rounds'[r] = n
        /\ status'[r] = "processing"
        /\ \A s \in Rides : s # r => rounds'[s] = rounds[s] /\ status'[s] = status[s]
    BY <1>1, <1>2, ReprocessAssumption DEF TypeOK
  <1>4. /\ \A d \in Present(r)' : \/ d \in Present(r) /\ coord'[d] = coord[d]
                               \/ coord'[d] = Placed[d]
        /\ Present(r) \subseteq Present(r)'
    BY <1>1, <1>3, ReprocessAssumption DEF Present
  <1>5. \A s \in Rides : s # r => \A d \in Present(s) : coord'[d] = coord[d]
    BY <1>1 DEF Present
  <1>6. Old(r) \subseteq Old(r)' /\ pending' \subseteq Old(r)'
    <2>1. Old(r)' = UNION {ClustersOf(Batch(r, m), Placed) : m \in 1 .. n}
      BY <1>3 DEF Old
    <2>2. 1 .. rounds[r] \subseteq 1 .. n /\ n \in 1 .. n
      BY <1>1, <1>3
    <2> QED BY <1>1, <2>1, <2>2 DEF Old
  <1>7. \A s \in Rides : s # r =>
          /\ Right(s)' <=> Right(s)
          /\ Untouched(s)' <=> Untouched(s)
          /\ Moved(s)' <=> Moved(s)
          /\ OldAt(s)' <=> OldAt(s)
          /\ NewAt(s)' <=> NewAt(s)
          /\ NoneOf(s)' <=> NoneOf(s)
          /\ \A c : Shown(s, c)' <=> Shown(s, c)
          /\ New(s)' = New(s) /\ Old(s)' = Old(s) /\ Present(s)' = Present(s)
    BY <1>2, <1>3, <1>5, Kept, SameRows, Fixed
  <1>8. ASSUME r \notin redone'
        PROVE  /\ r \notin redone /\ pass.ride # r /\ r \notin pass.left
               /\ Untouched(r) /\ Untouched(r)' /\ OldAt(r)'
    <2>1. r \notin redone /\ pass.ride # r /\ r \notin pass.left /\ Untouched(r)
      BY <1>2, <1>8 DEF Touched, Untouched
    <2>2. Untouched(r)'
      BY <1>4, <2>1, Fixed DEF Untouched
    <2>3. OldAt(r)
      BY <2>1 DEF RowsInv, StillOld
    <2>4. OldAt(r)'
      BY <1>2, <1>6, <2>3 DEF OldAt
    <2> QED BY <2>1, <2>2, <2>4
  <1>9. TypeOK'
    <2>1. \A d \in Present(r)' : coord'[d] \in {Placed[d], Corrected[d]}
      BY <1>4 DEF TypeOK
    <2>2. \A s \in Rides : s # r => \A d \in Present(s)' : coord'[d] \in {Placed[d], Corrected[d]}
      BY <1>5, <1>7 DEF TypeOK
    <2>3. rounds' \in [Rides -> Nat] /\ DOMAIN coord' = Dets /\ redone' \subseteq Rides
      BY <1>1, <1>2, <1>3 DEF TypeOK
    <2>4. \A s \in Rides : \A d \in Present(s)' : coord'[d] \in {Placed'[d], Corrected'[d]}
      BY <2>1, <2>2, Fixed
    <2> QED BY <1>2, <2>3, <2>4 DEF TypeOK
  <1>10. PassInv'
    <2>1. Moved(r) => Moved(r)'
      BY <1>4 DEF Moved
    <2> QED BY <1>2, <1>7, <2>1 DEF PassInv, TypeOK
  <1>11. redone \subseteq redone'
    BY <1>2
  <1>12. ScriptInv'
    <2> SUFFICES ASSUME NEW s \in Rides, s \notin redone'
                 PROVE  /\ s \in pass'.left => status'[s] = "completed"
                        /\ pass'.ride = s => Progress(s)'
      BY DEF ScriptInv
    <2>1. s # r \/ (pass'.ride # s /\ s \notin pass'.left)
      BY <1>2, <1>8
    <2> QED BY <1>2, <1>3, <1>5, <1>7, <1>11, <2>1, Fixed DEF ScriptInv, Progress
  <1>13. PendingInv'
    BY <1>2, <1>3, <1>6, <1>8 DEF PendingInv
  <1>14. RowsInv'
    <2> SUFFICES ASSUME NEW s \in Rides, s \notin redone'
                 PROVE  (StillOld(s)' => OldAt(s)') /\ (OldAt(s)' \/ NewAt(s)')
      BY DEF RowsInv
    <2> QED BY <1>2, <1>7, <1>8, <1>11 DEF RowsInv, StillOld
  <1>15. ShownInv'
    BY <1>2, <1>3, <1>7, <1>11 DEF ShownInv
  <1> QED BY <1>9, <1>10, <1>12, <1>13, <1>14, <1>15

LEMMA SyncInv ==
  ASSUME Inv, NEW r \in Rides, Sync(r)
  PROVE  Inv'
  <1> USE DEF Inv
  <1>1. status[r] = "processing" /\ UNCHANGED <<status, rounds, coord, pass, broken, redone>>
    BY DEF Sync
  <1>0. \A s \in Rides : /\ Old(s)' = Old(s) /\ New(s)' = New(s) /\ Present(s)' = Present(s)
                         /\ (Right(s)' <=> Right(s)) /\ (Moved(s)' <=> Moved(s))
                         /\ (Untouched(s)' <=> Untouched(s))
    BY <1>1, Fixed, Kept
  <1>2. PICK c \in pending :
          /\ pending' = pending \ {c}
          /\ \/ \E w \in Nearest(c) :
                  rows' = (rows \ {w}) \cup {Row(w.at, w.ride, w.hits + c.hits)}
             \/ rows' = rows \cup {Row(c.at, r, c.hits)}
    BY DEF Sync
  <1>3. c \in Old(r) /\ c.hits \in Nat
    BY <1>1, OldNewHits DEF PendingInv
  <1>4. r \notin redone => pass.ride # r /\ OldAt(r)
    BY <1>1 DEF ScriptInv, Progress, PendingInv, RowsInv, StillOld
  <1>5. \A v \in rows' : /\ v.hits \in Nat /\ v.ride \in Rides
                         /\ \/ v.ride = r /\ v.at = c.at
                            \/ \E w \in rows : w.ride = v.ride /\ w.at = v.at
    BY <1>2, <1>3, RowFields DEF TypeOK, Nearest
  <1>6. \A w \in rows : \E v \in rows' :
          v.ride = w.ride /\ v.at = w.at /\ v.hits >= w.hits
    BY <1>2, <1>3, RowFields DEF TypeOK, Nearest
  <1>7. TypeOK'
    BY <1>0, <1>1, <1>5, Fixed DEF TypeOK
  <1>8. \A s \in Rides : s # r =>
          /\ NoneOf(s) => NoneOf(s)'
          /\ OldAt(s) => OldAt(s)'
          /\ NewAt(s) => NewAt(s)'
    BY <1>0, <1>5 DEF NoneOf, OldAt, NewAt
  <1>9. \A s \in Rides : \A e \in New(s) : Shown(s, e) => Shown(s, e)'
    <2>1. SUFFICES ASSUME NEW s \in Rides, NEW e \in New(s), Shown(s, e) PROVE Shown(s, e)'
      OBVIOUS
    <2>2. PICK w \in rows : w.ride = s /\ w.at = e.at /\ w.hits >= e.hits
      BY <2>1 DEF Shown
    <2>3. PICK v \in rows' : v.ride = w.ride /\ v.at = w.at /\ v.hits >= w.hits
      BY <1>6
    <2>4. e.hits \in Nat /\ w.hits \in Nat /\ v.hits \in Nat
      BY <1>5, <2>1, OldNewHits DEF TypeOK
    <2> QED BY <2>2, <2>3, <2>4 DEF Shown
  <1>10. r \notin redone => OldAt(r)'
    BY <1>0, <1>3, <1>4, <1>5 DEF OldAt
  <1>11. PassInv'
    BY <1>0, <1>1 DEF PassInv, TypeOK
  <1>12. ScriptInv'
    <2> SUFFICES ASSUME NEW s \in Rides, s \notin redone, pass.ride = s
                 PROVE  Progress(s)'
      BY <1>1 DEF ScriptInv
    <2>1. s # r /\ Progress(s)
      BY <1>4 DEF ScriptInv
    <2> QED BY <1>0, <1>1, <1>8, <1>9, <2>1, Fixed DEF Progress
  <1>13. PendingInv'
    BY <1>0, <1>1, <1>2 DEF PendingInv
  <1>14. RowsInv'
    BY <1>0, <1>1, <1>8, <1>10 DEF RowsInv, StillOld
  <1>15. ShownInv'
    BY <1>0, <1>1, <1>8, <1>9 DEF ShownInv
  <1> QED BY <1>7, <1>11, <1>12, <1>13, <1>14, <1>15

(* The end of a processing, as "completed" or "failed". *)
LEMMA EndInv ==
  ASSUME Inv, NEW r \in Rides, Complete(r) \/ FailProcess(r)
  PROVE  Inv'
  <1> USE DEF Inv
  <1>1. /\ status[r] = "processing"
        /\ \/ status' = [status EXCEPT ![r] = "completed"]
           \/ status' = [status EXCEPT ![r] = "failed"]
        /\ UNCHANGED <<rounds, coord, rows, pass, broken, redone>>
    BY DEF Complete, FailProcess
  <1>0. \A s \in Rides : /\ Old(s)' = Old(s) /\ New(s)' = New(s) /\ Present(s)' = Present(s)
                         /\ (Right(s)' <=> Right(s)) /\ (Moved(s)' <=> Moved(s))
                         /\ (Untouched(s)' <=> Untouched(s))
                         /\ (OldAt(s)' <=> OldAt(s)) /\ (NewAt(s)' <=> NewAt(s))
                         /\ (NoneOf(s)' <=> NoneOf(s)) /\ \A c : Shown(s, c)' <=> Shown(s, c)
    BY <1>1, Fixed, Kept, SameRows
  <1>2. /\ status'[r] \in {"completed", "failed"}
        /\ \A s \in Rides : s # r => status'[s] = status[s] /\ status'[s] # "processing"
    BY <1>1 DEF TypeOK, PendingInv
  <1>3. r \notin redone => pass.ride # r /\ r \notin pass.left /\ Untouched(r)
    BY <1>1 DEF ScriptInv, Progress, PendingInv
  <1>4. TypeOK'
    BY <1>0, <1>1, Fixed DEF TypeOK
  <1>5. PassInv'
    BY <1>0, <1>1 DEF PassInv, TypeOK
  <1>6. ScriptInv'
    <2> SUFFICES ASSUME NEW s \in Rides, s \notin redone, s # r
                 PROVE  /\ s \in pass.left => status'[s] = "completed"
                        /\ pass.ride = s => Progress(s)'
      BY <1>1, <1>3 DEF ScriptInv
    <2> QED BY <1>0, <1>1, <1>2, Fixed DEF ScriptInv, Progress
  <1>7. PendingInv'
    BY <1>2 DEF PendingInv
  <1>8. RowsInv'
    BY <1>0, <1>1 DEF RowsInv, StillOld
  <1>9. ShownInv'
    <2>1. r \notin redone => ~(Right(r) /\ Moved(r))
      BY <1>3, RightIsTouched
    <2> QED BY <1>0, <1>1, <1>2, <2>1 DEF ShownInv
  <1> QED BY <1>4, <1>5, <1>6, <1>7, <1>8, <1>9

-----------------------------------------------------------------------------
(* The script. *)
(* A step of it that touches neither detections nor rows changes nothing    *)
(* that is said of them.                                                    *)
LEMMA SameState ==
  ASSUME rounds' = rounds, coord' = coord, rows' = rows
  PROVE  /\ \A s \in Rides :
              /\ Old(s)' = Old(s) /\ New(s)' = New(s) /\ Present(s)' = Present(s)
              /\ (Right(s)' <=> Right(s)) /\ (Moved(s)' <=> Moved(s))
              /\ (Untouched(s)' <=> Untouched(s))
              /\ (OldAt(s)' <=> OldAt(s)) /\ (NewAt(s)' <=> NewAt(s))
              /\ (NoneOf(s)' <=> NoneOf(s)) /\ \A c : Shown(s, c)' <=> Shown(s, c)
         /\ Placed' = Placed /\ Corrected' = Corrected
  <1>1. \A s \in Rides :
          /\ Old(s)' = Old(s) /\ New(s)' = New(s) /\ Present(s)' = Present(s)
          /\ (Right(s)' <=> Right(s)) /\ (Moved(s)' <=> Moved(s))
          /\ (Untouched(s)' <=> Untouched(s))
    BY Fixed, Kept
  <1>2. \A s \in Rides :
          /\ (OldAt(s)' <=> OldAt(s)) /\ (NewAt(s)' <=> NewAt(s))
          /\ (NoneOf(s)' <=> NoneOf(s)) /\ \A c : Shown(s, c)' <=> Shown(s, c)
    BY SameRows
  <1>3. Placed' = Placed /\ Corrected' = Corrected
    OBVIOUS
  <1> QED BY <1>1, <1>2, <1>3

LEMMA StartPassInv == ASSUME Inv, StartPass PROVE Inv'
  <1> USE DEF Inv
  <1>1. PICK left \in SUBSET {r \in Rides : status[r] = "completed"} : pass' = Idle(left)
    BY DEF StartPass
  <1>2. pass.at = "stopped" /\ UNCHANGED <<status, rounds, coord, pending, rows, broken, redone>>
    BY PassFields DEF StartPass, Stopped, rideVars
  <1>3. /\ pass'.at = "ride" /\ pass'.left = left /\ pass'.ride = None
        /\ pass'.todo = {} /\ pass'.add = {}
    BY <1>1, PassFields DEF Idle
  <1>4. pass.ride = None
    BY <1>2 DEF PassInv
  <1>5. TypeOK'
    BY <1>1, <1>2, <1>3, SameState DEF TypeOK
  <1>6. PassInv'
    BY <1>3 DEF PassInv
  <1>7. ScriptInv'
    BY <1>1, <1>2, <1>3, NoneAssumption DEF ScriptInv
  <1>8. PendingInv'
    BY <1>2, SameState DEF PendingInv
  <1>9. RowsInv'
    BY <1>2, <1>3, <1>4, SameState DEF RowsInv, StillOld
  <1>10. ShownInv'
    BY <1>2, <1>4, NoneAssumption, SameState DEF ShownInv
  <1> QED BY <1>5, <1>6, <1>7, <1>8, <1>9, <1>10

LEMMA TakeRideInv == ASSUME Inv, NEW r \in Rides, TakeRide(r) PROVE Inv'
  <1> USE DEF Inv
  <1>1. /\ pass.at = "ride" /\ r \in pass.left
        /\ UNCHANGED <<status, rounds, coord, pending, rows, broken, redone>>
    BY DEF TakeRide, rideVars
  <1>2. \/ pass' = Idle(pass.left \ {r})
        \/ Wrong(r) # {} /\ pass' = Pass("update", pass.left \ {r}, r, Wrong(r), {})
    BY DEF TakeRide, Skipped
  <1>3. /\ pass'.left \subseteq pass.left /\ pass'.add = {} /\ pass.ride = None
        /\ \/ pass'.at = "ride" /\ pass'.ride = None /\ pass'.todo = {}
           \/ pass'.at = "update" /\ pass'.ride = r /\ pass'.todo = Wrong(r) /\ Wrong(r) # {}
    BY <1>1, <1>2, PassFields DEF Idle, PassInv
  <1>4. Wrong(r) \subseteq Dets /\ \A d \in Wrong(r) : Of[d] = r
    BY DEF Wrong, Present
  <1>5. Wrong(r) # {} => Moved(r) /\ ~Right(r)
    BY DEF Wrong, Moved, Right, TypeOK
  <1>6. TypeOK'
    BY <1>1, <1>3, <1>4, SameState DEF TypeOK
  <1>7. PassInv'
    BY <1>1, <1>3, <1>4, <1>5, NoneAssumption, SameState DEF PassInv
  <1>8. ScriptInv'
    <2>1. ASSUME r \notin redone, pass'.ride = r PROVE Progress(r)'
      <3>1. status'[r] = "completed" /\ pass'.at = "update" /\ pass'.todo = Wrong(r)
        BY <1>1, <1>3, <2>1, NoneAssumption DEF ScriptInv
      <3>2. \A d \in Present(r)' : d \in pass'.todo \/ coord'[d] = Corrected'[d]
        BY <1>1, <3>1, SameState DEF Wrong
      <3> QED BY <3>1, <3>2 DEF Progress
    <2> QED BY <1>1, <1>3, <2>1, NoneAssumption DEF ScriptInv
  <1>9. PendingInv'
    BY <1>1, SameState DEF PendingInv
  <1>10. RowsInv'
    BY <1>1, <1>3, <1>5, NoneAssumption, SameState DEF RowsInv, StillOld
  <1>11. ShownInv'
    BY <1>1, <1>3, NoneAssumption, SameState DEF ShownInv
  <1> QED BY <1>6, <1>7, <1>8, <1>9, <1>10, <1>11

LEMMA UpdateInv == ASSUME Inv, NEW d \in Dets, UpdateDetection(d) PROVE Inv'
  <1> USE DEF Inv
  <1> DEFINE r == pass.ride
  <1>1. /\ pass.at = "update" /\ d \in pass.todo
        /\ coord' = [coord EXCEPT ![d] = Corrected[d]]
        /\ UNCHANGED <<status, rounds, pending, rows, broken, redone>>
    BY DEF UpdateDetection, rideVars
  <1>2. /\ pass'.at = "update" /\ pass'.left = pass.left /\ pass'.ride = r
        /\ pass'.todo = pass.todo \ {d} /\ pass'.add = {}
    BY PassFields DEF UpdateDetection
  <1>3. r \in Rides /\ Of[d] = r
    BY <1>1 DEF PassInv, TypeOK
  <1>4. /\ DOMAIN coord' = Dets
        /\ \A e \in Dets : coord'[e] = IF e = d THEN Corrected[d] ELSE coord[e]
        /\ \A s \in Rides : s # r => \A e \in Present(s) : coord'[e] = coord[e]
    BY <1>1, <1>3 DEF TypeOK, Present
  <1>0. \A s \in Rides : /\ Old(s)' = Old(s) /\ New(s)' = New(s) /\ Present(s)' = Present(s)
                         /\ (OldAt(s)' <=> OldAt(s)) /\ (NewAt(s)' <=> NewAt(s))
                         /\ (NoneOf(s)' <=> NoneOf(s)) /\ \A c : Shown(s, c)' <=> Shown(s, c)
                         /\ (Moved(s)' <=> Moved(s))
    BY <1>1, Fixed, SameRows DEF Moved
  <1>5. \A s \in Rides : s # r => (Right(s)' <=> Right(s)) /\ (Untouched(s)' <=> Untouched(s))
    BY <1>1, <1>4, Kept
  <1>6. TypeOK'
    <2>1. \A s \in Rides : \A e \in Present(s)' : coord'[e] \in {Placed'[e], Corrected'[e]}
      BY <1>0, <1>4, Fixed DEF TypeOK, Present
    <2> QED BY <1>1, <1>2, <1>4, <2>1 DEF TypeOK
  <1>7. PassInv'
    BY <1>0, <1>1, <1>2, <1>3 DEF PassInv
  <1>8. ScriptInv'
    <2>1. ASSUME r \notin redone PROVE Progress(r)'
      <3>1. Progress(r)
        BY <1>3, <2>1 DEF ScriptInv
      <3>2. \A e \in Present(r)' : e \in pass'.todo \/ coord'[e] = Corrected'[e]
        BY <1>0, <1>1, <1>2, <1>3, <1>4, <3>1, Fixed DEF Progress, Present
      <3> QED BY <1>1, <1>2, <3>1, <3>2 DEF Progress
    <2> QED BY <1>1, <1>2, <2>1 DEF ScriptInv
  <1>9. PendingInv'
    <2>1. status[r] = "processing" => r \in redone
      BY <1>3 DEF ScriptInv, Progress
    <2> QED BY <1>0, <1>1, <1>5, <2>1 DEF PendingInv
  <1>10. RowsInv'
    BY <1>0, <1>1, <1>2, <1>5 DEF RowsInv, StillOld
  <1>11. ShownInv'
    BY <1>0, <1>1, <1>2, <1>5 DEF ShownInv
  <1> QED BY <1>6, <1>7, <1>8, <1>9, <1>10, <1>11

LEMMA DeleteInv == ASSUME Inv, DeletePotholes PROVE Inv'
  <1> USE DEF Inv
  <1> DEFINE r == pass.ride
  <1>1. /\ pass.at = "update" /\ pass.todo = {} /\ rows' = rows \ Own(r)
        /\ UNCHANGED <<status, rounds, coord, pending>>
    BY DEF DeletePotholes, rideVars
  <1>2. /\ pass'.at = "fetch" /\ pass'.left = pass.left /\ pass'.ride = r /\ pass'.todo = {}
        /\ pass'.add = {}
    BY PassFields DEF DeletePotholes
  <1>3. \/ status[r] = "completed" /\ Right(r) /\ broken' = broken \ {r} /\ redone' = redone \ {r}
        \/ broken' = broken /\ redone' = redone
    BY DEF DeletePotholes, Right, Wrong
  <1>4. r \in Rides
    BY <1>1 DEF PassInv, TypeOK
  <1>5. r \notin redone' => status[r] = "completed" /\ Right(r)
    BY <1>1, <1>3, <1>4 DEF ScriptInv, Progress, Right
  <1>6. /\ \A w : w \in rows' <=> w \in rows /\ w.ride # r
        /\ NoneOf(r)'
    BY <1>1, <1>2 DEF Own, NoneOf
  <1>0. \A s \in Rides : /\ Old(s)' = Old(s) /\ New(s)' = New(s) /\ Present(s)' = Present(s)
                         /\ (Right(s)' <=> Right(s)) /\ (Untouched(s)' <=> Untouched(s))
                         /\ (Moved(s)' <=> Moved(s))
    BY <1>1, Fixed, Kept
  <1>7. \A s \in Rides : s # r =>
          /\ (OldAt(s)' <=> OldAt(s)) /\ (NewAt(s)' <=> NewAt(s))
          /\ (NoneOf(s)' <=> NoneOf(s)) /\ \A c : Shown(s, c)' <=> Shown(s, c)
          /\ (s \in redone' <=> s \in redone) /\ (s \in broken' <=> s \in broken)
    BY <1>1, <1>3, <1>6, SameRows
  <1>8. TypeOK'
    BY <1>0, <1>1, <1>2, <1>3, <1>6, Fixed DEF TypeOK
  <1>9. PassInv'
    BY <1>0, <1>1, <1>2, <1>4 DEF PassInv
  <1>10. ScriptInv'
    <2>1. r \notin redone' => Progress(r)'
      BY <1>0, <1>1, <1>2, <1>4, <1>5, <1>6 DEF Progress
    <2> QED BY <1>1, <1>2, <1>5, <1>7, <2>1 DEF ScriptInv
  <1>11. PendingInv'
    BY <1>0, <1>1, <1>5, <1>7 DEF PendingInv
  <1>12. RowsInv'
    <2>1. OldAt(r)'
      BY <1>2, <1>6 DEF OldAt, NoneOf
    <2> QED BY <1>0, <1>1, <1>2, <1>7, <2>1 DEF RowsInv, StillOld
  <1>13. ShownInv'
    BY <1>0, <1>1, <1>2, <1>7 DEF ShownInv
  <1> QED BY <1>8, <1>9, <1>10, <1>11, <1>12, <1>13

LEMMA ReclusterInv == ASSUME Inv, Recluster PROVE Inv'
  <1> USE DEF Inv
  <1> DEFINE r == pass.ride
  <1>1. pass.at = "fetch" /\ UNCHANGED <<status, rounds, coord, pending, rows, broken, redone>>
    BY DEF Recluster, rideVars
  <1>2. /\ pass'.at = "insert" /\ pass'.left = pass.left /\ pass'.ride = r /\ pass'.todo = {}
        /\ pass'.add = ClustersOf(Present(r), coord)
    BY PassFields DEF Recluster
  <1>3. r \in Rides
    BY <1>1 DEF PassInv, TypeOK
  <1>4. \A c \in pass'.add : c.hits \in Nat
    BY <1>2, ClusterHits DEF Present
  <1>5. TypeOK'
    BY <1>1, <1>2, SameState DEF TypeOK
  <1>6. PassInv'
    BY <1>1, <1>2, <1>3, <1>4, SameState DEF PassInv
  <1>7. ScriptInv'
    <2>1. ASSUME r \notin redone PROVE Progress(r)'
      <3>1. status[r] = "completed" /\ Right(r) /\ NoneOf(r)
        BY <1>1, <1>3, <2>1 DEF ScriptInv, Progress
      <3>2. pass'.add = New(r)
        BY <1>2, <3>1, SameClusters DEF Right, New
      <3>3. NewAt(r)
        BY <3>1 DEF NoneOf, NewAt
      <3> QED BY <1>1, <1>2, <1>3, <3>1, <3>2, <3>3, SameState DEF Progress
    <2> QED BY <1>1, <1>2, <2>1 DEF ScriptInv
  <1>8. PendingInv'
    BY <1>1, SameState DEF PendingInv
  <1>9. RowsInv'
    BY <1>1, <1>2, SameState DEF RowsInv, StillOld
  <1>10. ShownInv'
    BY <1>1, <1>2, SameState DEF ShownInv
  <1> QED BY <1>5, <1>6, <1>7, <1>8, <1>9, <1>10

LEMMA InsertInv == ASSUME Inv, NEW c \in pass.add, InsertPothole(c) PROVE Inv'
  <1> USE DEF Inv
  <1> DEFINE r == pass.ride
  <1>1. pass.at = "insert" /\ UNCHANGED <<status, rounds, coord, pending, redone>>
    BY DEF InsertPothole, rideVars
  <1>2. /\ pass'.at = "insert" /\ pass'.left = pass.left /\ pass'.ride = r /\ pass'.todo = {}
        /\ pass'.add = pass.add \ {c}
    BY PassFields DEF InsertPothole
  <1>3. \/ rows' = rows \cup {Row(c.at, r, c.hits)} /\ broken' = broken
        \/ rows' = rows /\ broken' = broken \cup {r}
    BY DEF InsertPothole
  <1>4. r \in Rides /\ c.hits \in Nat
    BY <1>1 DEF PassInv, TypeOK
  <1>5. r \notin redone => Progress(r) /\ Right(r) /\ NewAt(r) /\ c \in New(r)
    BY <1>1, <1>4 DEF ScriptInv, Progress
  <1>6. /\ \A w \in rows : w \in rows'
        /\ \A w \in rows' : w \notin rows => w.ride = r /\ w.at = c.at /\ w.hits = c.hits
        /\ r \in broken' \/ \E w \in rows' : w.ride = r /\ w.at = c.at /\ w.hits = c.hits
        /\ broken \subseteq broken' /\ broken' \subseteq broken \cup {r}
    BY <1>3, RowFields
  <1>0. \A s \in Rides : /\ Old(s)' = Old(s) /\ New(s)' = New(s) /\ Present(s)' = Present(s)
                         /\ (Right(s)' <=> Right(s)) /\ (Untouched(s)' <=> Untouched(s))
                         /\ (Moved(s)' <=> Moved(s))
    BY <1>1, Fixed, Kept
  <1>7. \A s \in Rides : \A e : Shown(s, e) => Shown(s, e)'
    BY <1>6 DEF Shown
  <1>8. \A s \in Rides : s # r => (OldAt(s)' <=> OldAt(s)) /\ (NewAt(s)' <=> NewAt(s))
    BY <1>1, <1>6, SameRows
  <1>9. r \notin redone => NewAt(r)'
    BY <1>0, <1>2, <1>4, <1>5, <1>6 DEF NewAt
  <1>10. r \in broken' \/ Shown(r, c)'
    BY <1>2, <1>4, <1>6 DEF Shown
  <1>11. TypeOK'
    <2>1. \A w \in rows' : w.ride \in Rides /\ w.hits \in Nat
      BY <1>4, <1>6 DEF TypeOK
    <2> QED BY <1>0, <1>1, <1>2, <1>4, <1>6, <2>1, Fixed DEF TypeOK
  <1>12. PassInv'
    BY <1>0, <1>1, <1>2, <1>4 DEF PassInv
  <1>13. ScriptInv'
    <2>1. ASSUME r \notin redone PROVE Progress(r)'
      <3>1. /\ status[r] = "completed" /\ Right(r)'
            /\ pass'.add \subseteq New(r)'
        BY <1>0, <1>1, <1>2, <1>4, <1>5, <2>1 DEF Progress
      <3>2. r \in broken' \/ \A e \in New(r)' \ pass'.add : Shown(r, e)'
        BY <1>0, <1>1, <1>2, <1>4, <1>5, <1>6, <1>7, <1>10, <2>1 DEF Progress
      <3> QED BY <1>1, <1>2, <1>9, <2>1, <3>1, <3>2 DEF Progress
    <2> QED BY <1>1, <1>2, <2>1 DEF ScriptInv
  <1>14. PendingInv'
    BY <1>0, <1>1 DEF PendingInv
  <1>15. RowsInv'
    <2>1. r \notin redone => ~StillOld(r)'
      <3>1. Moved(r)
        BY <1>4, NoneAssumption DEF PassInv
      <3> QED BY <1>0, <1>2, <1>4, <1>5, <3>1 DEF StillOld
    <2> QED BY <1>0, <1>1, <1>2, <1>8, <1>9, <2>1 DEF RowsInv, StillOld
  <1>16. ShownInv'
    BY <1>0, <1>1, <1>2, <1>6, <1>7, <1>8 DEF ShownInv
  <1> QED BY <1>11, <1>12, <1>13, <1>14, <1>15, <1>16

LEMMA EndRideInv == ASSUME Inv, EndRide PROVE Inv'
  <1> USE DEF Inv
  <1> DEFINE r == pass.ride
  <1>1. /\ pass.at = "insert" /\ pass.add = {}
        /\ UNCHANGED <<status, rounds, coord, pending, rows, broken, redone>>
    BY DEF EndRide, rideVars
  <1>2. /\ pass'.at = "ride" /\ pass'.left = pass.left /\ pass'.ride = None /\ pass'.todo = {}
        /\ pass'.add = {}
    BY PassFields DEF EndRide, Idle
  <1>3. r \in Rides /\ Moved(r)
    BY <1>1 DEF PassInv, TypeOK
  <1>4. r \notin redone =>
          /\ Right(r) /\ NewAt(r) /\ ~Untouched(r)
          /\ r \in broken \/ \A c \in New(r) : Shown(r, c)
    BY <1>1, <1>3, RightIsTouched DEF ScriptInv, Progress
  <1>5. TypeOK'
    BY <1>1, <1>2, SameState DEF TypeOK
  <1>6. PassInv'
    BY <1>2 DEF PassInv
  <1>7. ScriptInv'
    BY <1>1, <1>2, NoneAssumption DEF ScriptInv
  <1>8. PendingInv'
    BY <1>1, SameState DEF PendingInv
  <1>9. RowsInv'
    BY <1>1, <1>2, <1>4, NoneAssumption, SameState DEF RowsInv, StillOld
  <1>10. ShownInv'
    BY <1>1, <1>2, <1>4, NoneAssumption, SameState DEF ShownInv
  <1> QED BY <1>5, <1>6, <1>7, <1>8, <1>9, <1>10

LEMMA FailInv == ASSUME Inv, Fail PROVE Inv'
  <1> USE DEF Inv
  <1> PICK r \in Rides : pass.ride = r
    BY DEF Fail, TypeOK
  <1>1. UNCHANGED <<status, rounds, pending, redone>> /\ Moved(r) /\ r # None
    BY NoneAssumption DEF Fail, rideVars, PassInv
  <1>2. /\ pass'.at \in {"stopped", "ride"} /\ pass'.left \subseteq pass.left
        /\ pass'.ride = None /\ pass'.todo = {} /\ pass'.add = {}
    BY PassFields DEF Fail, Stopped, Idle
  <1>3. \/ coord' = coord /\ rows' = rows
        \/ /\ \E d \in pass.todo : coord' = [coord EXCEPT ![d] = Corrected[d]]
           /\ rows' = rows
        \/ /\ pass.at = "update" /\ rows' = rows \ Own(r)
           /\ coord' = coord
    BY DEF Fail
  <1>4. /\ broken' \in {broken, broken \cup {r}}
        /\ Right(r)' => r \in broken' \/ (pass.at = "insert" /\ pass.add = {})
    BY <1>1, Fixed DEF Fail, Right
  <1>5. /\ DOMAIN coord' = Dets
        /\ \A d \in Dets : coord'[d] = coord[d] \/ (Of[d] = r /\ coord'[d] = Corrected[d])
    BY <1>3 DEF TypeOK, PassInv
  <1>6. /\ \A w \in rows' : w \in rows
        /\ \A w \in rows : w \in rows' \/ (pass.at = "update" /\ w.ride = r)
    BY <1>3 DEF Own
  <1>0. \A s \in Rides : /\ Old(s)' = Old(s) /\ New(s)' = New(s) /\ Present(s)' = Present(s)
                         /\ (Moved(s)' <=> Moved(s)) /\ (Right(s) => Right(s)')
                         /\ (OldAt(s) => OldAt(s)') /\ (NewAt(s) => NewAt(s)')
    BY <1>1, <1>5, <1>6, Fixed DEF Moved, Right, OldAt, NewAt, Present
  <1>7. \A s \in Rides : s # r => (Right(s)' <=> Right(s)) /\ (Untouched(s)' <=> Untouched(s))
    BY <1>1, <1>5, Kept DEF Present
  <1>8. TypeOK'
    <2>1. \A s \in Rides : \A e \in Present(s)' : coord'[e] \in {Placed'[e], Corrected'[e]}
      BY <1>0, <1>1, <1>5, Fixed DEF TypeOK, Present
    <2> QED BY <1>1, <1>2, <1>4, <1>5, <1>6, <2>1 DEF TypeOK
  <1>9. PassInv'
    BY <1>2 DEF PassInv
  <1>10. ScriptInv'
    BY <1>1, <1>2, NoneAssumption DEF ScriptInv
  <1>11. PendingInv'
    <2>1. status[r] = "processing" => r \in redone
      BY DEF ScriptInv, Progress
    <2> QED BY <1>0, <1>1, <1>7, <2>1 DEF PendingInv
  <1>12. RowsInv'
    <2> SUFFICES ASSUME NEW s \in Rides, s \notin redone
                 PROVE  (StillOld(s)' => OldAt(s)') /\ (OldAt(s)' \/ NewAt(s)')
      BY <1>1 DEF RowsInv
    <2>1. CASE s # r
      BY <1>0, <1>2, <1>7, <2>1, NoneAssumption DEF RowsInv, StillOld
    <2>2. CASE s = r /\ pass.at = "update"
      BY <1>0, <2>2 DEF RowsInv, StillOld
    <2>3. CASE s = r /\ pass.at # "update"
      <3>1. Right(r)
        BY <1>1, <2>3 DEF ScriptInv, Progress, PassInv, TypeOK
      <3>2. Right(r)' /\ Moved(r)'
        BY <1>0, <1>1, <3>1
      <3>3. ~Untouched(r)'
        BY <3>2 DEF Right, Moved, Untouched
      <3> QED BY <1>0, <1>2, <2>3, <3>2, <3>3, NoneAssumption DEF RowsInv, StillOld
    <2> QED BY <2>1, <2>2, <2>3
  <1>13. \A s \in Rides : s # r \/ pass.at = "insert" =>
           \A c : Shown(s, c) => Shown(s, c)'
    BY <1>6 DEF Shown
  <1>14. ShownInv'
    <2>1. SUFFICES ASSUME NEW s \in Rides, s \notin redone, s \notin broken',
                          status[s] = "completed", Right(s)', Moved(s)
                   PROVE  NewAt(s)' /\ \A c \in New(s) : Shown(s, c)'
      BY <1>0, <1>1 DEF ShownInv
    <2>2. CASE s = r
      <3>1. pass.at = "insert" /\ pass.add = {} /\ r \notin broken
        BY <1>4, <2>1, <2>2
      <3>2. NewAt(r) /\ \A c \in New(r) : Shown(r, c)
        BY <2>1, <2>2, <3>1 DEF ScriptInv, Progress
      <3> QED BY <1>0, <1>13, <2>2, <3>1, <3>2
    <2>3. CASE s # r
      BY <1>0, <1>4, <1>7, <1>13, <2>1, <2>3 DEF ShownInv
    <2> QED BY <2>2, <2>3
  <1> QED BY <1>8, <1>9, <1>10, <1>11, <1>12, <1>14

(* Between two rides, or at the end of a pass. *)
LEMMA BetweenInv ==
  ASSUME Inv, pass.at = "ride", NEW left \in SUBSET pass.left, pass' \in {Idle(left), Stopped},
         UNCHANGED <<status, rounds, coord, pending, rows, broken, redone>>
  PROVE  Inv'
  <1> USE DEF Inv
  <1>1. /\ pass'.at \in {"stopped", "ride"} /\ pass'.left \subseteq pass.left
        /\ pass'.ride = None /\ pass'.todo = {} /\ pass'.add = {} /\ pass.ride = None
    BY PassFields DEF Stopped, Idle, PassInv
  <1>2. TypeOK'
    BY <1>1, SameState DEF TypeOK
  <1>3. PassInv'
    BY <1>1 DEF PassInv
  <1>4. ScriptInv'
    BY <1>1, NoneAssumption DEF ScriptInv
  <1>5. PendingInv'
    BY SameState DEF PendingInv
  <1>6. RowsInv'
    BY <1>1, NoneAssumption, SameState DEF RowsInv, StillOld
  <1>7. ShownInv'
    BY <1>1, SameState DEF ShownInv
  <1> QED BY <1>2, <1>3, <1>4, <1>5, <1>6, <1>7

LEMMA StutterInv == ASSUME Inv, UNCHANGED vars PROVE Inv'
  <1> USE DEF Inv
  <1>1. UNCHANGED <<status, rounds, coord, pending, rows, pass, broken, redone>>
    BY DEF vars, rideVars
  <1>2. TypeOK'
    BY <1>1, SameState DEF TypeOK
  <1>3. PassInv'
    BY <1>1, SameState DEF PassInv, TypeOK
  <1>4. ScriptInv'
    BY <1>1, SameState DEF ScriptInv, Progress
  <1>5. PendingInv'
    BY <1>1, SameState DEF PendingInv
  <1>6. RowsInv'
    BY <1>1, SameState DEF RowsInv, StillOld
  <1>7. ShownInv'
    BY <1>1, SameState DEF ShownInv
  <1> QED BY <1>2, <1>3, <1>4, <1>5, <1>6, <1>7

LEMMA NextInv == Inv /\ [Next]_vars => Inv'
  <1> SUFFICES ASSUME Inv, [Next]_vars PROVE Inv'
    OBVIOUS
  <1>1. ASSUME NEW r \in Rides, Process(r) PROVE Inv'
    BY <1>1, ProcessInv
  <1>2. ASSUME NEW r \in Rides, Sync(r) PROVE Inv'
    BY <1>2, SyncInv
  <1>3. ASSUME NEW r \in Rides, Complete(r) \/ FailProcess(r) PROVE Inv'
    BY <1>3, EndInv
  <1>4. ASSUME NEW r \in Rides, TakeRide(r) PROVE Inv'
    BY <1>4, TakeRideInv
  <1>5. ASSUME NEW d \in Dets, UpdateDetection(d) PROVE Inv'
    BY <1>5, UpdateInv
  <1>6. ASSUME NEW c \in pass.add, InsertPothole(c) PROVE Inv'
    BY <1>6, InsertInv
  <1>7. ASSUME EndPass \/ FailRide PROVE Inv'
    BY <1>7, BetweenInv DEF EndPass, FailRide, rideVars
  <1> QED BY <1>1, <1>2, <1>3, <1>4, <1>5, <1>6, <1>7, StartPassInv, DeleteInv, ReclusterInv,
             EndRideInv, FailInv, StutterInv DEF Next

LEMMA Always == Spec => []Inv
  BY InitInv, NextInv, PTL DEF Spec

-----------------------------------------------------------------------------
(* The type invariant of the script and the pipeline. *)
THEOREM TypeCorrect == Spec => []TypeOK
  BY Always, PTL DEF Inv

(* The potholes of a ride are never of two clusterings at once, whatever    *)
(* call of reprocess_ride or of the pipeline fails, whenever the script is  *)
(* killed and however often the ride was processed before the script took   *)
(* it: unless process_by_id comes to a ride that the script is at, or has   *)
(* corrected.                                                               *)
THEOREM OneClusteringAlways == Spec => []OneClustering
  <1>1. Inv => OneClustering
    <2> SUFFICES ASSUME Inv, NEW r \in Rides, r \notin redone
                 PROVE  At(Own(r)) \subseteq At(Old(r)) \/ At(Own(r)) \subseteq At(New(r))
      BY DEF OneClustering
    <2>1. OldAt(r) \/ NewAt(r)
      BY DEF Inv, RowsInv
    <2> QED BY <2>1 DEF OldAt, NewAt, At, Own
  <1> QED BY <1>1, Always, PTL

(* A ride with corrected detections shows exactly its corrected potholes,   *)
(* unless it was given up after its last update or processed again.         *)
THEOREM CorrectedIsShownAlways == Spec => []CorrectedIsShown
  <1>1. Inv => CorrectedIsShown
    <2> SUFFICES ASSUME Inv, NEW r \in Rides, r \notin broken, r \notin redone,
                        status[r] = "completed", pass.ride # r, Wrong(r) = {},
                        \E d \in Present(r) : Placed[d] # Corrected[d]
                 PROVE  /\ At(Own(r)) = At(New(r))
                        /\ \A c \in New(r) : \E w \in Own(r) : w.at = c.at /\ w.hits >= c.hits
      BY DEF CorrectedIsShown
    <2>1. NewAt(r) /\ \A c \in New(r) : Shown(r, c)
      BY DEF Inv, ShownInv, Right, Moved, Wrong
    <2> QED BY <2>1 DEF NewAt, Shown, At, Own
  <1> QED BY <1>1, Always, PTL
-----------------------------------------------------------------------------
(* What DBSCAN makes of detections on the line. *)

(* Two cores that one detection is near to belong together, for the         *)
(* detection has three neighbours and is a core between them.               *)
LEMMA NearLinked ==
  ASSUME NEW S, IsFiniteSet(S), NEW f \in [S -> Int], Radius \in Nat,
         MinDetections \in Nat, MinDetections <= 3,
         NEW d \in S, NEW e \in Cores(S, f), NEW g \in Cores(S, f),
         Apart(f[d], f[e]) <= Radius, Apart(f[d], f[g]) <= Radius, f[e] <= f[g]
  PROVE  Linked(S, f, e, g) /\ Linked(S, f, g, e)
  <1>1. \A c \in Cores(S, f) : c \in S /\ f[c] \in Int
    BY DEF Cores
  <1>2. Linked(S, f, g, e)
    BY <1>1 DEF Linked
  <1>3. ASSUME NEW c \in Cores(S, f), f[e] <= f[c], f[c] < f[g]
        PROVE  \E b \in Cores(S, f) : f[c] < f[b] /\ f[b] <= f[c] + Radius
    <2>1. CASE f[g] <= f[c] + Radius
      BY <1>3, <2>1
    <2>2. CASE ~(f[g] <= f[c] + Radius)
      <3>1. /\ f[c] \in Int /\ f[e] \in Int /\ f[g] \in Int /\ f[d] \in Int
            /\ f[g] - f[d] <= Radius /\ f[d] - f[e] <= Radius
        BY <1>1 DEF Apart
      <3>2. f[c] < f[d] /\ f[d] <= f[c] + Radius
        BY <1>3, <2>2, <3>1
      <3>3. d # e /\ d # g /\ e # g
        BY <1>3, <2>2, <3>1, <3>2
      <3> DEFINE N == {b \in S : Apart(f[d], f[b]) <= Radius}
      <3>4. IsFiniteSet(N) /\ Cardinality(N) \in Nat
        BY FS_Subset, FS_CardinalityType
      <3>5. {d, e, g} \subseteq N
        <4>1. Apart(f[d], f[d]) <= Radius
          BY <3>1 DEF Apart
        <4> QED BY <1>1, <4>1
      <3> HIDE DEF N
      <3>6. Cardinality({d, e, g}) = 3
        <4> DEFINE One == {d}
        <4> DEFINE Two == One \cup {e}
        <4>1. IsFiniteSet(One) /\ Cardinality(One) = 1 /\ e \notin One
          BY <3>3, FS_Singleton
        <4> HIDE DEF One
        <4>2. IsFiniteSet(Two) /\ Cardinality(Two) = 2
          BY <4>1, FS_AddElement
        <4>3. g \notin Two
          BY <3>3 DEF One
        <4> HIDE DEF Two
        <4> DEFINE Three == Two \cup {g}
        <4>4. Cardinality(Three) = Cardinality(Two) + 1
          BY <4>2, <4>3, FS_AddElement
        <4>5. Three = {d, e, g}
          BY DEF One, Two
        <4> HIDE DEF Three
        <4> QED BY <4>2, <4>4, <4>5
      <3>7. Cardinality(N) >= MinDetections
        <4>1. 3 <= Cardinality(N)
          BY <3>4, <3>5, <3>6, FS_Subset
        <4> QED BY <3>4, <4>1
      <3>8. d \in Cores(S, f)
        BY <3>7 DEF Cores, N
      <3> QED BY <3>2, <3>8
    <2> QED BY <2>1, <2>2
  <1> QED BY <1>2, <1>3 DEF Linked

LEMMA LinkedTransitive ==
  ASSUME NEW S, NEW f \in [S -> Int], NEW a \in S, NEW b \in S, NEW c \in S,
         Linked(S, f, a, b), Linked(S, f, b, c)
  PROVE  Linked(S, f, a, c)
  <1> SUFFICES ASSUME NEW x \in Cores(S, f), f[a] <= f[x], f[x] < f[c]
               PROVE  \E g \in Cores(S, f) : f[x] < f[g] /\ f[g] <= f[x] + Radius
    BY DEF Linked
  <1>1. f[x] \in Int /\ f[b] \in Int
    BY DEF Cores
  <1>2. CASE f[x] < f[b]
    BY <1>2 DEF Linked
  <1>3. CASE f[b] <= f[x]
    BY <1>3 DEF Linked
  <1> QED BY <1>1, <1>2, <1>3

(* DBSCAN with the program's threshold of three detections (settings.py):   *)
(* no detection counts for two potholes, so that the order in which they    *)
(* are read does not matter, and every pothole has at least as many hits as *)
(* the threshold asks for.                                                  *)
THEOREM ClustersSound ==
  ASSUME NEW S, IsFiniteSet(S), NEW f \in [S -> Int], Radius \in Nat,
         MinDetections \in Nat, MinDetections <= 3
  PROVE  /\ \A G, H \in Groups(S, f) : G = H \/ G \cap H = {}
         /\ \A c \in Clusters(S, f) : c.hits >= MinDetections
  <1> DEFINE Together(a, b) == Linked(S, f, a, b) /\ Linked(S, f, b, a)
  <1> DEFINE Near(d, e) == Apart(f[d], f[e]) <= Radius
  <1> DEFINE Group(c) == {d \in S : \E e \in Cores(S, f) : /\ Near(d, e)
                                                        /\ Linked(S, f, c, e) /\ Linked(S, f, e, c)}
  <1>1. Cores(S, f) \subseteq S /\ \A d \in S : f[d] \in Int
    BY DEF Cores
  <1>2. \A G \in Groups(S, f) : \E c \in Cores(S, f) : G = Group(c)
    BY DEF Groups
  <1>3. ASSUME NEW d \in S, NEW e \in Cores(S, f), NEW g \in Cores(S, f), Near(d, e), Near(d, g)
        PROVE  Together(e, g)
    <2>1. f[e] <= f[g] \/ f[g] <= f[e]
      BY <1>1
    <2> QED BY <1>3, <2>1, NearLinked
  <1>4. ASSUME NEW a \in S, NEW b \in S, NEW c \in S, Together(a, b), Together(b, c)
        PROVE  Together(a, c)
    BY <1>4, LinkedTransitive
  <1> HIDE DEF Together
  <1>5. \A c : Group(c) = {d \in S : \E e \in Cores(S, f) : Near(d, e) /\ Together(c, e)}
    BY DEF Together
  <1>6. \A a, b : Together(a, b) => Together(b, a)
    BY DEF Together
  <1> HIDE DEF Group, Near
  <1>7. ASSUME NEW a \in Cores(S, f), NEW b \in Cores(S, f), NEW d, d \in Group(a), d \in Group(b)
        PROVE  Group(a) = Group(b)
    <2>1. PICK e \in Cores(S, f) : d \in S /\ Near(d, e) /\ Together(a, e)
      BY <1>5, <1>7
    <2>2. PICK g \in Cores(S, f) : Near(d, g) /\ Together(b, g)
      BY <1>5, <1>7
    <2>3. Together(a, b) /\ Together(b, a)
      BY <1>1, <1>3, <1>4, <1>6, <2>1, <2>2
    <2>4. \A x \in Cores(S, f) : Together(a, x) <=> Together(b, x)
      BY <1>1, <1>4, <2>3
    <2> QED BY <1>5, <2>4
  <1>8. \A G, H \in Groups(S, f) : G = H \/ G \cap H = {}
    BY <1>2, <1>7
  <1>9. ASSUME NEW c \in Cores(S, f)
        PROVE  Cardinality(Group(c)) >= MinDetections
    <2> DEFINE N == {e \in S : Apart(f[c], f[e]) <= Radius}
    <2>1. N \subseteq Group(c)
      <3> SUFFICES ASSUME NEW d \in S, Apart(f[c], f[d]) <= Radius
                   PROVE  d \in Group(c)
        OBVIOUS
      <3>1. Apart(f[d], f[c]) <= Radius
        BY <1>1 DEF Apart
      <3>2. \A b \in Cores(S, f) : ~(f[c] <= f[b] /\ f[b] < f[c])
        BY <1>1
      <3>3. Linked(S, f, c, c)
        BY <3>2 DEF Linked
      <3> QED BY <1>5, <3>1, <3>3 DEF Near, Together
    <2>2. Group(c) \subseteq S
      BY <1>5
    <2>3. /\ IsFiniteSet(N) /\ IsFiniteSet(Group(c))
          /\ Cardinality(N) \in Nat /\ Cardinality(Group(c)) \in Nat
      BY <2>2, FS_Subset, FS_CardinalityType
    <2>4. Cardinality(N) >= MinDetections
      BY DEF Cores
    <2> HIDE DEF N
    <2>5. Cardinality(N) <= Cardinality(Group(c))
      BY <2>1, <2>3, FS_Subset
    <2> QED BY <2>3, <2>4, <2>5
  <1>10. \A c \in Clusters(S, f) : c.hits >= MinDetections
    <2> SUFFICES ASSUME NEW c \in Clusters(S, f) PROVE c.hits >= MinDetections
      OBVIOUS
    <2>1. PICK G \in Groups(S, f) : c.hits = Cardinality(G)
      BY DEF Clusters
    <2> QED BY <1>2, <1>9, <2>1
  <1> QED BY <1>8, <1>10
-----------------------------------------------------------------------------
(* Where a detection is placed on the track. *)

(* Integer division rounds down. *)
LEMMA Floor ==
  ASSUME NEW m \in Int, NEW q \in Nat \ {0}
  PROVE  m \div q \in Int /\ q * (m \div q) <= m /\ m < q * (m \div q) + q
  OBVIOUS

LEMMA TimesMonotone ==
  ASSUME NEW a \in Int, NEW b \in Int, NEW q \in Nat, a <= b
  PROVE  q * a <= q * b
  OBVIOUS

LEMMA Times ==
  ASSUME NEW a \in Int, NEW b \in Int, NEW q \in Nat
  PROVE  q * a  \in Int /\ q * (a + b) = q * a + q * b
  OBVIOUS

(* A part of a distance, rounded down, is no more than the distance. *)
LEMMA Part ==
  ASSUME NEW k \in Nat, NEW q \in Nat \ {0}, k <= q, NEW d \in Int
  PROVE  /\ d >= 0 => 0 <= (k * d) \div q /\ (k * d) \div q <= d
         /\ d <= 0 => d <= (k * d) \div q /\ (k * d) \div q <= 0
         /\ (k * d) \div q \in Int
  <1> DEFINE m == k * d
  <1> DEFINE r == m \div q
  <1>1. m \in Int
    OBVIOUS
  <1>2. d >= 0 => 0 <= m /\ m <= q * d
    OBVIOUS
  <1>3. d <= 0 => m <= 0 /\ q * d <= m
    OBVIOUS
  <1> HIDE DEF m
  <1>4. r \in Int /\ q * r <= m /\ m < q * r + q
    BY <1>1, Floor
  <1> HIDE DEF r
  <1>5. q * r + q = q * (r + 1) /\ q * r \in Int /\ q * d \in Int
    BY <1>4
  <1>6. ASSUME d >= 0, r > d PROVE FALSE
    <2>1. r >= d + 1
      BY <1>4, <1>6
    <2>2. q * (d + 1) <= q * r
      BY <1>4, <2>1, TimesMonotone
    <2>3. q * (d + 1) = q * d + q
      OBVIOUS
    <2> QED BY <1>1, <1>2, <1>4, <1>5, <1>6, <2>2, <2>3
  <1>7. ASSUME d >= 0, r < 0 PROVE FALSE
    <2>1. r + 1 <= 0
      BY <1>4, <1>7
    <2>2. q * (r + 1) <= q * 0
      BY <1>4, <2>1, TimesMonotone
    <2> QED BY <1>1, <1>2, <1>4, <1>5, <1>7, <2>2
  <1>8. ASSUME d <= 0, r > 0 PROVE FALSE
    <2>1. q * 1 <= q * r
      BY <1>4, <1>8, TimesMonotone
    <2> QED BY <1>1, <1>3, <1>4, <1>5, <1>8, <2>1
  <1>9. ASSUME d <= 0, r < d PROVE FALSE
    <2>1. r + 1 <= d
      BY <1>4, <1>9
    <2>2. q * (r + 1) <= q * d
      BY <1>4, <2>1, TimesMonotone
    <2> QED BY <1>1, <1>3, <1>4, <1>5, <1>9, <2>2
  <1> QED BY <1>4, <1>6, <1>7, <1>8, <1>9 DEF m, r

Samples == [t : Int \cup {None}, x : Int]
Timed == [t : Int, x : Int]

(* The samples that sorting puts no later than sample i, and the n-th one. *)
NoLater(track, i) ==
  {j \in Stamped(track) : \/ track[j].t < track[i].t
                          \/ track[j].t = track[i].t /\ j <= i}
Nth(track, n) == CHOOSE i \in Stamped(track) : Cardinality(NoLater(track, i)) = n

LEMMA StampedTimes ==
  ASSUME None \notin Int, NEW track \in Seq(Samples)
  PROVE  /\ IsFiniteSet(Stamped(track)) /\ Cardinality(Stamped(track)) \in Nat
         /\ \A i \in Stamped(track) : i \in Int /\ track[i].t \in Int /\ track[i].x \in Int
  <1>1. Stamped(track) \subseteq 1 .. Len(track)
    BY DEF Stamped
  <1>2. IsFiniteSet(Stamped(track)) /\ Cardinality(Stamped(track)) \in Nat
    <2>1. Len(track) \in Int /\ 1 \in Int
      OBVIOUS
    <2>2. IsFiniteSet(1 .. Len(track))
      BY <2>1, FS_Interval
    <2>3. IsFiniteSet(Stamped(track))
      BY <1>1, <2>2, FS_Subset
    <2> QED BY <2>3, FS_CardinalityType
  <1>3. ASSUME NEW i \in Stamped(track)
        PROVE  i \in Int /\ track[i].t \in Int /\ track[i].x \in Int
    <2>1. i \in 1 .. Len(track) /\ track[i].t # None
      BY DEF Stamped
    <2>2. track[i] \in Samples
      BY <2>1
    <2> QED BY <2>1, <2>2 DEF Samples
  <1> QED BY <1>2, <1>3

(* Sorting is stable: each sample has a rank of its own, from 1 up. *)
LEMMA Ranks ==
  ASSUME None \notin Int, NEW track \in Seq(Samples)
  PROVE  /\ \A i \in Stamped(track) :
              Cardinality(NoLater(track, i)) \in 1 .. Cardinality(Stamped(track))
         /\ \A i, j \in Stamped(track) :
              Cardinality(NoLater(track, i)) <= Cardinality(NoLater(track, j))
              => i \in NoLater(track, j)
         /\ \A n \in 1 .. Cardinality(Stamped(track)) :
              \E i \in Stamped(track) : Cardinality(NoLater(track, i)) = n
  <1> DEFINE D == Stamped(track)
  <1> DEFINE N == Cardinality(D)
  <1> DEFINE U(i) == NoLater(track, i)
  <1>1. /\ IsFiniteSet(D) /\ N \in Nat
        /\ \A i \in D : i \in Int /\ track[i].t \in Int
    BY StampedTimes
  <1>2. \A i, j : j \in U(i) <=> /\ j \in D
                                 /\ \/ track[j].t < track[i].t
                                    \/ track[j].t = track[i].t /\ j <= i
    BY DEF NoLater
  <1>3. \A i : U(i) \subseteq D
    BY <1>2
  <1> HIDE DEF D, U
  <1>4. \A i \in D : IsFiniteSet(U(i)) /\ Cardinality(U(i)) \in Nat /\ Cardinality(U(i)) <= N
    BY <1>1, <1>3, FS_Subset, FS_CardinalityType
  <1>5. ASSUME NEW i \in D PROVE i \in U(i) /\ Cardinality(U(i)) >= 1
    <2>1. i \in U(i)
      BY <1>1, <1>2
    <2>2. Cardinality(U(i)) # 0
      BY <1>4, <2>1, FS_EmptySet
    <2> QED BY <1>4, <2>1, <2>2
  <1>6. ASSUME NEW i \in D, NEW j \in D, Cardinality(U(i)) <= Cardinality(U(j))
        PROVE  i \in U(j)
    <2> SUFFICES ASSUME i \notin U(j) PROVE FALSE
      OBVIOUS
    <2>1. U(j) \subseteq U(i)
      <3> SUFFICES ASSUME NEW k \in U(j) PROVE k \in U(i)
        OBVIOUS
      <3> QED BY <1>1, <1>2
    <2>2. Cardinality(U(j)) <= Cardinality(U(i)) /\ (Cardinality(U(j)) = Cardinality(U(i)) => U(i) = U(j))
      BY <1>4, <2>1, FS_Subset
    <2> QED BY <1>4, <1>5, <1>6, <2>2
  <1>7. ASSUME NEW i \in D, NEW j \in D, Cardinality(U(i)) = Cardinality(U(j)) PROVE i = j
    <2>1. i \in U(j) /\ j \in U(i)
      BY <1>4, <1>6, <1>7
    <2> QED BY <1>1, <1>2, <2>1
  <1> DEFINE rank == [i \in D |-> Cardinality(U(i))]
  <1>8. rank \in [D -> 1 .. N] /\ \A i \in D : rank[i] = Cardinality(U(i))
    BY <1>1, <1>4, <1>5
  <1> HIDE DEF rank
  <1>9. rank \in Injection(D, 1 .. N)
    BY <1>7, <1>8 DEF Injection, IsInjective
  <1>10. IsFiniteSet(1 .. N) /\ Cardinality(1 .. N) = N
    BY <1>1, FS_Interval
  <1>11. rank \in Surjection(D, 1 .. N)
    BY <1>9, <1>10, FS_Injection
  <1>12. \A n \in 1 .. N : \E i \in D : Cardinality(U(i)) = n
    BY <1>8, <1>11 DEF Surjection
  <1> QED BY <1>1, <1>4, <1>5, <1>6, <1>12 DEF D, U

(* Sorted is a permutation of the samples with a time stamp, in the order   *)
(* of the time stamps.                                                      *)
LEMMA SortedIs ==
  ASSUME None \notin Int, NEW track \in Seq(Samples)
  PROVE  /\ Sorted(track) \in Seq(Timed)
         /\ Len(Sorted(track)) = Cardinality(Stamped(track))
         /\ \A n \in 1 .. Cardinality(Stamped(track)) :
              Nth(track, n) \in Stamped(track) /\ Sorted(track)[n] = track[Nth(track, n)]
         /\ \A i \in Stamped(track) :
              \E n \in 1 .. Cardinality(Stamped(track)) : i = Nth(track, n)
         /\ \A m, n \in 1 .. Cardinality(Stamped(track)) :
              m <= n => Sorted(track)[m].t <= Sorted(track)[n].t
  <1> DEFINE D == Stamped(track)
  <1> DEFINE N == Cardinality(D)
  <1> DEFINE rank(i) == Cardinality(NoLater(track, i))
  <1>1. Sorted(track) = [n \in 1 .. N |-> track[Nth(track, n)]]
    BY DEF Sorted, Nth, NoLater
  <1>2. ASSUME NEW n \in 1 .. N
        PROVE  Nth(track, n) \in D /\ rank(Nth(track, n)) = n
    <2>1. \E i \in D : rank(i) = n
      BY Ranks
    <2> QED BY <2>1 DEF Nth
  <1>3. \A i \in D : track[i].t \in Int /\ track[i].x \in Int /\ i \in Int
    BY StampedTimes
  <1>4. \A i \in D : track[i] \in Timed
    <2> TAKE i \in D
    <2>1. track[i] \in Samples
      BY DEF Stamped
    <2>2. track[i].t \in Int /\ track[i].x \in Int
      BY <1>3
    <2> HIDE DEF D
    <2> QED BY <2>1, <2>2 DEF Samples, Timed
  <1>5. N \in Nat
    BY StampedTimes
  <1>6. Sorted(track) \in Seq(Timed) /\ Len(Sorted(track)) = N
    <2>1. \A n \in 1 .. N : track[Nth(track, n)] \in Timed
      BY <1>2, <1>4
    <2> HIDE DEF D, N
    <2> QED BY <1>1, <1>5, <2>1
  <1>7. ASSUME NEW i \in D PROVE \E n \in 1 .. N : i = Nth(track, n)
    <2>1. rank(i) \in 1 .. N
      BY Ranks
    <2>2. Nth(track, rank(i)) \in D /\ rank(Nth(track, rank(i))) = rank(i)
      BY <1>2, <2>1
    <2>3. i \in NoLater(track, Nth(track, rank(i))) /\ Nth(track, rank(i)) \in NoLater(track, i)
      BY <2>1, <2>2, Ranks
    <2> DEFINE j == Nth(track, rank(i))
    <2>4. /\ j \in D /\ i \in Int /\ j \in Int /\ track[i].t \in Int /\ track[j].t \in Int
          /\ i \in NoLater(track, j) /\ j \in NoLater(track, i)
      BY <1>3, <2>2, <2>3
    <2>5. rank(i) \in 1 .. N /\ j = Nth(track, rank(i))
      BY <2>1
    <2> HIDE DEF j
    <2>6. i = j
      BY <2>4 DEF NoLater
    <2> QED BY <2>5, <2>6
  <1>8. ASSUME NEW m \in 1 .. N, NEW n \in 1 .. N, m <= n
        PROVE  Sorted(track)[m].t <= Sorted(track)[n].t
    <2>1. Nth(track, m) \in D /\ Nth(track, n) \in D /\ rank(Nth(track, m)) <= rank(Nth(track, n))
      BY <1>2, <1>8
    <2>2. Nth(track, m) \in NoLater(track, Nth(track, n))
      BY <2>1, Ranks
    <2>3. track[Nth(track, m)].t <= track[Nth(track, n)].t
      BY <1>3, <2>1, <2>2 DEF NoLater
    <2> QED BY <1>1, <2>3
  <1>9. \A n \in 1 .. N : Sorted(track)[n] = track[Nth(track, n)]
    BY <1>1
  <1> HIDE DEF N
  <1> QED BY <1>2, <1>6, <1>7, <1>8, <1>9 DEF N

(* bisect_left on a sorted track: the samples up to it, and no others, are  *)
(* earlier than the time.                                                   *)
LEMMA EarlierIs ==
  ASSUME NEW s \in Seq(Timed), NEW time \in Int,
         \A m, n \in 1 .. Len(s) : m <= n => s[m].t <= s[n].t
  PROVE  /\ Earlier(s, time) \in 0 .. Len(s)
         /\ \A n \in 1 .. Len(s) : s[n].t < time <=> n <= Earlier(s, time)
  <1> DEFINE N == Len(s)
  <1> DEFINE B == {n \in 1 .. N : s[n].t < time}
  <1> DEFINE pos == Cardinality(B)
  <1>0. DOMAIN s = 1 .. N /\ N \in Nat
    OBVIOUS
  <1>1. pos = Earlier(s, time)
    BY <1>0 DEF Earlier
  <1>2. N \in Nat /\ IsFiniteSet(1 .. N) /\ Cardinality(1 .. N) = N
    <2> HIDE DEF N
    <2>1. N \in Int /\ 1 \in Int
      BY <1>0
    <2> QED BY <1>0, <2>1, FS_Interval
  <1>3. IsFiniteSet(B) /\ pos \in Nat /\ pos <= N
    BY <1>2, FS_Subset, FS_CardinalityType
  <1>4. \A n \in 1 .. N : s[n].t \in Int
    <2> TAKE n \in 1 .. N
    <2>1. s[n] \in Timed
      BY <1>0
    <2> QED BY <2>1 DEF Timed
  <1>5. ASSUME NEW n \in 1 .. N, s[n].t < time PROVE n <= pos
    <2>1. 1 .. n \subseteq B
      BY <1>2, <1>4, <1>5
    <2>2. Cardinality(1 .. n) = n
      <3>1. n \in Int /\ n >= 1 /\ 1 \in Int
        BY <1>0
      <3> QED BY <3>1, FS_Interval
    <2> HIDE DEF B
    <2> QED BY <1>3, <2>1, <2>2, FS_Subset
  <1>6. ASSUME NEW n \in 1 .. N, ~(s[n].t < time) PROVE ~(n <= pos)
    <2>1. B \subseteq 1 .. (n - 1)
      BY <1>2, <1>4, <1>6
    <2>2. IsFiniteSet(1 .. (n - 1)) /\ Cardinality(1 .. (n - 1)) = n - 1
      BY FS_Interval
    <2> DEFINE I == 1 .. (n - 1)
    <2>3. IsFiniteSet(I) /\ B \subseteq I /\ Cardinality(I) = n - 1
      BY <2>1, <2>2
    <2> HIDE DEF B, I
    <2>4. pos <= Cardinality(I)
      BY <2>3, FS_Subset
    <2> QED BY <1>3, <2>3, <2>4
  <1> HIDE DEF B
  <1> QED BY <1>1, <1>2, <1>3, <1>5, <1>6

Between(v, a, b) == (a <= v /\ v <= b) \/ (b <= v /\ v <= a)

(* However disordered, sparse or full of equal time stamps the track is,    *)
(* interpolate_sample answers a place between those of two samples: the     *)
(* latest before the time and the earliest at or after it, or, outside of   *)
(* the track, its first or its last sample alone.  The quotient it takes is *)
(* never by zero: of two samples with one time stamp bisect_left never      *)
(* stops at the second.                                                     *)
THEOREM InterpolatedBetween ==
  ASSUME None \notin Int, NEW track \in Seq(Samples), NEW time \in Int,
         Stamped(track) # {}
  PROVE  \E a, b \in Stamped(track) :
           /\ Between(Interpolate(track, time), track[a].x, track[b].x)
           /\ \A i \in Stamped(track) :
                \/ track[i].t < time /\ track[i].t <= track[a].t
                \/ time <= track[i].t /\ track[b].t <= track[i].t
           /\ \/ track[a].t < time /\ time <= track[b].t
              \/ a = b
  <1> DEFINE s == Sorted(track)
  <1> DEFINE N == Cardinality(Stamped(track))
  <1> DEFINE pos == Earlier(s, time)
  <1>1. /\ s \in Seq(Timed) /\ Len(s) = N
        /\ \A n \in 1 .. N : Nth(track, n) \in Stamped(track) /\ s[n] = track[Nth(track, n)]
        /\ \A i \in Stamped(track) : \E n \in 1 .. N : i = Nth(track, n)
        /\ \A m, n \in 1 .. N : m <= n => s[m].t <= s[n].t
    BY SortedIs
  <1>2. N \in Nat /\ N # 0
    BY StampedTimes, FS_EmptySet
  <1>3. /\ Interpolate(track, time) =
             IF s = <<>> THEN None
             ELSE IF pos = 0 THEN s[1].x
             ELSE IF pos = Len(s) THEN s[pos].x
             ELSE s[pos].x +
                  ((time - s[pos].t) * (s[pos + 1].x - s[pos].x)) \div (s[pos + 1].t - s[pos].t)
    BY DEF Interpolate
  <1> HIDE DEF s, N
  <1>4. pos \in 0 .. N /\ \A n \in 1 .. N : s[n].t < time <=> n <= pos
    BY <1>1, EarlierIs
  <1> HIDE DEF pos
  <1>5. s # <<>>
    BY <1>1, <1>2
  <1>6. \A n \in 1 .. N : s[n].t \in Int /\ s[n].x \in Int
    <2> TAKE n \in 1 .. N
    <2>1. s[n] \in Timed
      BY <1>1, <1>2
    <2> QED BY <2>1 DEF Timed
  <1> DEFINE Ends(m, n) ==
        /\ Between(Interpolate(track, time), s[m].x, s[n].x)
        /\ \A k \in 1 .. N : \/ s[k].t < time /\ s[k].t <= s[m].t
                             \/ time <= s[k].t /\ s[n].t <= s[k].t
        /\ \/ s[m].t < time /\ time <= s[n].t
           \/ m = n
  <1>7. \E m, n \in 1 .. N : Ends(m, n)
    <2>1. CASE pos = 0
      <3>1. Interpolate(track, time) = s[1].x
        BY <1>3, <1>5, <2>1
      <3>2. Ends(1, 1)
        BY <1>1, <1>2, <1>4, <1>6, <2>1, <3>1 DEF Between
      <3> QED BY <1>2, <3>2
    <2>2. CASE pos = N /\ pos # 0
      <3>1. Interpolate(track, time) = s[N].x
        BY <1>1, <1>3, <1>5, <2>2
      <3>2. Ends(N, N)
        BY <1>1, <1>2, <1>4, <1>6, <2>2, <3>1 DEF Between
      <3> QED BY <1>2, <3>2
    <2>3. CASE pos # N /\ pos # 0
      <3>1. pos \in 1 .. N /\ pos + 1 \in 1 .. N /\ pos < pos + 1
        BY <1>2, <1>4, <2>3
      <3> DEFINE k == time - s[pos].t
      <3> DEFINE d == s[pos + 1].x - s[pos].x
      <3> DEFINE q == s[pos + 1].t - s[pos].t
      <3>2. s[pos].t < time /\ time <= s[pos + 1].t
        BY <1>4, <1>6, <3>1
      <3>3. k \in Nat /\ q \in Nat \ {0} /\ k <= q /\ d \in Int
        <4>1. s[pos].t \in Int /\ s[pos + 1].t \in Int /\ s[pos].x \in Int /\ s[pos + 1].x \in Int
          BY <1>6, <3>1
        <4>2. \A a, b \in Int : a < time /\ time <= b =>
                /\ time - a \in Nat /\ time - a <= b - a /\ b - a \in Nat \ {0}
          OBVIOUS
        <4>3. k \in Nat /\ k <= q /\ q \in Nat \ {0}
          BY <3>2, <4>1, <4>2
        <4> QED BY <4>1, <4>3
      <3>4. Interpolate(track, time) = s[pos].x + (k * d) \div q
        BY <1>1, <1>3, <1>5, <2>3
      <3>5. s[pos + 1].x = s[pos].x + d
        BY <1>6, <3>1
      <3>6. /\ d >= 0 => 0 <= (k * d) \div q /\ (k * d) \div q <= d
            /\ d <= 0 => d <= (k * d) \div q /\ (k * d) \div q <= 0
            /\ (k * d) \div q \in Int
        <4> HIDE DEF k, d, q
        <4> QED BY <3>3, Part
      <3> DEFINE p == (k * d) \div q
      <3> HIDE DEF p, k, q
      <3>7. Between(Interpolate(track, time), s[pos].x, s[pos + 1].x)
        <4> HIDE DEF d
        <4> QED BY <1>6, <3>1, <3>3, <3>4, <3>5, <3>6 DEF Between, p
      <3>8. Ends(pos, pos + 1)
        <4>1. \A j \in 1 .. N : s[j].t < time => s[j].t <= s[pos].t
          BY <1>1, <1>4, <3>1
        <4>2. \A j \in 1 .. N : ~(s[j].t < time) => time <= s[j].t /\ s[pos + 1].t <= s[j].t
          BY <1>1, <1>4, <1>6, <3>1
        <4> QED BY <3>1, <3>2, <3>7, <4>1, <4>2
      <3> QED BY <3>1, <3>8
    <2> QED BY <2>1, <2>2, <2>3
  <1>8. PICK m \in 1 .. N, n \in 1 .. N : Ends(m, n)
    BY <1>7
  <1>9. /\ Nth(track, m) \in Stamped(track) /\ s[m] = track[Nth(track, m)]
        /\ Nth(track, n) \in Stamped(track) /\ s[n] = track[Nth(track, n)]
    BY <1>1
  <1>10. \A i \in Stamped(track) : \E k \in 1 .. N : track[i] = s[k]
    BY <1>1
  <1>11. m = n => Nth(track, m) = Nth(track, n)
    OBVIOUS
  <1> QED BY <1>8, <1>9, <1>10, <1>11

LEMMA Nearer ==
  ASSUME NEW a \in Int, NEW b \in Int, NEW time \in Int
  PROVE  /\ \A c \in Int : /\ a <= b /\ b < time /\ time <= c
                          /\ ~(time - b <= c - time)
                          => Apart(c, time) <= Apart(a, time)
         /\ \A c \in Int : /\ c < time /\ time <= b /\ b <= a
                          /\ time - c <= b - time
                          => Apart(c, time) <= Apart(a, time)
  BY DEF Apart

(* _closest_index, which chooses the heading: no sample is closer in time. *)
THEOREM ClosestIsNearest ==
  ASSUME None \notin Int, NEW track \in Seq(Samples), NEW time \in Int,
         Stamped(track) # {}
  PROVE  LET s == Sorted(track)
             c == Closest(s, time)
         IN  /\ c \in 1 .. Len(s)
             /\ \A n \in 1 .. Len(s) : Apart(s[c].t, time) <= Apart(s[n].t, time)
  <1> DEFINE s == Sorted(track)
  <1> DEFINE N == Len(s)
  <1> DEFINE pos == Earlier(s, time)
  <1> DEFINE c == Closest(s, time)
  <1>1. /\ s \in Seq(Timed) /\ N = Cardinality(Stamped(track))
        /\ \A m, n \in 1 .. N : m <= n => s[m].t <= s[n].t
    BY SortedIs
  <1>2. N \in Nat /\ N # 0
    BY <1>1, StampedTimes, FS_EmptySet
  <1>3. c = IF pos = 0 THEN 1
            ELSE IF pos = N \/ time - s[pos].t <= s[pos + 1].t - time THEN pos
            ELSE pos + 1
    BY DEF Closest
  <1> HIDE DEF s, N, c
  <1>4. pos \in 0 .. N /\ \A n \in 1 .. N : s[n].t < time <=> n <= pos
    BY <1>1, EarlierIs DEF N
  <1> HIDE DEF pos
  <1>5. \A n \in 1 .. N : s[n].t \in Int
    <2> TAKE n \in 1 .. N
    <2>1. s[n] \in Timed
      BY <1>1, <1>2 DEF N
    <2> QED BY <2>1 DEF Timed
  <1>6. c \in 1 .. N
    BY <1>2, <1>3, <1>4
  <1>7. ASSUME NEW n \in 1 .. N PROVE Apart(s[c].t, time) <= Apart(s[n].t, time)
    <2>1. CASE n <= pos
      <3>1. pos \in 1 .. N /\ s[n].t <= s[pos].t /\ s[pos].t < time
        BY <1>1, <1>4, <2>1
      <3>2. CASE c = pos
        BY <1>5, <3>1, <3>2 DEF Apart
      <3>3. CASE c # pos
        <4>1. c = pos + 1 /\ c \in 1 .. N /\ ~(time - s[pos].t <= s[c].t - time) /\ time <= s[c].t
          BY <1>2, <1>3, <1>4, <1>5, <1>6, <3>1, <3>3
        <4>2. s[n].t \in Int /\ s[pos].t \in Int /\ s[c].t \in Int
          BY <1>5, <3>1, <4>1
        <4> QED BY <3>1, <4>1, <4>2, Nearer
      <3> QED BY <3>2, <3>3
    <2>2. CASE ~(n <= pos)
      <3>1. pos + 1 \in 1 .. N /\ s[pos + 1].t <= s[n].t /\ time <= s[pos + 1].t
        <4>1. pos + 1 \in 1 .. N /\ pos + 1 <= n /\ ~(pos + 1 <= pos)
          BY <1>2, <1>4, <2>2
        <4>2. s[pos + 1].t <= s[n].t /\ s[pos + 1].t \in Int
          BY <1>1, <1>5, <4>1
        <4> QED BY <1>4, <4>1, <4>2
      <3>2. CASE c = pos + 1
        BY <1>5, <3>1, <3>2 DEF Apart
      <3>3. CASE c # pos + 1
        <4>1. c = pos /\ pos \in 1 .. N /\ s[pos].t < time /\ time - s[pos].t <= s[pos + 1].t - time
          BY <1>2, <1>3, <1>4, <3>1, <3>3
        <4>2. s[n].t \in Int /\ s[pos].t \in Int /\ s[pos + 1].t \in Int
          BY <1>5, <3>1, <4>1
        <4> QED BY <3>1, <4>1, <4>2, Nearer
      <3> QED BY <3>2, <3>3
    <2> QED BY <2>1, <2>2
  <1> QED BY <1>6, <1>7 DEF s, N, c
=============================================================================
