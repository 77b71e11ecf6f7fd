---------------------------- MODULE UploadsProofs ----------------------------
(***************************************************************************)
(* The safety of Uploads, for every number of requests, uploads, ride ids, *)
(* attempts and missing columns.                                           *)
(***************************************************************************)
EXTENDS Uploads, TLAPS

(* What a request does it does in the steps of its operation.               *)
Phases == \A q \in Requests :
  /\ at[q] = "idle" => call[q].op = "none"
  /\ at[q] \in {"check video", "check gps", "size", "insert", "too large"}
       => call[q].op = "complete"
  /\ at[q] \in {"delete video", "delete gps"} => call[q].op \in {"complete", "abort"}
  /\ at[q] \in {"store", "post"} => call[q].op = "photo"
  /\ call[q].op \in {"complete", "abort"} => Up(q) \in Uploads
  /\ call[q].op = "complete" => call[q].id \in Ids

(* Each ride is of the request that made it; the request has said so, or    *)
(* could not know.                                                          *)
RideInv ==
  /\ \A id \in Ids : rides[id] # None =>
       /\ call[rides[id].by].op = "complete"
       /\ Up(rides[id].by) = rides[id].up
  /\ \A q \in Requests :
       /\ Made(q) => at[q] = "ok" \/ q \in lost
       /\ call[q].op = "complete" /\ at[q] = "ok" => Made(q)

PhotoInv ==
  /\ PhotoAnswers
  /\ \A q \in Requests : at[q] = "post" => photo[q].stored

(* What the steps of /upload/complete have established and not lost, on an  *)
(* upload that is not touched.  (A concurrent request that finds the video  *)
(* too large may have deleted it.)                                          *)
Checked(q) ==
  LET v == video[Up(q)]
      g == gps[Up(q)] IN
  /\ at[q] = "check gps" => v # "bad"
  /\ at[q] = "size" => v # "bad" /\ (v = "good" => g = "good")
  /\ at[q] = "insert" => v = "good" /\ g = "good"
  /\ at[q] \in {"delete video", "delete gps"} => v # "good"

SoundInv ==
  /\ RidesSound
  /\ \A q \in Requests : call[q].op = "complete" /\ Up(q) \notin touched => Checked(q)
  /\ \A p, q \in Requests :
       call[p].op = "abort" /\ at[p] \notin Answers /\ call[q].op = "complete"
         /\ Up(p) = Up(q) => Up(p) \in touched

Inv == TypeOK /\ Phases /\ RideInv /\ PhotoInv /\ SoundInv

-----------------------------------------------------------------------------
LEMMA InitInv == Init => Inv
  <1> SUFFICES ASSUME Init PROVE Inv
    OBVIOUS
  <1> USE UploadsAssumption, NoneAssumption DEF Init
  <1>1. TypeOK
    <2>1. [op |-> "none", up |-> None, id |-> None] \in Calls
      BY DEF Calls
    <2>2. NoPhoto \in Photos
      BY DEF Photos, NoPhoto
    <2>3. "idle" \in Steps /\ None \in Contents
      BY DEF Steps, Contents
    <2> QED BY <2>1, <2>2, <2>3 DEF TypeOK
  <1>2. Phases
    BY DEF Phases
  <1>3. RideInv
    BY DEF RideInv, Made
  <1>4. PhotoInv
    BY DEF PhotoInv, PhotoAnswers
  <1>5. SoundInv
    BY DEF SoundInv, RidesSound, Checked
  <1> QED BY <1>1, <1>2, <1>3, <1>4, <1>5 DEF Inv

(* What the two forms of an attempt do to the request that makes it.        *)
LEMMA AgainType ==
  ASSUME TypeOK, NEW q \in Requests, Again(q)
  PROVE  /\ try' \in [Requests -> 1 .. Attempts]
         /\ at' = at \/ at' = [at EXCEPT ![q] = "error"]
  <1>1. CASE try[q] < Attempts
    BY <1>1, UploadsAssumption DEF TypeOK, Again
  <1>2. CASE ~(try[q] < Attempts)
    BY <1>2 DEF TypeOK, Again, Goto
  <1> QED BY <1>1, <1>2

LEMMA ExecutedType ==
  ASSUME TypeOK, NEW q \in Requests, NEW next, Executed(q, next)
  PROVE  /\ try' \in [Requests -> 1 .. Attempts]
         /\ \/ at' = [at EXCEPT ![q] = next] /\ lost' = lost
            \/ /\ at' = at \/ at' = [at EXCEPT ![q] = "error"]
               /\ lost' = lost \cup {q}
  <1>1. CASE Again(q) /\ lost' = lost \cup {q}
    BY <1>1, AgainType
  <1>2. CASE Goto(q, next) /\ try' = [try EXCEPT ![q] = 1] /\ UNCHANGED lost
    BY <1>2, UploadsAssumption DEF TypeOK, Goto
  <1> QED BY <1>1, <1>2 DEF Executed

LEMMA StepsAre ==
  /\ {"check video", "check gps", "size", "insert", "delete video", "delete gps",
      "store", "post", "ok", "error", "too large"} \subseteq Steps
  /\ {"good", "bad", "large", None} = Contents
  BY DEF Steps, Answers, Contents

LEMMA PhotoType ==
  ASSUME TypeOK, NEW q \in Requests, NEW stored \in BOOLEAN, NEW rows \in Nat,
         NEW lacking \in 0 .. MaxLacking, NEW left \in 0 .. Inserts,
         SetPhoto(q, stored, rows, lacking, left)
  PROVE  photo' \in [Requests -> Photos]
  <1>1. [stored |-> stored, rows |-> rows, lacking |-> lacking, left |-> left] \in Photos
    BY DEF Photos
  <1>2. photo \in [Requests -> Photos]
    BY DEF TypeOK
  <1> QED BY <1>1, <1>2 DEF SetPhoto

LEMMA CallType ==
  ASSUME TypeOK, NEW q \in Requests, NEW op \in {"complete", "abort", "photo"},
         NEW u \in Uploads \cup {None}, NEW id \in Ids \cup {None}, NEW first \in Steps,
         Begin(q, op, u, id, first)
  PROVE  call' \in [Requests -> Calls] /\ at' \in [Requests -> Steps]
  <1>1. [op |-> op, up |-> u, id |-> id] \in Calls
    BY DEF Calls
  <1> QED BY <1>1 DEF TypeOK, Begin, Goto

LEMMA TypeStep == TypeOK /\ Phases /\ [Next]_vars => TypeOK'
  <1> SUFFICES ASSUME TypeOK, Phases, [Next]_vars PROVE TypeOK'
    OBVIOUS
  <1> USE UploadsAssumption
  <1>1. ASSUME NEW u \in Uploads, InitUpload(u) \/ Expire(u) PROVE TypeOK'
    BY <1>1 DEF TypeOK, InitUpload, Expire, histories
  <1>2. ASSUME NEW u \in Uploads, Put(u) PROVE TypeOK'
    BY <1>2, StepsAre DEF TypeOK, Put
  <1>3. ASSUME NEW q \in Requests, NEW u \in Uploads, NEW id \in Ids, Complete(q, u, id)
        PROVE  TypeOK'
    <2>1. call' \in [Requests -> Calls] /\ at' \in [Requests -> Steps]
      BY <1>3, CallType, StepsAre DEF Complete
    <2> QED BY <1>3, <2>1 DEF TypeOK, Complete, blobs
  <1>4. ASSUME NEW q \in Requests, NEW u \in Uploads, Abort(q, u) PROVE TypeOK'
    <2>1. call' \in [Requests -> Calls] /\ at' \in [Requests -> Steps]
      BY <1>4, CallType, StepsAre DEF Abort
    <2> QED BY <1>4, <2>1 DEF TypeOK, Abort, blobs
  <1>5. ASSUME NEW q \in Requests, NEW n \in 0 .. MaxLacking, Photo(q, n) PROVE TypeOK'
    <2>1. call' \in [Requests -> Calls] /\ at' \in [Requests -> Steps]
      BY <1>5, CallType, StepsAre DEF Photo
    <2>2. photo' \in [Requests -> Photos]
      <3>1. FALSE \in BOOLEAN /\ 0 \in Nat /\ Inserts \in 0 .. Inserts
        OBVIOUS
      <3> QED BY <1>5, <3>1, PhotoType DEF Photo
    <2> QED BY <1>5, <2>1, <2>2 DEF TypeOK, Photo, blobs, histories
  <1>6. ASSUME NEW q \in Requests, CheckVideo(q) \/ CheckGps(q) \/ CheckSize(q)
        PROVE  TypeOK'
    <2>1. /\ \E next \in Steps : at' = [at EXCEPT ![q] = next]
          /\ UNCHANGED <<blobs, rides, call, try, photo, histories>>
      BY <1>6, StepsAre DEF CheckVideo, CheckGps, CheckSize, Validate, Goto
    <2>2. at' \in [Requests -> Steps]
      BY <2>1 DEF TypeOK
    <2> QED BY <2>1, <2>2 DEF TypeOK, blobs, histories
  <1>7. ASSUME NEW q \in Requests, InsertRide(q) PROVE TypeOK'
    <2>1. /\ rides' = rides \/ rides' = [rides EXCEPT ![call[q].id] = Ride(q)]
          /\ at[q] = "insert" /\ try' \in [Requests -> 1 .. Attempts]
          /\ \/ at' = at
             \/ at' = [at EXCEPT ![q] = "error"] \/ at' = [at EXCEPT ![q] = "ok"]
          /\ lost' = lost \/ lost' = lost \cup {q}
          /\ UNCHANGED <<blobs, call, photo, removed, touched>>
      BY <1>7, AgainType, ExecutedType DEF InsertRide
    <2>2. Ride(q) \in RideRecords
      BY <2>1 DEF Phases, Ride, RideRecords
    <2>3. rides' \in [Ids -> RideRecords \cup {None}]
      BY <2>1, <2>2 DEF TypeOK
    <2>4. at' \in [Requests -> Steps]
      BY <2>1, StepsAre DEF TypeOK
    <2> QED BY <2>1, <2>3, <2>4 DEF TypeOK, blobs
  <1>8. ASSUME NEW q \in Requests, DeleteVideo(q) \/ DeleteGps(q) PROVE TypeOK'
    <2>1. /\ video' = video \/ video' = [video EXCEPT ![Up(q)] = None]
          /\ gps' = gps \/ gps' = [gps EXCEPT ![Up(q)] = None]
          /\ \/ at' = [at EXCEPT ![q] = "delete gps"] \/ at' = [at EXCEPT ![q] = "ok"]
             \/ at' = [at EXCEPT ![q] = "too large"]
          /\ UNCHANGED <<sas, rides, call, try, photo, histories>>
      BY <1>8 DEF DeleteVideo, DeleteGps, Goto
    <2>2. video' \in [Uploads -> Contents] /\ gps' \in [Uploads -> Contents]
      BY <2>1, StepsAre DEF TypeOK
    <2>3. {"delete gps", "ok", "too large"} \subseteq Steps
      BY StepsAre
    <2>4. at' \in [Requests -> Steps]
      BY <2>1, <2>3 DEF TypeOK
    <2> QED BY <2>1, <2>2, <2>4 DEF TypeOK, histories
  <1>9. ASSUME NEW q \in Requests, Store(q) \/ Post(q) PROVE TypeOK'
    <2>1. /\ at[q] \in {"store", "post"} /\ try' \in [Requests -> 1 .. Attempts]
          /\ \/ at' = at \/ at' = [at EXCEPT ![q] = "error"]
             \/ at' = [at EXCEPT ![q] = "ok"] \/ at' = [at EXCEPT ![q] = "post"]
          /\ lost' = lost \/ lost' = lost \cup {q}
          /\ UNCHANGED <<blobs, rides, call, removed, touched>>
      BY <1>9, AgainType, ExecutedType DEF Store, Post
    <2>2. photo[q] \in Photos
      BY DEF TypeOK
    <2>3. /\ photo[q].stored \in BOOLEAN /\ photo[q].rows \in Nat
          /\ photo[q].lacking \in 0 .. MaxLacking /\ photo[q].left \in 0 .. Inserts
      BY <2>2, Zenon DEF Photos
    <2>5. photo[q].rows + 1 \in Nat /\ 0 \in 0 .. MaxLacking
      BY <2>3
    <2>4. photo' \in [Requests -> Photos]
      BY <1>9, <2>3, <2>5, PhotoType DEF TypeOK, Store, Post
    <2>6. {"error", "ok", "post"} \subseteq Steps
      BY StepsAre
    <2>7. at' \in [Requests -> Steps]
      BY <2>1, <2>6 DEF TypeOK
    <2> QED BY <2>1, <2>4, <2>7 DEF TypeOK, blobs
  <1>10. ASSUME NEW q \in Requests, StripColumn(q) PROVE TypeOK'
    <2>1. photo[q] \in Photos /\ photo[q].lacking > 0 /\ photo[q].left > 0
      BY <1>10 DEF TypeOK, StripColumn
    <2>2. /\ photo[q].stored \in BOOLEAN /\ photo[q].rows \in Nat
          /\ photo[q].lacking \in 0 .. MaxLacking /\ photo[q].left \in 0 .. Inserts
      BY <2>1, Zenon DEF Photos
    <2>6. photo[q].lacking - 1 \in 0 .. MaxLacking /\ photo[q].left - 1 \in 0 .. Inserts
      BY <2>1, <2>2
    <2>3. photo' \in [Requests -> Photos]
      BY <1>10, <2>2, <2>6, PhotoType DEF StripColumn
    <2>4. at' = at \/ at' = [at EXCEPT ![q] = "error"]
      BY <1>10 DEF StripColumn, Goto
    <2>5. /\ try' \in [Requests -> 1 .. Attempts]
          /\ UNCHANGED <<blobs, rides, call, histories>>
      BY <1>10 DEF TypeOK, StripColumn
    <2>7. at' \in [Requests -> Steps]
      BY <2>4, StepsAre DEF TypeOK
    <2> QED BY <2>3, <2>5, <2>7 DEF TypeOK, blobs, histories
  <1>11. ASSUME NEW id \in Ids, Pipeline(id) \/ DeleteRide(id) PROVE TypeOK'
    <2>1. /\ UNCHANGED <<blobs, call, at, try, photo, lost, touched>>
          /\ removed' = removed \/ removed' = removed \cup {rides[id].by}
          /\ rides[id] # None
      BY <1>11 DEF Pipeline, ReadVideo, ReadGps, Advance, DeleteRide, histories
    <2>2. rides[id] \in RideRecords
      BY <2>1 DEF TypeOK
    <2>3. \A read \in {"queued", "video", "completed", "failed"} :
            [up |-> rides[id].up, by |-> rides[id].by, read |-> read] \in RideRecords
      BY <2>2 DEF RideRecords
    <2>4. \/ rides' = [rides EXCEPT ![id] = None]
          \/ \E read \in {"queued", "video", "completed", "failed"} :
               rides' = [rides EXCEPT ![id] =
                 [up |-> rides[id].up, by |-> rides[id].by, read |-> read]]
      BY <1>11 DEF Pipeline, ReadVideo, ReadGps, Advance, DeleteRide
    <2>5. rides[id].by \in Requests
      BY <2>2 DEF RideRecords
    <2> QED BY <2>1, <2>3, <2>4, <2>5 DEF TypeOK, blobs
  <1>12. CASE UNCHANGED vars
    BY <1>12 DEF TypeOK, vars, blobs, histories
  <1> QED BY <1>1, <1>2, <1>3, <1>4, <1>5, <1>6, <1>7, <1>8, <1>9, <1>10, <1>11, <1>12
       DEF Next, Serve

(* A step of the server for q moves q alone.                                *)
LEMMA ServeFrame ==
  ASSUME TypeOK, NEW q \in Requests, Serve(q)
  PROVE  /\ call' = call /\ touched' = touched /\ removed' = removed
         /\ \A p \in Requests : p # q => at'[p] = at[p]
         /\ lost' = lost \/ lost' = lost \cup {q}
  <1>1. CASE CheckVideo(q) \/ CheckGps(q) \/ CheckSize(q)
    BY <1>1 DEF TypeOK, CheckVideo, CheckGps, CheckSize, Validate, Goto, histories
  <1>2. CASE DeleteVideo(q) \/ DeleteGps(q) \/ StripColumn(q)
    BY <1>2 DEF TypeOK, DeleteVideo, DeleteGps, StripColumn, Goto, histories
  <1>3. CASE InsertRide(q) \/ Store(q) \/ Post(q)
    <2>1. call' = call /\ touched' = touched /\ removed' = removed
      BY <1>3 DEF InsertRide, Store, Post
    <2>2. CASE Again(q) /\ lost' = lost
      BY <2>1, <2>2, AgainType DEF TypeOK
    <2>3. CASE \E next : Executed(q, next)
      BY <2>1, <2>3, ExecutedType DEF TypeOK
    <2> QED BY <1>3, <2>2, <2>3 DEF InsertRide, Store, Post
  <1> QED BY <1>1, <1>2, <1>3 DEF Serve

(* Where it moves q to.                                                     *)
LEMMA ServeMoves ==
  ASSUME TypeOK, Phases, NEW q \in Requests, Serve(q)
  PROVE  \/ at'[q] = at[q] /\ at[q] # "idle"
         \/ at'[q] = "error"
         \/ at[q] = "check video" /\ at'[q] = "check gps"
         \/ at[q] = "check gps" /\ at'[q] = "size"
         \/ at[q] = "size" /\ at'[q] \in {"insert", "delete video"}
         \/ at[q] \in {"insert", "post"} /\ at'[q] = "ok"
         \/ at[q] = "delete video" /\ at'[q] = "delete gps"
         \/ at[q] = "delete gps" /\ call[q].op = "abort" /\ at'[q] = "ok"
         \/ at[q] = "delete gps" /\ call[q].op = "complete" /\ at'[q] = "too large"
         \/ at[q] = "store" /\ at'[q] = "post"
  <1>1. CASE CheckVideo(q) \/ CheckGps(q) \/ CheckSize(q)
    BY <1>1 DEF TypeOK, CheckVideo, CheckGps, CheckSize, Validate, Goto
  <1>2. CASE DeleteVideo(q) \/ DeleteGps(q) \/ StripColumn(q)
    BY <1>2 DEF TypeOK, Phases, DeleteVideo, DeleteGps, StripColumn, Goto
  <1>3. CASE InsertRide(q)
    BY <1>3, AgainType, ExecutedType DEF TypeOK, InsertRide
  <1>4. CASE Store(q)
    <2>1. CASE Executed(q, "post")
      BY <1>4, <2>1, ExecutedType DEF TypeOK, Store
    <2>2. CASE Again(q)
      BY <1>4, <2>2, AgainType DEF TypeOK, Store
    <2> QED BY <1>4, <2>1, <2>2 DEF Store
  <1>5. CASE Post(q)
    BY <1>5, AgainType, ExecutedType DEF TypeOK, Post
  <1> QED BY <1>1, <1>2, <1>3, <1>4, <1>5 DEF Serve

LEMMA PhaseStep == TypeOK /\ Phases /\ [Next]_vars => Phases'
  <1> SUFFICES ASSUME TypeOK, Phases, [Next]_vars PROVE Phases'
    OBVIOUS
  <1>1. ASSUME NEW q \in Requests, NEW u \in Uploads, NEW id \in Ids, Complete(q, u, id)
        PROVE  Phases'
    <2>1. /\ at'[q] = "check video" /\ call'[q].op = "complete" /\ call'[q].up = u
          /\ call'[q].id = id
          /\ \A p \in Requests : p # q => at'[p] = at[p] /\ call'[p] = call[p]
      BY <1>1 DEF TypeOK, Complete, Begin, Goto
    <2> QED BY <2>1 DEF Phases, Up
  <1>2. ASSUME NEW q \in Requests, NEW u \in Uploads, Abort(q, u) PROVE Phases'
    <2>1. /\ at'[q] = "delete video" /\ call'[q].op = "abort" /\ call'[q].up = u
          /\ \A p \in Requests : p # q => at'[p] = at[p] /\ call'[p] = call[p]
      BY <1>2 DEF TypeOK, Abort, Begin, Goto
    <2> QED BY <2>1 DEF Phases, Up
  <1>3. ASSUME NEW q \in Requests, NEW n \in 0 .. MaxLacking, Photo(q, n) PROVE Phases'
    <2>1. /\ at'[q] = "store" /\ call'[q].op = "photo" /\ call'[q].up = None
          /\ \A p \in Requests : p # q => at'[p] = at[p] /\ call'[p] = call[p]
      BY <1>3 DEF TypeOK, Photo, Begin, Goto
    <2> QED BY <2>1 DEF Phases, Up
  <1>4. ASSUME NEW q \in Requests, Serve(q) PROVE Phases'
    <2>1. /\ call' = call
          /\ \A p \in Requests : p # q => at'[p] = at[p]
      BY <1>4, ServeFrame
    <2>2. /\ at'[q] = "idle" => call[q].op = "none"
          /\ at'[q] \in {"check video", "check gps", "size", "insert", "too large"}
               => call[q].op = "complete"
          /\ at'[q] \in {"delete video", "delete gps"} => call[q].op \in {"complete", "abort"}
          /\ at'[q] \in {"store", "post"} => call[q].op = "photo"
      <3>1. at'[q] = at[q] \/ at'[q] # at[q]
        OBVIOUS
      <3> QED BY <1>4, <3>1, ServeMoves DEF Phases
    <2> QED BY <2>1, <2>2 DEF Phases, Up
  <1>5. CASE UNCHANGED <<at, call>>
    BY <1>5 DEF Phases, Up
  <1> QED BY <1>1, <1>2, <1>3, <1>4, <1>5
       DEF Next, InitUpload, Expire, Put, Pipeline, ReadVideo, ReadGps, Advance,
           DeleteRide, vars

-----------------------------------------------------------------------------
(* Rides.                                                                   *)

LEMMA RideFrame ==
  ASSUME TypeOK, Phases, RideInv, UNCHANGED <<rides, removed>>, lost \subseteq lost',
         \A q \in Requests : at[q] # "idle" => call'[q] = call[q],
         \A q \in Requests : call'[q].op = "complete" /\ at'[q] = "ok" => at[q] = "ok",
         \A q \in Requests : at[q] = "ok" => at'[q] = "ok",
         \A q \in Requests : at[q] = "idle" => at'[q] # "ok"
  PROVE  RideInv'
  <1>1. \A q \in Requests : Made(q)' <=> Made(q)
    BY DEF Made
  <1>2. ASSUME NEW id \in Ids, rides[id] # None PROVE rides[id].by \in Requests
    BY <1>2 DEF TypeOK, RideRecords
  <1>3. ASSUME NEW id \in Ids, rides[id] # None
        PROVE  call'[rides[id].by] = call[rides[id].by]
    BY <1>2, <1>3 DEF RideInv, Phases
  <1>4. ASSUME NEW q \in Requests, call'[q].op = "complete", at'[q] = "ok"
        PROVE  Made(q)
    BY <1>4 DEF RideInv
  <1> QED BY <1>1, <1>2, <1>3, <1>4 DEF RideInv, Up

LEMMA RideStep == TypeOK /\ Phases /\ RideInv /\ [Next]_vars => RideInv'
  <1> SUFFICES ASSUME TypeOK, Phases, RideInv, [Next]_vars PROVE RideInv'
    OBVIOUS
  <1>1. ASSUME NEW q \in Requests,
               \/ \E u \in Uploads : Abort(q, u) \/ \E id \in Ids : Complete(q, u, id)
               \/ \E n \in 0 .. MaxLacking : Photo(q, n)
        PROVE  RideInv'
    <2>1. /\ UNCHANGED <<rides, removed, lost>>
          /\ at[q] = "idle" /\ at'[q] # "ok"
          /\ \A p \in Requests : p # q => at'[p] = at[p] /\ call'[p] = call[p]
      BY <1>1 DEF TypeOK, Abort, Complete, Photo, Begin, Goto, histories
    <2> QED BY <2>1, RideFrame
  <1>2. ASSUME NEW q \in Requests, Serve(q), ~InsertRide(q) PROVE RideInv'
    <2>1. /\ at[q] # "insert" /\ at[q] \notin Answers /\ at[q] # "idle"
          /\ UNCHANGED <<rides, removed>>
      BY <1>2 DEF Serve, CheckVideo, CheckGps, CheckSize, Validate, DeleteVideo, DeleteGps,
                  Store, StripColumn, Post, Answers, histories
    <2>2. call'[q].op = "complete" => at'[q] # "ok"
      BY <1>2, <2>1, ServeFrame, ServeMoves DEF Phases, Answers
    <2> QED BY <1>2, <2>1, <2>2, ServeFrame, RideFrame DEF Answers
  <1>3. ASSUME NEW q \in Requests, InsertRide(q) PROVE RideInv'
    <2>1. /\ at[q] = "insert" /\ call[q].op = "complete" /\ call[q].id \in Ids
          /\ call' = call /\ removed' = removed /\ lost \subseteq lost'
          /\ \A p \in Requests : p # q => at'[p] = at[p]
      BY <1>3, ServeFrame DEF InsertRide, Phases, Serve
    <2>2. CASE Again(q) /\ UNCHANGED <<rides, lost>>
      <3>1. at'[q] # "ok"
        BY <2>1, <2>2, AgainType DEF TypeOK
      <3> QED BY <2>1, <2>2, <3>1, RideFrame
    <2>3. CASE /\ rides[call[q].id] = None
               /\ rides' = [rides EXCEPT ![call[q].id] = Ride(q)]
               /\ Executed(q, "ok")
      <3>1. at'[q] = "ok" \/ q \in lost'
        BY <2>3, ExecutedType DEF TypeOK
      <3>2. Ride(q).up = Up(q) /\ Ride(q).by = q /\ Ride(q) # None
        <4>1. Ride(q) \in RideRecords
          BY <2>1 DEF Ride, RideRecords, Phases
        <4> QED BY <4>1, NoneAssumption DEF Ride
      <3> QED BY <2>1, <2>3, <3>1, <3>2 DEF TypeOK, RideInv, Made, Up
    <2> QED BY <1>3, <2>2, <2>3 DEF InsertRide
  <1>4. ASSUME NEW id \in Ids, Pipeline(id) PROVE RideInv'
    <2>1. PICK read \in {"queued", "video", "completed", "failed"} :
            rides' = [rides EXCEPT ![id] =
              [up |-> rides[id].up, by |-> rides[id].by, read |-> read]]
      BY <1>4 DEF Pipeline, ReadVideo, ReadGps, Advance
    <2>2. rides[id] # None /\ UNCHANGED <<call, at, lost, removed>>
      BY <1>4 DEF Pipeline, ReadVideo, ReadGps, Advance, histories
    <2>3. [up |-> rides[id].up, by |-> rides[id].by, read |-> read] # None
      BY <2>2, NoneAssumption DEF TypeOK, RideRecords
    <2>4. /\ \A i \in Ids : rides'[i] # None <=> rides[i] # None
          /\ \A i \in Ids : rides[i] # None =>
               rides'[i].by = rides[i].by /\ rides'[i].up = rides[i].up
      BY <2>1, <2>2, <2>3 DEF TypeOK
    <2> QED BY <2>2, <2>4 DEF RideInv, Made, Up
  <1>5. ASSUME NEW id \in Ids, DeleteRide(id) PROVE RideInv'
    <2>1. /\ rides[id] # None /\ rides' = [rides EXCEPT ![id] = None]
          /\ removed' = removed \cup {rides[id].by}
          /\ UNCHANGED <<call, at, lost>>
      BY <1>5 DEF DeleteRide
    <2>2. /\ rides'[id] = None
          /\ \A i \in Ids : i # id => rides'[i] = rides[i]
      BY <2>1 DEF TypeOK
    <2>3. \A q \in Requests : Made(q)' <=> Made(q)
      BY <2>1, <2>2 DEF Made
    <2> QED BY <2>1, <2>2, <2>3 DEF RideInv, Up
  <1>6. CASE UNCHANGED <<rides, call, at, lost, removed>>
    BY <1>6, RideFrame
  <1> QED BY <1>1, <1>2, <1>3, <1>4, <1>5, <1>6
       DEF Next, InitUpload, Expire, Put, vars, histories

-----------------------------------------------------------------------------
(* Photos.                                                                  *)

LEMMA PhotoFrame ==
  ASSUME PhotoInv, UNCHANGED photo, lost \subseteq lost',
         \A q \in Requests : call'[q].op = "photo" =>
           call[q].op = "photo" /\ (at'[q] = "ok" <=> at[q] = "ok")
             /\ (at'[q] = "post" => at[q] = "post")
         ,
         \A q \in Requests : at'[q] = "post" => call'[q].op = "photo"
  PROVE  PhotoInv'
  BY DEF PhotoInv, PhotoAnswers

LEMMA PhotoStep == TypeOK /\ Phases /\ Phases' /\ PhotoInv /\ [Next]_vars => PhotoInv'
  <1> SUFFICES ASSUME TypeOK, Phases, Phases', PhotoInv, [Next]_vars PROVE PhotoInv'
    OBVIOUS
  <1>1. ASSUME NEW q \in Requests,
               \E u \in Uploads : Abort(q, u) \/ \E id \in Ids : Complete(q, u, id)
        PROVE  PhotoInv'
    <2>1. /\ UNCHANGED <<photo, lost>>
          /\ call'[q].op \in {"abort", "complete"} /\ at'[q] # "post"
          /\ \A p \in Requests : p # q => at'[p] = at[p] /\ call'[p] = call[p]
      <3>1. ASSUME NEW u \in Uploads, Abort(q, u)
            PROVE  /\ UNCHANGED <<photo, lost>>
                   /\ at'[q] = "delete video" /\ call'[q].op = "abort"
                   /\ \A p \in Requests : p # q => at'[p] = at[p] /\ call'[p] = call[p]
        BY <3>1 DEF TypeOK, Abort, Begin, Goto
      <3>2. ASSUME NEW u \in Uploads, NEW id \in Ids, Complete(q, u, id)
            PROVE  /\ UNCHANGED <<photo, lost>>
                   /\ at'[q] = "check video" /\ call'[q].op = "complete"
                   /\ \A p \in Requests : p # q => at'[p] = at[p] /\ call'[p] = call[p]
        BY <3>2 DEF TypeOK, Complete, Begin, Goto
      <3> QED BY <1>1, <3>1, <3>2
    <2> QED BY <2>1, PhotoFrame DEF Phases
  <1>2. ASSUME NEW q \in Requests, NEW n \in 0 .. MaxLacking, Photo(q, n) PROVE PhotoInv'
    <2>1. /\ at'[q] = "store" /\ lost' = lost
          /\ \A p \in Requests : p # q => at'[p] = at[p] /\ call'[p] = call[p]
      BY <1>2 DEF TypeOK, Photo, Begin, Goto, histories
    <2>2. /\ photo'[q].rows = 0
          /\ \A p \in Requests : p # q => photo'[p] = photo[p]
      BY <1>2 DEF TypeOK, Photo, SetPhoto
    <2> QED BY <2>1, <2>2 DEF PhotoInv, PhotoAnswers
  <1>3. ASSUME NEW q \in Requests, Serve(q), ~Store(q), ~StripColumn(q), ~Post(q)
        PROVE  PhotoInv'
    <2>1. at[q] \notin {"idle", "store", "post"} /\ at[q] \notin Answers /\ UNCHANGED photo
      BY <1>3 DEF Serve, CheckVideo, CheckGps, CheckSize, Validate, DeleteVideo, DeleteGps,
                  InsertRide, Answers
    <2>2. call[q].op # "photo" \/ at'[q] = at[q] \/ at'[q] = "error"
      BY <1>3, <2>1, ServeMoves DEF Phases
    <2>3. at'[q] # "post"
      BY <1>3, <2>1, ServeMoves
    <2> QED BY <1>3, <2>1, <2>2, <2>3, ServeFrame, PhotoFrame DEF Phases, Answers
  <1>4. ASSUME NEW q \in Requests, Store(q) \/ StripColumn(q) \/ Post(q) PROVE PhotoInv'
    <2>1. /\ at[q] \in {"store", "post"} /\ call[q].op = "photo"
          /\ call' = call /\ lost \subseteq lost'
          /\ \A p \in Requests : p # q => at'[p] = at[p]
          /\ lost' = lost \/ lost' = lost \cup {q}
      BY <1>4, ServeFrame DEF Serve, Store, StripColumn, Post, Phases
    <2>2. \A p \in Requests : p # q => photo'[p] = photo[p]
      BY <1>4 DEF TypeOK, Store, StripColumn, Post, SetPhoto
    <2>3. /\ at[q] = "post" => photo[q].stored
          /\ photo[q].rows > 0 => photo[q].stored
          /\ q \notin lost => photo[q].rows = 0
      BY <2>1 DEF PhotoInv, PhotoAnswers
    <2>4. SUFFICES
            /\ photo'[q].rows > 0 => photo'[q].stored
            /\ at'[q] = "post" => photo'[q].stored
            /\ at'[q] = "ok" => photo'[q].rows > 0
            /\ q \notin lost' => photo'[q].rows = IF at'[q] = "ok" THEN 1 ELSE 0
      BY <2>1, <2>2 DEF PhotoInv, PhotoAnswers
    <2>5. CASE Store(q)
      <3>1. CASE Executed(q, "post") /\ SetPhoto(q, TRUE, photo[q].rows, photo[q].lacking, photo[q].left)
        BY <2>1, <2>3, <3>1, ExecutedType DEF TypeOK, SetPhoto
      <3>2. CASE Again(q) /\ UNCHANGED <<photo, lost>>
        BY <2>1, <2>3, <2>5, <3>2, AgainType DEF TypeOK, Store
      <3> QED BY <2>5, <3>1, <3>2 DEF Store
    <2>6. CASE StripColumn(q)
      <3>1. photo'[q].rows = photo[q].rows /\ photo'[q].stored = photo[q].stored
        BY <2>6 DEF TypeOK, StripColumn, SetPhoto
      <3>2. lost' = lost /\ at[q] = "post" /\ (at'[q] = "post" \/ at'[q] = "error")
        BY <2>6 DEF TypeOK, StripColumn, Goto, histories
      <3> QED BY <2>3, <3>1, <3>2
    <2>7. CASE Post(q)
      <3>1. CASE Executed(q, "ok") /\ SetPhoto(q, photo[q].stored, photo[q].rows + 1, 0, photo[q].left)
        <4>1. photo'[q].rows = photo[q].rows + 1 /\ photo'[q].stored = photo[q].stored
          BY <3>1 DEF TypeOK, SetPhoto
        <4>2. photo[q].rows \in Nat
          BY DEF TypeOK, Photos
        <4>3. at[q] = "post"
          BY <2>7 DEF Post
        <4>4. at'[q] = "ok" \/ (q \in lost' /\ at'[q] \in {"post", "error"})
          <5>1. \/ at' = [at EXCEPT ![q] = "ok"]
                \/ (at' = at \/ at' = [at EXCEPT ![q] = "error"]) /\ lost' = lost \cup {q}
            BY <3>1, ExecutedType
          <5> QED BY <4>3, <5>1 DEF TypeOK
        <4> QED BY <2>1, <2>3, <4>1, <4>2, <4>3, <4>4
      <3>2. CASE Again(q) /\ UNCHANGED <<photo, lost>>
        <4>1. at[q] = "post" /\ at'[q] \in {"post", "error"}
          BY <2>7, <3>2, AgainType DEF TypeOK, Post
        <4> QED BY <2>3, <3>2, <4>1
      <3> QED BY <2>7, <3>1, <3>2 DEF Post
    <2> QED BY <1>4, <2>5, <2>6, <2>7
  <1>5. CASE UNCHANGED <<photo, call, at, lost>>
    BY <1>5, PhotoFrame DEF Phases
  <1> QED BY <1>1, <1>2, <1>3, <1>4, <1>5
       DEF Next, InitUpload, Expire, Put, Pipeline, ReadVideo, ReadGps, Advance,
           DeleteRide, vars, histories

-----------------------------------------------------------------------------
(* Blobs.                                                                   *)

(* An abort or a completion of an upload that is not touched is under way    *)
(* only without the other; and a ride has been completed.                   *)
LEMMA RideIsAsked ==
  ASSUME TypeOK, RideInv, NEW id \in Ids, rides[id] # None
  PROVE  /\ rides[id] \in RideRecords /\ rides[id].by \in Requests
         /\ call[rides[id].by].op = "complete" /\ Up(rides[id].by) = rides[id].up
  <1>1. rides[id] \in RideRecords
    BY DEF TypeOK
  <1> QED BY <1>1 DEF RideRecords, RideInv

LEMMA SoundFrame ==
  ASSUME SoundInv, UNCHANGED <<video, gps, rides>>, touched \subseteq touched',
         \A q \in Requests : call'[q].op = "complete" /\ Up(q)' \notin touched' =>
           /\ call[q] = call'[q]
           /\ at'[q] # at[q] => Checked(q)',
         \A q \in Requests : call'[q].op = "abort" =>
           call[q] = call'[q] /\ (at'[q] \notin Answers => at[q] \notin Answers)
  PROVE  SoundInv'
  <1>1. RidesSound'
    BY DEF SoundInv, RidesSound
  <1>2. ASSUME NEW q \in Requests, call'[q].op = "complete", Up(q)' \notin touched'
        PROVE  Checked(q)'
    <2>1. Up(q)' = Up(q) /\ call[q].op = "complete" /\ Up(q) \notin touched
      BY <1>2 DEF Up
    <2>2. CASE at'[q] = at[q]
      <3>1. Checked(q)
        BY <2>1 DEF SoundInv
      <3> QED BY <2>1, <2>2, <3>1 DEF Checked
    <2> QED BY <1>2, <2>2
  <1>3. ASSUME NEW p \in Requests, NEW q \in Requests,
               call'[p].op = "abort", at'[p] \notin Answers,
               call'[q].op = "complete", Up(p)' = Up(q)'
        PROVE  Up(p)' \in touched'
    BY <1>3 DEF SoundInv, Up
  <1> QED BY <1>1, <1>2, <1>3 DEF SoundInv

LEMMA SoundBegin ==
  ASSUME TypeOK, Phases, RideInv, SoundInv, NEW q \in Requests, NEW u \in Uploads,
         Abort(q, u) \/ \E id \in Ids : Complete(q, u, id)
  PROVE  SoundInv'
  <1>1. /\ UNCHANGED <<video, gps, rides>> /\ touched \subseteq touched'
        /\ at[q] = "idle"
        /\ \A p \in Requests : p # q => at'[p] = at[p] /\ call'[p] = call[p]
        /\ call'[q].up = u
        /\ \/ /\ call'[q].op = "abort" /\ at'[q] = "delete video"
              /\ Asked("complete", u) # {} => u \in touched'
           \/ /\ call'[q].op = "complete" /\ at'[q] = "check video"
              /\ UnderWay("abort", u) # {} => u \in touched'
    <2>1. CASE Abort(q, u)
      BY <2>1 DEF TypeOK, Abort, Begin, Goto, blobs
    <2>2. ASSUME NEW id \in Ids, Complete(q, u, id)
          PROVE  /\ UNCHANGED <<video, gps, rides>> /\ touched \subseteq touched'
                 /\ at[q] = "idle"
                 /\ \A p \in Requests : p # q => at'[p] = at[p] /\ call'[p] = call[p]
                 /\ call'[q].up = u
                 /\ call'[q].op = "complete" /\ at'[q] = "check video"
                 /\ UnderWay("abort", u) # {} => u \in touched'
      BY <2>2 DEF TypeOK, Complete, Begin, Goto, blobs
    <2> QED BY <2>1, <2>2
  <1>3. RidesSound'
    BY <1>1 DEF SoundInv, RidesSound
  <1>4. ASSUME NEW p \in Requests, call'[p].op = "complete", Up(p)' \notin touched'
        PROVE  Checked(p)'
    BY <1>1, <1>4 DEF SoundInv, Checked, Up
  <1>5. ASSUME NEW p \in Requests, NEW r \in Requests,
               call'[p].op = "abort", at'[p] \notin Answers,
               call'[r].op = "complete", Up(p)' = Up(r)'
        PROVE  Up(p)' \in touched'
    <2>1. CASE p # q /\ r # q
      BY <1>1, <1>5, <2>1 DEF SoundInv, Up
    <2>2. CASE p = q
      <3>1. r # q
        BY <1>5, <2>2
      <3>2. r \in Asked("complete", u)
        BY <1>1, <1>5, <2>2, <3>1 DEF Asked, Up
      <3> QED BY <1>1, <1>5, <2>2, <3>2 DEF Up
    <2>3. CASE r = q
      <3>1. p # q
        BY <1>5, <2>3
      <3>2. p \in UnderWay("abort", u)
        BY <1>1, <1>5, <2>3, <3>1 DEF UnderWay, Asked, Up
      <3> QED BY <1>1, <1>5, <2>3, <3>2 DEF Up
    <2> QED BY <2>1, <2>2, <2>3
  <1> QED BY <1>3, <1>4, <1>5 DEF SoundInv

LEMMA SoundPut ==
  ASSUME TypeOK, Phases, RideInv, SoundInv, NEW u \in Uploads, Put(u)
  PROVE  SoundInv'
  <1>1. /\ UNCHANGED <<rides, call, at>> /\ touched \subseteq touched'
        /\ Asked("complete", u) # {} => u \in touched'
        /\ \A v \in Uploads : v # u => video'[v] = video[v] /\ gps'[v] = gps[v]
    BY DEF TypeOK, Put
  <1>2. ASSUME NEW q \in Requests, call[q].op = "complete", Up(q) \notin touched'
        PROVE  Up(q) \in Uploads /\ Up(q) # u /\ Up(q) \notin touched
    BY <1>1, <1>2 DEF Phases, Asked
  <1>3. ASSUME NEW id \in Ids, rides[id] # None, rides[id].up \notin touched'
        PROVE  rides[id].up \in Uploads /\ rides[id].up # u /\ rides[id].up \notin touched
    BY <1>2, <1>3, RideIsAsked
  <1>4. RidesSound'
    BY <1>1, <1>3 DEF SoundInv, RidesSound
  <1>5. ASSUME NEW q \in Requests, call'[q].op = "complete", Up(q)' \notin touched'
        PROVE  Checked(q)'
    BY <1>1, <1>2, <1>5 DEF SoundInv, Checked, Up
  <1> QED BY <1>1, <1>4, <1>5 DEF SoundInv, Up

LEMMA SoundCheck ==
  ASSUME TypeOK, Phases, SoundInv, NEW q \in Requests,
         CheckVideo(q) \/ CheckGps(q) \/ CheckSize(q)
  PROVE  SoundInv'
  <1>1. /\ UNCHANGED <<video, gps, rides, call, touched>>
        /\ at[q] \in {"check video", "check gps", "size"}
        /\ \A p \in Requests : p # q => at'[p] = at[p]
    BY DEF TypeOK, CheckVideo, CheckGps, CheckSize, Validate, Goto, blobs, histories
  <1>2. call[q].op = "complete" /\ Up(q) \in Uploads /\ at[q] \notin Answers
    BY <1>1 DEF Phases, Answers
  <1>3. ASSUME Up(q) \notin touched PROVE Checked(q)'
    <2>1. Checked(q)
      BY <1>2, <1>3 DEF SoundInv
    <2>2. CASE CheckVideo(q)
      BY <1>1, <2>2 DEF TypeOK, CheckVideo, Validate, Goto, Checked, Up
    <2>3. CASE CheckGps(q)
      BY <1>1, <2>1, <2>3 DEF TypeOK, CheckGps, Validate, Goto, Checked, Up
    <2>4. CASE CheckSize(q)
      <3>1. video[Up(q)] \in Contents /\ video[Up(q)] # "bad"
        BY <1>2, <2>1, <2>4 DEF TypeOK, CheckSize, Checked
      <3> QED BY <1>1, <2>1, <2>4, <3>1
           DEF TypeOK, Contents, CheckSize, Goto, Checked, Up
    <2> QED BY <2>2, <2>3, <2>4
  <1> QED BY <1>1, <1>2, <1>3, SoundFrame DEF Up

LEMMA SoundDelete ==
  ASSUME TypeOK, Phases, RideInv, SoundInv, NEW q \in Requests,
         DeleteVideo(q) \/ DeleteGps(q)
  PROVE  SoundInv'
  <1>1. /\ UNCHANGED <<rides, call, touched>>
        /\ at[q] \in {"delete video", "delete gps"} /\ at[q] \notin Answers
        /\ at'[q] \in {"delete gps", "ok", "too large"}
        /\ \A p \in Requests : p # q => at'[p] = at[p]
        /\ \A u \in Uploads : u # Up(q) => video'[u] = video[u] /\ gps'[u] = gps[u]
    BY DEF TypeOK, DeleteVideo, DeleteGps, Goto, Answers, histories
  <1>2. Up(q) \in Uploads /\ call[q].op \in {"complete", "abort"}
    BY <1>1 DEF Phases
  <1>3. \/ gps' = gps /\ video'[Up(q)] \in {video[Up(q)], None}
        \/ video' = video
    BY <1>2 DEF TypeOK, DeleteVideo, DeleteGps
  <1>4. ASSUME NEW p \in Requests, call[p].op = "complete", Up(p) \notin touched,
               Up(p) = Up(q)
        PROVE  call[q].op = "complete" /\ video[Up(q)] # "good" /\ Checked(p)
    <2>1. call[q].op = "complete"
      BY <1>1, <1>2, <1>4 DEF SoundInv
    <2>2. Checked(q) /\ Checked(p)
      BY <1>4, <2>1 DEF SoundInv
    <2> QED BY <1>1, <2>1, <2>2 DEF Checked
  <1>5. ASSUME NEW p \in Requests, call[p].op = "complete", Up(p) \notin touched
        PROVE  Checked(p)'
    <2>1. CASE Up(p) # Up(q)
      <3>1. at'[p] = at[p] /\ Up(p) \in Uploads
        BY <1>1, <1>5, <2>1 DEF Phases
      <3>2. video'[Up(p)] = video[Up(p)] /\ gps'[Up(p)] = gps[Up(p)] /\ Up(p)' = Up(p)
        BY <1>1, <2>1, <3>1 DEF Up
      <3>3. Checked(p)
        BY <1>5 DEF SoundInv
      <3> QED BY <3>1, <3>2, <3>3 DEF Checked
    <2>2. CASE Up(p) = Up(q)
      <3>1. video[Up(q)] # "good" /\ Checked(p)
        BY <1>4, <1>5, <2>2
      <3>2. None \notin {"good", "bad"}
        BY NoneAssumption
      <3>3. video'[Up(q)] \in {video[Up(q)], None}
        BY <1>3
      <3>4. /\ at'[p] = "check gps" => at[p] = "check gps"
            /\ at'[p] = "size" => at[p] = "size"
            /\ at'[p] = "insert" => at[p] = "insert"
        BY <1>1
      <3> QED BY <1>1, <2>2, <3>1, <3>2, <3>3, <3>4 DEF Checked, Up
    <2> QED BY <2>1, <2>2
  <1>6. RidesSound'
    <2> SUFFICES ASSUME NEW id \in Ids, rides[id] # None, rides[id].up \notin touched
                 PROVE  /\ video'[rides[id].up] = "good" /\ gps'[rides[id].up] = "good"
                        /\ rides[id].read # "failed"
      BY <1>1 DEF RidesSound
    <2>1. /\ video[rides[id].up] = "good" /\ gps[rides[id].up] = "good"
          /\ rides[id].read # "failed"
      BY DEF SoundInv, RidesSound
    <2>2. rides[id].up # Up(q) /\ rides[id].up \in Uploads
      BY <1>4, <2>1, RideIsAsked DEF Phases
    <2> QED BY <1>1, <2>1, <2>2
  <1>7. \A p \in Requests : at'[p] \notin Answers => at[p] \notin Answers
    BY <1>1
  <1> QED BY <1>1, <1>5, <1>6, <1>7 DEF SoundInv, Up

LEMMA SoundInsert ==
  ASSUME TypeOK, Phases, SoundInv, NEW q \in Requests, InsertRide(q)
  PROVE  SoundInv'
  <1>1. /\ UNCHANGED <<video, gps, call, touched>>
        /\ at[q] = "insert" /\ call[q].op = "complete" /\ at[q] \notin Answers
        /\ rides' = rides \/ rides' = [rides EXCEPT ![call[q].id] = Ride(q)]
    BY DEF InsertRide, Phases, blobs, Answers
  <1>2. /\ at'[q] \in {"insert", "ok", "error"}
        /\ \A p \in Requests : p # q => at'[p] = at[p]
    BY <1>1, ServeFrame, ServeMoves DEF Serve
  <1>3. RidesSound'
    <2>1. CASE rides' = rides
      BY <1>1, <2>1 DEF SoundInv, RidesSound
    <2>2. CASE rides' = [rides EXCEPT ![call[q].id] = Ride(q)]
      <3>1. Up(q) \notin touched => video[Up(q)] = "good" /\ gps[Up(q)] = "good"
        BY <1>1 DEF SoundInv, Checked
      <3>2. Ride(q).up = Up(q) /\ Ride(q).read = "queued"
        BY DEF Ride
      <3> QED BY <1>1, <2>2, <3>1, <3>2 DEF TypeOK, SoundInv, RidesSound
    <2> QED BY <1>1, <2>1, <2>2
  <1>4. ASSUME NEW p \in Requests, call[p].op = "complete", Up(p) \notin touched
        PROVE  Checked(p)'
    BY <1>1, <1>2, <1>4 DEF SoundInv, Checked, Up
  <1>5. \A p \in Requests : at'[p] \notin Answers => at[p] \notin Answers
    BY <1>1, <1>2
  <1> QED BY <1>1, <1>3, <1>4, <1>5 DEF SoundInv, Up

LEMMA SoundPipeline ==
  ASSUME TypeOK, SoundInv, NEW id \in Ids, Pipeline(id) \/ DeleteRide(id)
  PROVE  SoundInv'
  <1>1. /\ UNCHANGED <<video, gps, call, at, touched>> /\ rides[id] # None
        /\ \A i \in Ids : i # id => rides'[i] = rides[i]
    BY DEF TypeOK, Pipeline, ReadVideo, ReadGps, Advance, DeleteRide, blobs, histories
  <1>2. \/ rides'[id] = None
        \/ /\ rides'[id].up = rides[id].up
           /\ \/ rides'[id].read # "failed"
              \/ video[rides[id].up] \notin {"good", "large"}
              \/ gps[rides[id].up] # "good"
    BY DEF TypeOK, Pipeline, ReadVideo, ReadGps, Advance, DeleteRide
  <1>3. RidesSound'
    BY <1>1, <1>2 DEF SoundInv, RidesSound
  <1> QED BY <1>1, <1>3 DEF SoundInv, Checked, Up

LEMMA SoundStep ==
  TypeOK /\ Phases /\ RideInv /\ SoundInv /\ [Next]_vars => SoundInv'
  <1> SUFFICES ASSUME TypeOK, Phases, RideInv, SoundInv, [Next]_vars PROVE SoundInv'
    OBVIOUS
  <1>1. ASSUME NEW q \in Requests, NEW n \in 0 .. MaxLacking, Photo(q, n) PROVE SoundInv'
    <2>1. /\ UNCHANGED <<video, gps, rides, touched>> /\ call'[q].op = "photo"
          /\ \A p \in Requests : p # q => at'[p] = at[p] /\ call'[p] = call[p]
      BY <1>1 DEF TypeOK, Photo, Begin, Goto, blobs, histories
    <2> QED BY <2>1, SoundFrame
  <1>2. ASSUME NEW q \in Requests, Store(q) \/ StripColumn(q) \/ Post(q) PROVE SoundInv'
    <2>1. /\ UNCHANGED <<video, gps, rides, call, touched>> /\ call[q].op = "photo"
      BY <1>2 DEF Store, StripColumn, Post, Phases, blobs, histories
    <2>2. \A p \in Requests : p # q => at'[p] = at[p]
      BY <1>2, ServeFrame DEF Serve
    <2> QED BY <2>1, <2>2, SoundFrame
  <1>3. CASE UNCHANGED <<video, gps, rides, call, at, touched>>
    BY <1>3, SoundFrame
  <1> QED BY <1>1, <1>2, <1>3, SoundBegin, SoundPut, SoundCheck, SoundDelete, SoundInsert,
             SoundPipeline
       DEF Next, Serve, InitUpload, Expire, vars, blobs, histories

-----------------------------------------------------------------------------
LEMMA NextInv == Inv /\ [Next]_vars => Inv'
  BY TypeStep, PhaseStep, RideStep, PhotoStep, SoundStep DEF Inv

(* Type correctness.                                                        *)
THEOREM TypeCorrect == Spec => []TypeOK
  <1>1. Inv => TypeOK
    BY DEF Inv
  <1> QED BY <1>1, InitInv, NextInv, PTL DEF Spec

(* "ok" means that the ride is there; an error means that it is not, or that *)
(* an answer of the database was lost.                                      *)
THEOREM RideAnswersAlways == Spec => []RideAnswers
  <1>1. Inv => RideAnswers
    BY DEF Inv, RideInv, RideAnswers
  <1> QED BY <1>1, InitInv, NextInv, PTL DEF Spec

(* A photo's answer is true of its post, under the same condition, and no   *)
(* post is without its image.                                               *)
THEOREM PhotoAnswersAlways == Spec => []PhotoAnswers
  <1>1. Inv => PhotoAnswers
    BY DEF Inv, PhotoInv
  <1> QED BY <1>1, InitInv, NextInv, PTL DEF Spec

(* The pipeline finds the blobs that were validated, if nobody touched them. *)
THEOREM RidesSoundAlways == Spec => []RidesSound
  <1>1. Inv => RidesSound
    BY DEF Inv, SoundInv
  <1> QED BY <1>1, InitInv, NextInv, PTL DEF Spec
=============================================================================
