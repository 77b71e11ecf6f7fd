-------------------------------- MODULE Uploads --------------------------------
(***************************************************************************)
(* The requests of one user that bring in a ride or a community photo       *)
(* (upload_api.py, community_photo.py), over the storage services they      *)
(* call (blob_storage.py, supabase_client.py), and the pipeline that reads  *)
(* what was uploaded.                                                       *)
(*                                                                          *)
(* One action is one call of a service, for several gunicorn workers serve  *)
(* the user, and the app itself writes blobs with the SAS URLs it was       *)
(* given.  A call may fail, or be executed and its answer lost; insert and  *)
(* storage_upload are then tried again.                                     *)
(***************************************************************************)
EXTENDS Naturals, FiniteSets

CONSTANTS
  Uploads,    \* the pairs of blobs <stem>.mp4 and <stem>.json
  Ids,        \* the ride ids that the app may send; not tied to a stem
  Requests,   \* each is made once; a client's retry is another request
  Attempts,   \* of a call, by _retry_strategy (3)
  Inserts,    \* max_insert_retries (5): columns may be missing in the table
  MaxLacking, \* bound on the columns that are
  None

ASSUME UploadsAssumption ==
  Attempts \in Nat \ {0} /\ Inserts \in Nat \ {0} /\ MaxLacking \in Nat

RideRecords == [up : Uploads, by : Requests,
                read : {"queued", "video", "completed", "failed"}]

ASSUME NoneAssumption == None \notin {"good", "bad", "large"} \cup RideRecords

VARIABLES
  sas,      \* of each upload: "none", "valid" or "expired"
  video,    \* the video blob of each upload, or None
  gps,      \* its GPS blob, or None
  rides,    \* rides_metadata: what is known of each ride, or None
  call,     \* what each request asks
  at,       \* the call it makes next, or its answer
  try,      \* which attempt of that call
  photo,    \* of a photo's request: the image is stored; rows inserted;
            \* columns still to be stripped; inserts left
  lost,     \* history: requests of which an answer of a service was lost
  removed,  \* history: requests whose ride its owner has deleted
  touched   \* history: uploads written or aborted while or after completed

blobs == <<sas, video, gps>>
histories == <<lost, removed, touched>>
vars == <<blobs, rides, call, at, try, photo, histories>>

Answers == {"ok", "error", "too large"}

Up(q) == call[q].up

(* Requests of upload u that have begun, and those still under way. *)
Asked(op, u) == {q \in Requests : call[q].op = op /\ Up(q) = u}
UnderWay(op, u) == {q \in Asked(op, u) : at[q] \notin Answers}

Goto(q, next) == at' = [at EXCEPT ![q] = next]

(* Mutant of Again: one attempt too many. *)
AgainLate(q) ==
  IF try[q] <= Attempts
  THEN try' = [try EXCEPT ![q] = try[q] + 1] /\ UNCHANGED at
  ELSE Goto(q, "error") /\ UNCHANGED try

(* _retry_strategy: the next attempt, or the error goes to the client. *)
Again(q) ==
  IF try[q] < Attempts
  THEN try' = [try EXCEPT ![q] = try[q] + 1] /\ UNCHANGED at
  ELSE Goto(q, "error") /\ UNCHANGED try

(* The call was executed: q sees that, or loses the answer and tries again. *)
Executed(q, next) ==
  \/ Goto(q, next) /\ try' = [try EXCEPT ![q] = 1] /\ UNCHANGED lost
  \/ Again(q) /\ lost' = lost \cup {q}

(***************************************************************************)
(* /upload/init, and the app's own writes.                                 *)
(***************************************************************************)
InitUpload(u) ==
  /\ sas[u] = "none"
  /\ sas' = [sas EXCEPT ![u] = "valid"]
  /\ UNCHANGED <<video, gps, rides, call, at, try, photo, histories>>

Expire(u) ==
  /\ sas[u] = "valid"
  /\ sas' = [sas EXCEPT ![u] = "expired"]
  /\ UNCHANGED <<video, gps, rides, call, at, try, photo, histories>>

Put(u) ==
  /\ sas[u] = "valid"
  /\ \/ \E c \in {"good", "bad", "large"} :
          video' = [video EXCEPT ![u] = c] /\ UNCHANGED gps
     \/ \E c \in {"good", "bad"} :
          gps' = [gps EXCEPT ![u] = c] /\ UNCHANGED video
  /\ touched' = IF Asked("complete", u) # {} THEN touched \cup {u} ELSE touched
  /\ UNCHANGED <<sas, rides, call, at, try, photo, lost, removed>>

(***************************************************************************)
(* /upload/complete.                                                       *)
(***************************************************************************)
Begin(q, op, u, id, first) ==
  /\ at[q] = "idle"
  /\ call' = [call EXCEPT ![q] = [op |-> op, up |-> u, id |-> id]]
  /\ Goto(q, first)

Complete(q, u, id) ==
  /\ Begin(q, "complete", u, id, "check video")
  /\ touched' = IF UnderWay("abort", u) # {} THEN touched \cup {u} ELSE touched
  /\ UNCHANGED <<blobs, rides, try, photo, lost, removed>>

(* validate_blob_content raises if the blob is missing, empty, of another   *)
(* type or begins wrongly; and whenever the storage or its circuit fails.   *)
Validate(q, sound, next) ==
  /\ (sound /\ Goto(q, next)) \/ Goto(q, "error")
  /\ UNCHANGED <<blobs, rides, call, try, photo, histories>>

CheckVideo(q) ==
  /\ at[q] = "check video"
  /\ Validate(q, video[Up(q)] \in {"good", "large"}, "check gps")

(* Mutant of CheckGps: an exception is only logged. *)
CheckGpsLogs(q) == at[q] = "check gps" /\ Validate(q, TRUE, "size")

CheckGps(q) ==
  /\ at[q] = "check gps"
  /\ Validate(q, gps[Up(q)] = "good", "size")

(* get_blob_size, the limit, and the fields of the body. *)
CheckSize(q) ==
  /\ at[q] = "size"
  /\ IF video[Up(q)] = "large"
     THEN Goto(q, "delete video") \/ Goto(q, "error")
     ELSE (video[Up(q)] # None /\ Goto(q, "insert")) \/ Goto(q, "error")
  /\ UNCHANGED <<blobs, rides, call, try, photo, histories>>

Ride(q) == [up |-> Up(q), by |-> q, read |-> "queued"]

(* Mutant of InsertRide: it is an upsert. *)
UpsertRide(q) ==
  /\ at[q] = "insert"
  /\ \/ /\ rides' = [rides EXCEPT ![call[q].id] = Ride(q)]
        /\ Executed(q, "ok")
     \/ Again(q) /\ UNCHANGED <<rides, lost>>
  /\ UNCHANGED <<blobs, call, photo, removed, touched>>

(* Not executed is also the insert that the primary key refuses. *)
InsertRide(q) ==
  /\ at[q] = "insert"
  /\ \/ /\ rides[call[q].id] = None
        /\ rides' = [rides EXCEPT ![call[q].id] = Ride(q)]
        /\ Executed(q, "ok")
     \/ Again(q) /\ UNCHANGED <<rides, lost>>
  /\ UNCHANGED <<blobs, call, photo, removed, touched>>

(***************************************************************************)
(* /upload/abort, and delete_blobs: the failure of a delete is swallowed.  *)
(***************************************************************************)
Abort(q, u) ==
  /\ Begin(q, "abort", u, None, "delete video")
  /\ touched' = IF Asked("complete", u) # {} THEN touched \cup {u} ELSE touched
  /\ UNCHANGED <<blobs, rides, try, photo, lost, removed>>

DeleteVideo(q) ==
  /\ at[q] = "delete video"
  /\ video' \in {video, [video EXCEPT ![Up(q)] = None]}
  /\ Goto(q, "delete gps")
  /\ UNCHANGED <<sas, gps, rides, call, try, photo, histories>>

DeleteGps(q) ==
  /\ at[q] = "delete gps"
  /\ gps' \in {gps, [gps EXCEPT ![Up(q)] = None]}
  /\ Goto(q, IF call[q].op = "abort" THEN "ok" ELSE "too large")
  /\ UNCHANGED <<sas, video, rides, call, try, photo, histories>>

(***************************************************************************)
(* /community-photo/upload, up to its row.                                 *)
(***************************************************************************)
SetPhoto(q, stored, rows, lacking, left) ==
  photo' = [photo EXCEPT ![q] =
    [stored |-> stored, rows |-> rows, lacking |-> lacking, left |-> left]]

Photo(q, lacking) ==
  /\ Begin(q, "photo", None, None, "store")
  /\ SetPhoto(q, FALSE, 0, lacking, Inserts)
  /\ UNCHANGED <<blobs, rides, try, histories>>

(* upsert=False: the second upload to the name is refused. *)
Store(q) ==
  /\ at[q] = "store"
  /\ \/ /\ ~photo[q].stored
        /\ SetPhoto(q, TRUE, photo[q].rows, photo[q].lacking, photo[q].left)
        /\ Executed(q, "post")
     \/ Again(q) /\ UNCHANGED <<photo, lost>>
  /\ UNCHANGED <<blobs, rides, call, removed, touched>>

(* PGRST204: a column is missing.  It is stripped, without a retry. *)
StripColumn(q) ==
  /\ at[q] = "post" /\ photo[q].lacking > 0
  /\ photo[q].left > 0
  /\ SetPhoto(q, photo[q].stored, photo[q].rows, photo[q].lacking - 1, photo[q].left - 1)
  /\ try' = [try EXCEPT ![q] = 1]
  /\ IF photo[q].left = 1 THEN Goto(q, "error") ELSE UNCHANGED at
  /\ UNCHANGED <<blobs, rides, call, histories>>

(* Mutant of Post: it answers as soon as an answer was lost. *)
PostForgets(q) ==
  /\ at[q] = "post" /\ photo[q].lacking = 0
  /\ SetPhoto(q, photo[q].stored, photo[q].rows + 1, 0, photo[q].left)
  /\ Goto(q, "ok") \/ Goto(q, "error")
  /\ UNCHANGED <<blobs, rides, call, try, histories>>

(* No key of the row refuses a second one of the same photo. *)
Post(q) ==
  /\ at[q] = "post"
  /\ \/ /\ photo[q].lacking = 0
        /\ SetPhoto(q, photo[q].stored, photo[q].rows + 1, 0, photo[q].left)
        /\ Executed(q, "ok")
     \/ Again(q) /\ UNCHANGED <<photo, lost>>
  /\ UNCHANGED <<blobs, rides, call, removed, touched>>

(***************************************************************************)
(* The pipeline reads the blobs of a queued ride; the owner deletes a ride. *)
(***************************************************************************)
Advance(id, read) ==
  /\ rides' = [rides EXCEPT ![id] =
       [up |-> rides[id].up, by |-> rides[id].by, read |-> read]]
  /\ UNCHANGED <<blobs, call, at, try, photo, histories>>

ReadVideo(id) ==
  /\ rides[id] # None /\ rides[id].read = "queued"
  /\ Advance(id, IF video[rides[id].up] \in {"good", "large"} THEN "video" ELSE "failed")

ReadGps(id) ==
  /\ rides[id] # None /\ rides[id].read = "video"
  /\ Advance(id, IF gps[rides[id].up] = "good" THEN "completed" ELSE "failed")

DeleteRide(id) ==
  /\ rides[id] # None
  /\ rides' = [rides EXCEPT ![id] = None]
  /\ removed' = removed \cup {rides[id].by}
  /\ UNCHANGED <<blobs, call, at, try, photo, lost, touched>>

-----------------------------------------------------------------------------
NoPhoto == [stored |-> FALSE, rows |-> 0, lacking |-> 0, left |-> 0]

Init ==
  /\ sas = [u \in Uploads |-> "none"]
  /\ video = [u \in Uploads |-> None] /\ gps = [u \in Uploads |-> None]
  /\ rides = [id \in Ids |-> None]
  /\ call = [q \in Requests |-> [op |-> "none", up |-> None, id |-> None]]
  /\ at = [q \in Requests |-> "idle"]
  /\ try = [q \in Requests |-> 1]
  /\ photo = [q \in Requests |-> NoPhoto]
  /\ lost = {} /\ removed = {} /\ touched = {}

Serve(q) ==
  \/ CheckVideo(q) \/ CheckGps(q) \/ CheckSize(q) \/ InsertRide(q)
  \/ DeleteVideo(q) \/ DeleteGps(q)
  \/ Store(q) \/ StripColumn(q) \/ Post(q)

Pipeline(id) == ReadVideo(id) \/ ReadGps(id)

Next ==
  \/ \E u \in Uploads : InitUpload(u) \/ Expire(u) \/ Put(u)
  \/ \E q \in Requests :
       \/ \E u \in Uploads : Abort(q, u) \/ \E id \in Ids : Complete(q, u, id)
       \/ \E n \in 0 .. MaxLacking : Photo(q, n)
       \/ Serve(q)
  \/ \E id \in Ids : Pipeline(id) \/ DeleteRide(id)

Spec ==
  /\ Init /\ [][Next]_vars
  /\ \A q \in Requests : WF_vars(Serve(q))
  /\ \A id \in Ids : WF_vars(Pipeline(id))

-----------------------------------------------------------------------------
Contents == {"good", "bad", "large", None}

Steps == {"idle", "check video", "check gps", "size", "insert",
          "delete video", "delete gps", "store", "post"} \cup Answers

Calls == [op : {"none", "complete", "abort", "photo"},
          up : Uploads \cup {None}, id : Ids \cup {None}]

Photos == [stored : BOOLEAN, rows : Nat, lacking : 0 .. MaxLacking, left : 0 .. Inserts]

(* Type invariant. *)
TypeOK ==
  /\ sas \in [Uploads -> {"none", "valid", "expired"}]
  /\ video \in [Uploads -> Contents] /\ gps \in [Uploads -> Contents]
  /\ rides \in [Ids -> RideRecords \cup {None}]
  /\ call \in [Requests -> Calls]
  /\ at \in [Requests -> Steps]
  /\ try \in [Requests -> 1 .. Attempts]
  /\ photo \in [Requests -> Photos]
  /\ lost \subseteq Requests /\ removed \subseteq Requests /\ touched \subseteq Uploads

Made(q) == q \in removed \/ \E id \in Ids : rides[id] # None /\ rides[id].by = q

(* A request to complete an upload that is answered "ok" has made a ride,    *)
(* its own, that no other request replaces; and one that is answered with    *)
(* an error has made none, unless the answer of the database was lost:       *)
(* insert is tried again, the primary key refuses it, and a queued ride is   *)
(* reported as failed.                                                      *)
RideAnswers ==
  \A q \in Requests : call[q].op = "complete" =>
    /\ at[q] = "ok" => Made(q)
    /\ at[q] \in {"error", "too large"} /\ q \notin lost => ~Made(q)

(* A photo answered with "ok" has exactly one post and any other has none,   *)
(* unless an answer of the database was lost (then it may have several: no   *)
(* key refuses the second insert); and every post has its image.             *)
PhotoAnswers ==
  \A q \in Requests : call[q].op = "photo" =>
    /\ photo[q].rows > 0 => photo[q].stored
    /\ at[q] = "ok" => photo[q].rows > 0
    /\ q \notin lost => photo[q].rows = IF at[q] = "ok" THEN 1 ELSE 0

(* What the pipeline finds in the blobs of a ride is what was validated,     *)
(* whatever other requests do, unless the app itself writes a blob again     *)
(* with its SAS URL, or aborts the upload it has completed.                  *)
RidesSound ==
  \A id \in Ids : rides[id] # None /\ rides[id].up \notin touched =>
    /\ video[rides[id].up] = "good" /\ gps[rides[id].up] = "good"
    /\ rides[id].read # "failed"

Processed(q) == \E id \in Ids :
  rides[id] # None /\ rides[id].by = q /\ rides[id].read = "completed"

(* A request to complete an upload ends with an error or with a ride whose   *)
(* blobs the pipeline has read, if they are not touched nor the ride         *)
(* deleted.                                                                 *)
CompletedIsProcessed ==
  \A q \in Requests : call[q].op = "complete" ~>
    \/ at[q] \in {"error", "too large"} \/ Processed(q)
    \/ q \in removed \/ Up(q) \in touched
=============================================================================
