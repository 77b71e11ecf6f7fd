---------------------------- MODULE FrameDetection ----------------------------
(***************************************************************************)
(* DetectionBatchBuilder.build (detection_batch_builder.py): every Skip-th  *)
(* frame of a ride's video goes through the quality gates and the model;    *)
(* boxes that overlap one of the previous frame are dropped; annotated      *)
(* frames are uploaded by a pool of threads meanwhile, and their URLs       *)
(* entered when all uploads have ended.                                     *)
(***************************************************************************)
EXTENDS Naturals, FiniteSets

CONSTANTS
  NumFrames, Skip,     \* frames of the video; FRAME_SKIP
  Boxes,               \* what the model may find in a frame
  Overlap,             \* pairs of boxes with _iou above _IOU_THRESHOLD
  Excluded,            \* boxes of an EXCLUDED_CLASSES class
  PoolSize,            \* threads of upload_executor
  None

ASSUME DetectionAssumption ==
  /\ NumFrames \in Nat /\ Skip \in Nat \ {0} /\ PoolSize \in Nat \ {0}
  /\ Excluded \subseteq Boxes
  /\ Overlap \subseteq Boxes \X Boxes

Frames == 1 .. NumFrames

VARIABLES
  video,       \* what the model finds in each sampled frame, None: dark or blurred
  frame,       \* frame_count
  prev,        \* prev_frame_boxes
  detections,  \* raw_detections_batch: box, frame (its timestamp), image_url
  upload,      \* the upload of each frame's annotated image
  phase        \* "loop", "shutdown" or "unwind" (waiting for the uploads), or how it ended

vars == <<video, frame, prev, detections, upload, phase>>

Sampled(f) == f % Skip = 0

(* Not between the samples, not dark or blurred, and not without boxes. *)
ShowsBoxes(f) == Sampled(f) /\ video[f] # None /\ video[f] # {}

Pending == {f \in Frames : upload[f] \in {"queued", "running"}}

(***************************************************************************)
(* The loop over the frames.                                               *)
(***************************************************************************)
(* Mutant of NextFrame: one frame too many. *)
NextFrameBeyond == phase = "loop" /\ frame' = frame + 1

NextFrame == phase = "loop" /\ frame < NumFrames /\ frame' = frame + 1

(* Mutant of PassOver: the boxes of the last processed frame are kept. *)
PassOverKeeps ==
  /\ NextFrame
  /\ ~ShowsBoxes(frame + 1)
  /\ UNCHANGED <<video, prev, detections, upload, phase>>

PassOver ==
  /\ NextFrame
  /\ ~ShowsBoxes(frame + 1)
  /\ prev' = {}
  /\ UNCHANGED <<video, detections, upload, phase>>

Fresh(b) == b \notin Excluded /\ ~ \E p \in prev : <<b, p>> \in Overlap

(* The detections are new ones; the boxes dropped are remembered with the   *)
(* others.  A frame that cannot be encoded is not uploaded.                 *)
Process ==
  LET f == frame + 1 IN
  /\ NextFrame
  /\ ShowsBoxes(f)
  /\ prev' = video[f]
  /\ detections' = detections \cup
       {[box |-> b, frame |-> f, image |-> None] : b \in {x \in video[f] : Fresh(x)}}
  /\ upload' \in {upload, [upload EXCEPT ![f] = "queued"]}
  /\ UNCHANGED <<video, phase>>

(* The model, or the projection of a box to coordinates, raises. *)
Fails ==
  /\ phase = "loop"
  /\ phase' = "unwind"
  /\ UNCHANGED <<video, frame, prev, detections, upload>>

EndOfVideo ==
  /\ phase = "loop" /\ frame = NumFrames
  /\ phase' = "shutdown"
  /\ UNCHANGED <<video, frame, prev, detections, upload>>

(***************************************************************************)
(* The upload threads, and upload_executor.shutdown(wait=True).            *)
(***************************************************************************)
StartUpload(f) ==
  /\ upload[f] = "queued"
  /\ \A g \in Frames : g < f => upload[g] # "queued"
  /\ Cardinality({g \in Frames : upload[g] = "running"}) < PoolSize
  /\ upload' = [upload EXCEPT ![f] = "running"]
  /\ UNCHANGED <<video, frame, prev, detections, phase>>

EndUpload(f) ==
  /\ upload[f] = "running"
  /\ upload' \in {[upload EXCEPT ![f] = r] : r \in {"stored", "failed"}}
  /\ UNCHANGED <<video, frame, prev, detections, phase>>

(* Mutant of Resolve: URLs are resolved without waiting. *)
ResolveEarly ==
  /\ phase = "shutdown"
  /\ detections' = {[d EXCEPT !.image = IF upload[d.frame] = "stored" THEN d.frame ELSE None]
                     : d \in detections}
  /\ phase' = "returned"
  /\ UNCHANGED <<video, frame, prev, upload>>

(* A failed upload leaves its detections without an image. *)
Resolve ==
  /\ phase = "shutdown" /\ Pending = {}
  /\ detections' = {[d EXCEPT !.image = IF upload[d.frame] = "stored" THEN d.frame ELSE None]
                     : d \in detections}
  /\ phase' = "returned"
  /\ UNCHANGED <<video, frame, prev, upload>>

(* Mutant of Unwind: no shutdown in the finally. *)
UnwindEarly ==
  /\ phase = "unwind"
  /\ phase' = "raised"
  /\ UNCHANGED <<video, frame, prev, detections, upload>>

Unwind ==
  /\ phase = "unwind" /\ Pending = {}
  /\ phase' = "raised"
  /\ UNCHANGED <<video, frame, prev, detections, upload>>

Init ==
  /\ video \in [{f \in Frames : Sampled(f)} -> (SUBSET Boxes) \cup {None}]
  /\ frame = 0 /\ prev = {} /\ detections = {}
  /\ upload = [f \in Frames |-> "none"]
  /\ phase = "loop"

Next ==
  \/ PassOver \/ Process \/ Fails \/ EndOfVideo \/ Resolve \/ Unwind
  \/ \E f \in Frames : StartUpload(f) \/ EndUpload(f)

Spec == Init /\ [][Next]_vars

-----------------------------------------------------------------------------
(* Type invariant. *)
TypeOK ==
  /\ frame \in 0 .. NumFrames /\ prev \in SUBSET Boxes
  /\ detections \subseteq [box : Boxes, frame : Frames, image : Frames \cup {None}]
  /\ upload \in [Frames -> {"none", "queued", "running", "stored", "failed"}]
  /\ phase \in {"loop", "shutdown", "unwind", "returned", "raised"}

(* What is scanned is found: with frames skipped between the samples, every *)
(* box of every good sample that is not of an excluded class is a detection, *)
(* for the comparison with the previous frame never has boxes to compare    *)
(* with.  ("Every 5th frame with IOU deduplication", README.md:106, does    *)
(* not happen.)                                                             *)
AllDetected ==
  Skip > 1 =>
    {<<d.box, d.frame>> : d \in detections}
      = {p \in (Boxes \ Excluded) \X (1 .. frame) :
           ShowsBoxes(p[2]) /\ p[1] \in video[p[2]]}

(* A batch is returned with the image of exactly those detections whose     *)
(* frame was stored: no upload ends too late for its URL to be entered.     *)
ImagesResolved ==
  phase = "returned" =>
    \A d \in detections : d.image = IF upload[d.frame] = "stored" THEN d.frame ELSE None

(* However build ends, no upload thread goes on working for the ride: the   *)
(* next run of the ride writes the same object paths.                       *)
NothingOutlives == phase \in {"returned", "raised"} => Pending = {}
=============================================================================
