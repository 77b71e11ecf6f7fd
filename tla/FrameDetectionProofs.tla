------------------------- MODULE FrameDetectionProofs -------------------------
(***************************************************************************)
(* For every video, frame skip, pool of upload threads and model: what is   *)
(* scanned is found, the images of the batch are those that were stored,    *)
(* and no upload outlives build.                                            *)
(***************************************************************************)
EXTENDS FrameDetection, TLAPS

(* No two frames in a row are sampled: what makes the comparison with the    *)
(* previous frame empty.                                                     *)
LEMMA SamplesApart ==
  ASSUME Skip > 1, NEW f \in Nat, Sampled(f)
  PROVE  ~Sampled(f + 1)
  BY DetectionAssumption DEF Sampled

(***************************************************************************)
(* The inductive invariant.                                                *)
(***************************************************************************)
VideoOK == video \in [{f \in Frames : Sampled(f)} -> (SUBSET Boxes) \cup {None}]

(* Boxes are remembered only until the next frame, and that one is not       *)
(* sampled.                                                                  *)
PrevInv == Skip > 1 /\ prev # {} => Sampled(frame)

IInv ==
  /\ TypeOK /\ VideoOK /\ PrevInv
  /\ AllDetected /\ ImagesResolved /\ NothingOutlives

LEMMA IInvInitially == Init => IInv
<1> SUFFICES ASSUME Init PROVE IInv
  OBVIOUS
<1> USE DEF Init
<1>1. TypeOK /\ VideoOK /\ PrevInv
  BY DetectionAssumption DEF TypeOK, VideoOK, PrevInv
<1>2. AllDetected
  BY DEF AllDetected
<1> QED
  BY <1>1, <1>2 DEF IInv, ImagesResolved, NothingOutlives

LEMMA NextFrameType ==
  ASSUME TypeOK, NextFrame
  PROVE  frame' = frame + 1 /\ frame' \in Frames /\ frame' \in 0 .. NumFrames
  BY DetectionAssumption DEF TypeOK, NextFrame, Frames

LEMMA FoundType ==
  ASSUME VideoOK, NEW g \in Frames, ShowsBoxes(g)
  PROVE  Sampled(g) /\ video[g] \subseteq Boxes
<1> DEFINE D == {f \in Frames : Sampled(f)}
<1>1. g \in D /\ Sampled(g) /\ video[g] # None
  BY DEF ShowsBoxes
<1>2. video \in [D -> (SUBSET Boxes) \cup {None}]
  BY Zenon DEF VideoOK
<1> HIDE DEF D
<1>3. video[g] \in (SUBSET Boxes) \cup {None}
  BY <1>1, <1>2
<1> QED
  BY <1>1, <1>3

LEMMA PassOverStep ==
  ASSUME IInv, PassOver
  PROVE  IInv'
<1> USE DEF IInv, PassOver
<1>1. TypeOK' /\ VideoOK' /\ PrevInv'
  BY NextFrameType DEF TypeOK, VideoOK, PrevInv
<1>2. AllDetected'
  <2>1. ~ShowsBoxes(frame') /\ frame' = frame + 1 /\ frame \in Nat
    BY NextFrameType DEF TypeOK
  <2>2. \A f \in 1 .. frame' : ShowsBoxes(f) <=> f \in 1 .. frame /\ ShowsBoxes(f)
    BY <2>1
  <2> QED
    BY <2>1, <2>2 DEF AllDetected, ShowsBoxes
<1> QED
  BY <1>1, <1>2 DEF NextFrame, ImagesResolved, NothingOutlives, Pending

LEMMA ProcessStep ==
  ASSUME IInv, Process
  PROVE  IInv'
<1> DEFINE f == frame + 1
           New == {[box |-> b, frame |-> f, image |-> None] : b \in {x \in video[f] : Fresh(x)}}
<1>1. /\ NextFrame /\ ShowsBoxes(f) /\ prev' = video[f] /\ detections' = detections \cup New
      /\ upload' \in {upload, [upload EXCEPT ![f] = "queued"]}
      /\ UNCHANGED <<video, phase>>
  BY DEF Process
<1>2. frame' = f /\ f \in Frames /\ f \in 0 .. NumFrames
  BY <1>1, NextFrameType DEF IInv
<1>3. Sampled(f) /\ video[f] \subseteq Boxes
  BY <1>1, <1>2, FoundType DEF IInv
<1>4. TypeOK'
  <2>1. New \subseteq [box : Boxes, frame : Frames, image : Frames \cup {None}]
    BY <1>2, <1>3
  <2> QED
    BY <1>1, <1>2, <1>3, <2>1 DEF IInv, TypeOK
<1>5. AllDetected'
  <2> SUFFICES ASSUME Skip > 1 PROVE AllDetected'
    BY DEF AllDetected
  <2>1. frame \in Nat
    BY DEF IInv, TypeOK
  <2>2. prev = {}
    BY <1>3, <2>1, SamplesApart DEF IInv, PrevInv
  <2>3. {<<d.box, d.frame>> : d \in New} = {<<b, f>> : b \in video[f] \ Excluded}
    <3>1. {x \in video[f] : Fresh(x)} = video[f] \ Excluded
      BY <2>2 DEF Fresh
    <3>2. New = {[box |-> b, frame |-> f, image |-> None] : b \in video[f] \ Excluded}
      BY <3>1
    <3> HIDE DEF New, f
    <3>3. \A d \in New : d.box \in video[f] \ Excluded /\ d.frame = f
      BY <3>2
    <3>4. ASSUME NEW b \in video[f] \ Excluded PROVE \E d \in New : d.box = b /\ d.frame = f
      <4>1. [box |-> b, frame |-> f, image |-> None] \in New
        BY <3>2
      <4> QED
        BY <4>1
    <3> QED
      BY <3>3, <3>4
  <2>4. {<<d.box, d.frame>> : d \in detections'}
          = {<<d.box, d.frame>> : d \in detections} \cup {<<d.box, d.frame>> : d \in New}
    BY <1>1
  <2>5. {p \in (Boxes \ Excluded) \X (1 .. f) : ShowsBoxes(p[2]) /\ p[1] \in video[p[2]]}
          = {p \in (Boxes \ Excluded) \X (1 .. frame) : ShowsBoxes(p[2]) /\ p[1] \in video[p[2]]}
              \cup {<<b, f>> : b \in video[f] \ Excluded}
    <3>1. 1 .. f = (1 .. frame) \cup {f}
      BY <2>1
    <3> QED
      BY <1>1, <1>3, <3>1
  <2> QED
    BY <1>1, <1>2, <2>3, <2>4, <2>5 DEF IInv, AllDetected, ShowsBoxes
<1>6. VideoOK' /\ PrevInv'
  BY <1>1, <1>2, <1>3 DEF IInv, VideoOK, PrevInv
<1> QED
  BY <1>1, <1>4, <1>5, <1>6 DEF IInv, NextFrame, ImagesResolved, NothingOutlives

(* The steps after the loop, and those of the threads, look at no frame.     *)
LEMMA EndStep ==
  ASSUME IInv, Fails \/ EndOfVideo \/ Unwind
  PROVE  IInv'
<1> USE DEF IInv, Fails, EndOfVideo, Unwind
<1>1. TypeOK' /\ VideoOK' /\ PrevInv'
  BY DEF TypeOK, VideoOK, PrevInv
<1>2. AllDetected'
  BY DEF AllDetected, ShowsBoxes
<1> QED
  BY <1>1, <1>2 DEF ImagesResolved, NothingOutlives, Pending

LEMMA ResolveStep ==
  ASSUME IInv, Resolve
  PROVE  IInv'
<1> DEFINE Entered(d) ==
      [d EXCEPT !.image = IF upload[d.frame] = "stored" THEN d.frame ELSE None]
<1>1. /\ Pending = {} /\ phase' = "returned"
      /\ detections' = {Entered(d) : d \in detections}
      /\ UNCHANGED <<video, frame, prev, upload>>
  BY DEF Resolve
<1>2. \A d \in detections :
        /\ Entered(d) \in [box : Boxes, frame : Frames, image : Frames \cup {None}]
        /\ Entered(d).box = d.box /\ Entered(d).frame = d.frame
        /\ Entered(d).image = IF upload[d.frame] = "stored" THEN d.frame ELSE None
  BY DEF IInv, TypeOK
<1> HIDE DEF Entered
<1>3. TypeOK' /\ VideoOK' /\ PrevInv'
  BY <1>1, <1>2 DEF IInv, TypeOK, VideoOK, PrevInv
<1>4. AllDetected'
  <2>1. {<<d.box, d.frame>> : d \in detections'} = {<<d.box, d.frame>> : d \in detections}
    BY <1>1, <1>2
  <2> QED
    BY <1>1, <2>1 DEF IInv, AllDetected, ShowsBoxes
<1>5. ImagesResolved'
  BY <1>1, <1>2 DEF ImagesResolved
<1> QED
  BY <1>1, <1>3, <1>4, <1>5 DEF IInv, NothingOutlives, Pending

LEMMA UploadStep ==
  ASSUME IInv, NEW f \in Frames, StartUpload(f) \/ EndUpload(f)
  PROVE  IInv'
<1>1. f \in Pending /\ UNCHANGED <<video, frame, prev, detections, phase>>
  BY DEF StartUpload, EndUpload, Pending
<1>2. phase \notin {"returned", "raised"}
  BY <1>1 DEF IInv, NothingOutlives
<1>3. TypeOK'
  BY DEF IInv, TypeOK, StartUpload, EndUpload
<1>4. AllDetected' /\ VideoOK' /\ PrevInv'
  BY <1>1 DEF IInv, AllDetected, VideoOK, PrevInv, ShowsBoxes
<1> QED
  BY <1>1, <1>2, <1>3, <1>4 DEF IInv, ImagesResolved, NothingOutlives

LEMMA IInvStep == IInv /\ [Next]_vars => IInv'
<1> SUFFICES ASSUME IInv, [Next]_vars PROVE IInv'
  OBVIOUS
<1>1. CASE UNCHANGED vars
  BY <1>1 DEF vars, IInv, TypeOK, VideoOK, PrevInv, AllDetected, ShowsBoxes, ImagesResolved,
              NothingOutlives, Pending
<1> QED
  BY <1>1, PassOverStep, ProcessStep, EndStep, ResolveStep, UploadStep DEF Next

(* IInv is an invariant: the step of every theorem below. *)
LEMMA Inductive == Spec => []IInv
  BY IInvInitially, IInvStep, PTL DEF Spec

(* The variables of build keep their types: in particular no frame beyond    *)
(* the last one is looked at.                                                *)
THEOREM TypeCorrect == Spec => []TypeOK
<1>1. IInv => TypeOK
  BY DEF IInv
<1> QED
  BY <1>1, Inductive, PTL

(* Whatever the model finds and whichever boxes overlap: with frames skipped *)
(* between the samples no box of a good sample is dropped but those of the   *)
(* excluded classes.                                                         *)
THEOREM NothingDropped == Spec => []AllDetected
<1>1. IInv => AllDetected
  BY DEF IInv
<1> QED
  BY <1>1, Inductive, PTL

(* The batch that build returns has the image of every detection whose frame *)
(* was stored, for every size of the pool and every order of the uploads.    *)
THEOREM ImagesEntered == Spec => []ImagesResolved
<1>1. IInv => ImagesResolved
  BY DEF IInv
<1> QED
  BY <1>1, Inductive, PTL

(* build returns or raises only when its upload threads are done.            *)
THEOREM UploadsEnd == Spec => []NothingOutlives
<1>1. IInv => NothingOutlives
  BY DEF IInv
<1> QED
  BY <1>1, Inductive, PTL
=============================================================================
