--------------------------- MODULE MCFrameDetection ---------------------------
(* Instance of FrameDetection for TLC: two boxes that overlap each other, and *)
(* a road marking.                                                            *)
EXTENDS FrameDetection

CONSTANTS hole, samehole, marking

SomeOverlap ==
  {<<hole, hole>>, <<hole, samehole>>, <<samehole, hole>>, <<samehole, samehole>>,
   <<marking, marking>>}
=============================================================================
