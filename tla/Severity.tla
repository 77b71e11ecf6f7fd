------------------------------- MODULE Severity -------------------------------
(***************************************************************************)
(* How bad a pothole is, severity.py: 0, 1 and 2 are Minor, Moderate and    *)
(* Severe.  Areas are in hundredths of a square metre, shares of the frame  *)
(* in hundredths of a percent, distances in tenths of a metre, confidences  *)
(* in percent, and None is an unknown value.                                *)
(***************************************************************************)
EXTENDS Integers

CONSTANT None

Severities == 0 .. 2

(* area_to_severity, "lower-inclusive": SEVERITY_MINOR_AREA_M2 is 0.03,     *)
(* SEVERITY_MODERATE_AREA_M2 is 0.17.                                       *)
AreaSeverity(area) ==
  IF area = None \/ area < 3 THEN 0 ELSE IF area < 17 THEN 1 ELSE 2

(* frame_area_pct_to_severity: the share seen from the reference distance,  *)
(* 10 m, is at least 2 % for Moderate and more than 6 % for Severe.         *)
FrameShare(share, distance) ==
  IF distance # None /\ distance > 1
  THEN (share * distance * distance + 5000) \div 10000
  ELSE share

FrameSeverity(share, distance) ==
  LET seen == FrameShare(share, distance) IN
  IF seen < 200 THEN 0 ELSE IF seen <= 600 THEN 1 ELSE 2

(* _severity_from_value, of tenths. *)
Quantized(value) == IF value < 5 THEN 0 ELSE IF value < 15 THEN 1 ELSE 2

(* fuse_severity: IPM_SEVERITY_WEIGHT is 0.70, CONFIDENCE_MODERATE_CAP 0.25 *)
(* and CONFIDENCE_SEVERE_CAP 0.50.                                          *)
Fuse(ipm, frame, confidence) ==
  LET blended == Quantized(7 * ipm + 3 * frame)
      sure == IF confidence = None THEN 0 ELSE confidence IN
  IF sure < 25 THEN 0
  ELSE IF sure < 50 /\ blended > 1 THEN 1
  ELSE blended

(* escalate_severity. *)
Escalate(current, incoming) == IF incoming >= current THEN incoming ELSE current
=============================================================================
