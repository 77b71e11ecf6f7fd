------------------------------- MODULE GpsTrack -------------------------------
(***************************************************************************)
(* Where a detection is: the GPS track of a ride, as gps_processor.py,      *)
(* geo_sync.py and the script reprocess_gps_coords.py read it.  A track is  *)
(* a sequence of samples [t, x]: t is the time stamp or None, x the place,  *)
(* a point of a line.  Times are integers, and so is what is interpolated.  *)
(***************************************************************************)
EXTENDS Integers, Sequences, FiniteSets

CONSTANTS
  Epoch,     \* 1 000 000: a larger time stamp counts milliseconds
  PerSecond, \* 1000 of its units are a second
  Still,     \* STATIONARY_THRESHOLD_METERS
  None

Stamped(track) == {i \in DOMAIN track : track[i].t # None}

(* is_already_normalized looks at the first five samples only. *)
IsNormalized(track) == \A i \in Stamped(track) : i <= 5 => track[i].t <= Epoch

(* normalize_gps_timestamps: a sample without a time stamp gets second 0. *)
Normalize(track) ==
  IF Stamped(track) = {} THEN track
  ELSE LET first == track[CHOOSE i \in Stamped(track) : \A j \in Stamped(track) : i <= j].t
       IN  [i \in DOMAIN track |->
             [t |-> IF track[i].t = None THEN 0 ELSE (track[i].t - first) \div PerSecond,
              x |-> track[i].x]]

(* The samples that have a time stamp, by a stable sort on it. *)
Sorted(track) ==
  LET NotAfter(i) == {j \in Stamped(track) : \/ track[j].t < track[i].t
                                             \/ track[j].t = track[i].t /\ j <= i}
  IN  [n \in 1 .. Cardinality(Stamped(track)) |->
        track[CHOOSE i \in Stamped(track) : Cardinality(NotAfter(i)) = n]]

(* bisect_left: how many of the sorted samples are earlier. *)
Earlier(s, time) == Cardinality({n \in DOMAIN s : s[n].t < time})

(* interpolate_sample and interpolate_coordinate_at_time: outside the track *)
(* its first or its last place.                                             *)
Interpolate(track, time) ==
  LET s == Sorted(track)
      pos == Earlier(s, time) IN
  IF s = <<>> THEN None
  ELSE IF pos = 0 THEN s[1].x
  ELSE IF pos = Len(s) THEN s[pos].x
  ELSE s[pos].x +
       ((time - s[pos].t) * (s[pos + 1].x - s[pos].x)) \div (s[pos + 1].t - s[pos].t)

(* _closest_index: of two samples as close the earlier one. *)
Closest(s, time) ==
  LET pos == Earlier(s, time) IN
  IF pos = 0 THEN 1
  ELSE IF pos = Len(s) \/ time - s[pos].t <= s[pos + 1].t - time THEN pos
  ELSE pos + 1

Apart(a, b) == IF a < b THEN b - a ELSE a - b

(* estimate_heading, from the places alone: 1 and -1 are the directions of  *)
(* the line.  A short track, or one that hardly moves, has no heading.      *)
Heading(s, idx) ==
  LET a == IF idx = 1 THEN 1 ELSE idx - 1
      b == IF idx = Len(s) THEN idx ELSE idx + 1 IN
  IF \/ Len(s) < 5
     \/ Apart(s[1].x, s[Len(s)].x) < Still
     \/ Apart(s[a].x, s[b].x) < Still
  THEN None
  ELSE IF s[a].x < s[b].x THEN 1 ELSE -1

(* project_detection_to_gps and offset_lat_lng: a detection seen ahead of   *)
(* the place of the camera lies there along the heading, if there is one.   *)
Project(track, time, ahead) ==
  LET base == Interpolate(track, time)
      heading == Heading(Sorted(track), Closest(Sorted(track), time)) IN
  IF ahead = 0 \/ heading = None THEN base ELSE base + heading * ahead

(* is_stationary_gps_track: it is neighbouring samples that are compared,   *)
(* so a slow ride, or one sampled often, is stationary however far it goes. *)
Stationary(track) ==
  \A i \in 2 .. Len(track) : Apart(track[i - 1].x, track[i].x) < Still

Median(track) ==
  LET Below(x) == Cardinality({i \in DOMAIN track : track[i].x < x})
      UpTo(x) == Cardinality({i \in DOMAIN track : track[i].x <= x}) IN
  CHOOSE x \in {track[i].x : i \in DOMAIN track} :
    Below(x) <= Len(track) \div 2 /\ Len(track) \div 2 < UpTo(x)

(* _get_detection_coords: every detection of a stationary ride is at the    *)
(* median of its track.                                                     *)
Located(track, time, ahead) ==
  IF Stationary(track) THEN Median(track) ELSE Project(track, time, ahead)
=============================================================================
