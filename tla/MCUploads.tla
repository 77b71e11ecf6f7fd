------------------------------ MODULE MCUploads ------------------------------
(* Instances of Uploads for TLC. *)
EXTENDS Uploads, TLC

CONSTANTS q1, q2, u1, r1, r2
=============================================================================
