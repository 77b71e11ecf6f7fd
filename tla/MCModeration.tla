----------------------------- MODULE MCModeration -----------------------------
(* Instances of Moderation for TLC. *)
EXTENDS Moderation, TLC

CONSTANTS u1, u2, u3

Symmetry == Permutations(Users \ {Owner})

(* Without adminHid, which only AdminHideStands reads. *)
NoDecision == <<post, reports, votes, told, call, last, alone, overlapped>>
=============================================================================
