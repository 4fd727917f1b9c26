----------------------------- MODULE MCPlayback ------------------------------
(* Instances of Playback for TLC. *)
EXTENDS Playback

CONSTANTS i1, i2, w1, v1, o1

\* The assets are named after their kinds.
MCKind ==
  [a \in Asset |-> CASE a \in {i1, i2} -> "image"
                     [] a = w1 -> "web"
                     [] a = v1 -> "video"
                     [] a = o1 -> "other"]

=============================================================================
