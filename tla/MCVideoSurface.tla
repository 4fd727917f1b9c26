--------------------------- MODULE MCVideoSurface ---------------------------
(* Instances of VideoSurface for TLC. *)
EXTENDS VideoSurface

=============================================================================
