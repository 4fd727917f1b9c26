--------------------------- MODULE MCReachability ---------------------------
(* Instances of Reachability for TLC. *)
EXTENDS Reachability

CONSTANTS w1, w2, a1, up, down

=============================================================================
