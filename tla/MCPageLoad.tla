----------------------------- MODULE MCPageLoad ------------------------------
(* Instances of PageLoad for TLC. *)
EXTENDS PageLoad

CONSTANTS p1, p2, i1, i2, v1, h1

=============================================================================
