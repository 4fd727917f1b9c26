-------------------------- MODULE MCViewerCommands --------------------------
(* Instances of ViewerCommands for TLC. *)
EXTENDS ViewerCommands

=============================================================================
