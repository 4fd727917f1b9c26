------------------------------ MODULE MCDisplay ------------------------------
(***************************************************************************)
(* Instances of two parts of the viewer that are on different boards: the  *)
(* media player of linuxfb, and the output watchdog of the compositor.     *)
(***************************************************************************)
EXTENDS GstPlayer, WaylandWatchdog

VARIABLE board

\* What a board does not have stays in one of its initial states.
MCInit ==
  /\ board \in {"linuxfb", "wayland"}
  /\ GstInit /\ WatchdogInit
  /\ board # "wayland" => display = CHOOSE d \in Displays : TRUE

MCNext ==
  \/ board = "linuxfb" /\ GstNext /\ UNCHANGED <<watchdogVars, board>>
  \/ board = "wayland" /\ WatchdogNext /\ UNCHANGED <<gstVars, board>>

\* The fairness of WatchdogFairSpec
MCSpec ==
  /\ MCInit /\ [][MCNext]_<<gstVars, watchdogVars, board>>
  /\ WF_watchdogVars(board = "wayland" /\ WedgeSeen)
  /\ \A t \in 0..Grace - 1 : SF_watchdogVars(board = "wayland" /\ age = t /\ Tick)
  /\ SF_watchdogVars(board = "wayland" /\ Recover)

=============================================================================
