--------------------------- MODULE WaylandWatchdog ---------------------------
(***************************************************************************)
(* The self-heal watchdog of the boards that run under a compositor:       *)
(* _wayland_output_watchdog() of src/anthias_viewer/__init__.py and the    *)
(* budget of restarts it keeps in a file. asset_loop() calls it at every   *)
(* turn. Cage, the compositor, enumerates displays when its container      *)
(* starts and never again; the watchdog restarts the container when a      *)
(* display is connected and cage has no output.                            *)
(*                                                                         *)
(* The definitions that every module has carry a prefix here, because the  *)
(* proofs extend this module together with GstPlayer and VideoSurface.     *)
(***************************************************************************)
EXTENDS Integers

CONSTANTS
  MaxRestarts,     \* WAYLAND_MAX_RECOVERY_RESTARTS
  Grace,           \* WAYLAND_OUTPUT_GRACE_S, in units of the clock
  WatchdogFaults,  \* what may fail: "probe" (wlr-randr is not run), "open" (the
                   \* file is not opened for writing), "torn" (it is, which
                   \* truncates it, and is then not written)
  Displays,        \* what may be plugged in: "none", "good", or "dead", a
                   \* connector cage can never bind
  MaxBoots,        \* bound: boots of the device
  MaxEpisodes      \* bound: how often an episode ends, see EpisodeEnds

ASSUME BudgetAssumption == MaxRestarts \in Nat /\ Grace \in Nat \ {0}
ASSUME WatchdogFaultAssumption == WatchdogFaults \subseteq {"probe", "open", "torn"}
ASSUME DisplayAssumption ==
  Displays \subseteq {"none", "good", "dead"} /\ Displays # {}
ASSUME EpisodeAssumption == MaxBoots \in Nat \ {0} /\ MaxEpisodes \in Nat

VARIABLES
  display,   \* what is plugged in
  bound,     \* cage owns an output
  age,       \* how long ago _headless_wedge_since was, -1 for None
  gaveUp,    \* _recovery_gave_up_logged
  file,      \* .wayland_recovery; boot 0 stands for a file json cannot read
  boot,      \* the boot id
  spent,     \* history: recovery restarts since the last episode ended
  total,     \* history: recovery restarts in this boot
  episodes     \* history: episodes ended with something to clear

watchdogVars == <<display, bound, age, gaveUp, file, boot, spent, total, episodes>>

Corrupt == [boot |-> 0, restarts |-> 0]

\* _recovery_restarts_this_boot()
Restarts == IF file.boot = boot THEN file.restarts ELSE 0

\* The outcomes of writing c to the file: the write is done, or fails.
Written(c) == file' = c
WriteFails == \E f \in WatchdogFaults \cap {"open", "torn"} :
                file' = IF f = "open" THEN file ELSE Corrupt

Unwedged == age' = -1

\* _reset_recovery_restarts(); a write that fails is only logged.
ResetRestarts ==
  /\ gaveUp' = FALSE
  /\ IF Restarts = 0 THEN UNCHANGED file
     ELSE Written([boot |-> boot, restarts |-> 0]) \/ WriteFails

\* What ends an episode: nothing is connected, cage has an output, or it
\* could not be asked. An episode ends at most MaxEpisodes times.
EpisodeEnds ==
  /\ Unwedged
  /\ ResetRestarts
  /\ spent' = 0
  /\ episodes' = IF spent > 0 THEN episodes + 1 ELSE episodes
  /\ episodes' <= MaxEpisodes
  /\ UNCHANGED <<display, bound, boot, total>>

NothingConnected == display = "none" /\ EpisodeEnds
Bound == display # "none" /\ bound /\ EpisodeEnds
ProbeFails == display # "none" /\ "probe" \in WatchdogFaults /\ EpisodeEnds

Wedged == display # "none" /\ ~bound

\* The first turn that finds cage without an output starts the timer.
WedgeSeen ==
  /\ Wedged /\ age = -1
  /\ age' = 0
  /\ UNCHANGED <<display, bound, gaveUp, file, boot, spent, total, episodes>>

GiveUp ==
  /\ Wedged /\ age >= Grace
  /\ Restarts >= MaxRestarts
  /\ gaveUp' = TRUE
  /\ UNCHANGED <<display, bound, age, file, boot, spent, total, episodes>>

\* The count cannot be stored, and there is no restart.
RecordFails ==
  /\ Wedged /\ age >= Grace
  /\ Restarts < MaxRestarts
  /\ WriteFails
  /\ UNCHANGED <<display, bound, age, gaveUp, boot, spent, total, episodes>>

\* Mutant: one restart too many.
RecoverOnceMore ==
  /\ Wedged /\ age >= Grace
  /\ Restarts <= MaxRestarts
  /\ Written([boot |-> boot, restarts |-> Restarts + 1])
  /\ age' = -1 /\ gaveUp' = FALSE
  /\ bound' = (display = "good")
  /\ spent' = spent + 1 /\ total' = total + 1
  /\ UNCHANGED <<display, boot, episodes>>

\* Mutant: the last restart of the budget is not used.
RecoverOnceLess ==
  /\ Wedged /\ age >= Grace
  /\ Restarts < MaxRestarts - 1
  /\ Written([boot |-> boot, restarts |-> Restarts + 1])
  /\ age' = -1 /\ gaveUp' = FALSE
  /\ bound' = (display = "good")
  /\ spent' = spent + 1 /\ total' = total + 1
  /\ UNCHANGED <<display, boot, episodes>>

\* _record_recovery_restart() and sys.exit(1): the container starts again,
\* and cage with it.
Recover ==
  /\ Wedged /\ age >= Grace
  /\ Restarts < MaxRestarts
  /\ Written([boot |-> boot, restarts |-> Restarts + 1])
  /\ age' = -1 /\ gaveUp' = FALSE
  /\ bound' = (display = "good")
  /\ spent' = spent + 1 /\ total' = total + 1
  /\ UNCHANGED <<display, boot, episodes>>

Watchdog ==
  \/ NothingConnected \/ Bound \/ ProbeFails
  \/ WedgeSeen \/ GiveUp \/ RecordFails \/ Recover

-----------------------------------------------------------------------------
(* The world *)

\* The monotonic clock, as far as the grace window tells instants apart
Tick ==
  /\ age \in 0..Grace - 1
  /\ age' = age + 1
  /\ UNCHANGED <<display, bound, gaveUp, file, boot, spent, total, episodes>>

\* A display is plugged in, switched on or off: cage loses its output, and
\* does not hear of a new one.
Plug(d) ==
  /\ display # d
  /\ display' = d
  /\ bound' = FALSE
  /\ UNCHANGED <<age, gaveUp, file, boot, spent, total, episodes>>

\* The viewer dies of something else, and the container starts again.
Crash ==
  /\ age' = -1 /\ gaveUp' = FALSE
  /\ bound' = (display = "good")
  /\ UNCHANGED <<display, file, boot, spent, total, episodes>>

Reboot ==
  /\ boot < MaxBoots
  /\ boot' = boot + 1
  /\ age' = -1 /\ gaveUp' = FALSE
  /\ bound' = (display = "good")
  /\ spent' = 0 /\ total' = 0 /\ episodes' = 0
  /\ UNCHANGED <<display, file>>

WatchdogInit ==
  /\ display \in Displays
  /\ bound = (display = "good")
  /\ age = -1 /\ gaveUp = FALSE
  /\ file = Corrupt /\ boot = 1
  /\ spent = 0 /\ total = 0 /\ episodes = 0

WatchdogNext ==
  \/ Watchdog \/ Tick \/ Crash \/ Reboot
  \/ \E d \in Displays : Plug(d)

WatchdogSpec == WatchdogInit /\ [][WatchdogNext]_watchdogVars

\* asset_loop() goes on, now and then wlr-randr answers for a whole grace
\* window, and the file can be written. Nothing is owed of the display, the
\* viewer or the device.
WatchdogFairSpec ==
  /\ WatchdogSpec
  /\ WF_watchdogVars(WedgeSeen)
  /\ \A t \in 0..Grace - 1 : SF_watchdogVars(age = t /\ Tick)
  /\ SF_watchdogVars(Recover)

-----------------------------------------------------------------------------
(* Properties *)

\* Every variable has its type.
WatchdogTypeOK ==
  /\ display \in Displays
  /\ bound \in BOOLEAN /\ gaveUp \in BOOLEAN
  /\ age \in -1..Grace
  /\ file \in [boot : 0..MaxBoots, restarts : 0..MaxRestarts]
  /\ boot \in 1..MaxBoots
  /\ spent \in Nat /\ total \in Nat /\ episodes \in 0..MaxEpisodes

\* "Crash-loop safety is the load-bearing part": without a reading that ends
\* the episode the watchdog restarts the container at most MaxRestarts times
\* per boot, however often the viewer crashes on the way, the file is not
\* writable, or the display changes between two turns.
RestartsAreCapped == spent <= MaxRestarts

\* The budget is what the file says, or less: no restart goes unrecorded.
RestartsAreRecorded == spent <= Restarts

\* A good display that cage has not bound is bound in the end, as long as it
\* stays and the budget lasts.
GoodDisplayBinds ==
  (display = "good" /\ ~bound /\ Restarts < MaxRestarts)
    ~> (bound \/ display # "good" \/ Restarts >= MaxRestarts)

\* Docstring of _wayland_output_watchdog(): "Restarts are capped per boot at
\* WAYLAND_MAX_RECOVERY_RESTARTS", for "a connector we can never bind".
DeadDisplayIsCapped == total <= MaxRestarts

=============================================================================
