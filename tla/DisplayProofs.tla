--------------------------- MODULE DisplayProofs ---------------------------
(***************************************************************************)
(* Proofs about the parts of the viewer that put something on a display:   *)
(* the media player of the linuxfb boards (GstPlayer), the output watchdog *)
(* of the Wayland boards (WaylandWatchdog) and the video surface of the    *)
(* webview (VideoSurface), which share nothing but the subject.            *)
(*                                                                         *)
(* GstPlayer, for any number of videos and resets: the framebuffer is      *)
(* released as long as no reset() overlaps a statement of the main thread. *)
(* The argument follows the one process that may run: it is the one that   *)
(* _proc of the player names (Held), from its start until it is reaped. A  *)
(* reset() during the wait of a video stops that very player (MainInv), so *)
(* the stop() that follows the wait finds nothing left to end.             *)
(*                                                                         *)
(* WaylandWatchdog, for every budget, grace window and set of displays and *)
(* faults: the watchdog cannot make the device restart for ever within an  *)
(* episode, provided that a write which fails leaves the file as it was.   *)
(* RestartsAreCapped is not inductive: what holds the watchdog back is the *)
(* number in the file. That this number is at least the number of restarts *)
(* (RestartsAreRecorded), and at most the budget (WatchdogTypeOK), is.     *)
(*                                                                         *)
(* VideoSurface, for any boards and faults and any number of sessions and  *)
(* frames: nothing that was stopped returns to the screen, unless a queued *)
(* call of QMediaPlayer brings it, the sound belongs to the picture, and   *)
(* no more drains are queued than there were sessions. What is queued is   *)
(* the strengthening: each call carries a frame of a session that was not  *)
(* stopped, or one that was queued already when it was (Sources).          *)
(***************************************************************************)
EXTENDS GstPlayer, WaylandWatchdog, VideoSurface, TLAPS

\* Whatever runs is the process that the player of the thread holds.
Held(t) == alive \subseteq {procOf[self[t]]}

\* play(), the wait and stop() are those of a player, never of None.
OnPlayer ==
  \A t \in Thread : pc[t] \in InStop \cup {"popen", "assign", "wait"} => self[t] \in Player

\* Inside stop(), what runs is held until it is reaped.
StopInv(t) ==
  /\ pc[t] \in InStop \ {"clear"} => Held(t)
  /\ pc[t] = "clear" => alive = {}
  /\ pc[t] = "reap" => procOf[self[t]] \in signalled

\* The main thread: nothing runs outside a video; during it, what runs is held
\* by its player, which is still the one that a reset() would stop.
MainInv ==
  /\ pc["main"] \in {"idle", "return", "popen"} => alive = {}
  /\ pc["main"] = "assign" => alive \subseteq {child}
  /\ pc["main"] = "wait" => /\ Held("main")
                            /\ instance \in {0, self["main"]}
                            /\ instance = 0 => alive = {}
  /\ pc["main"] \in {"popen", "assign"} => instance = self["main"]
  /\ pc["main"] \in InStop => /\ back["main"] \in {"popen", "idle"}
                              /\ back["main"] = "popen" => instance = self["main"]
  /\ pc["main"] # "drop"

\* The subscriber thread: it stops the player that is the current one.
SubInv ==
  /\ pc["sub"] \in InStop \cup {"idle", "drop"}
  /\ pc["sub"] # "idle" => pc["main"] \in {"idle", "wait"}
  /\ pc["sub"] \in InStop => instance = self["sub"] /\ back["sub"] = "drop"
  /\ pc["sub"] = "drop" => alive = {}

Ordered == StopInv("main") /\ StopInv("sub") /\ MainInv /\ SubInv

Typed == GstTypeOK /\ OnPlayer

IInv == Typed /\ (~raced => Ordered)

-----------------------------------------------------------------------------
(* Types *)

\* The states of the beginning satisfy the invariant.
LEMMA GstInitInv == GstInit => IInv
<1> SUFFICES ASSUME GstInit PROVE IInv
  OBVIOUS
<1>1. GstTypeOK
  <2>1. 0 \in 0..MaxVideos /\ 0 \in 0..MaxResets
    BY GstBoundAssumption
  <2>2. pc \in [Thread -> {"idle"}] /\ back \in [Thread -> {"idle"}]
    BY DEF GstInit
  <2> QED BY <2>1, <2>2 DEF GstInit, GstTypeOK
<1>2. \A t \in Thread : pc[t] = "idle"
  BY DEF GstInit
<1>3. OnPlayer
  BY <1>2 DEF OnPlayer, InStop
<1>4. Ordered
  BY <1>2 DEF GstInit, Ordered, StopInv, MainInv, SubInv, InStop, Thread
<1> QED BY <1>1, <1>3, <1>4 DEF IInv, Typed

\* A number that is left to a player or a process is one of the bound.
LEMMA NextNumber ==
  ASSUME NEW n \in 0..MaxVideos, n < MaxVideos
  PROVE  n + 1 \in 1..MaxVideos /\ n + 1 \in 0..MaxVideos
BY GstBoundAssumption

\* Every step keeps the types, and the calls on a player.
LEMMA TypeStep ==
  ASSUME Typed, [GstNext]_gstVars PROVE Typed'
<1> USE DEF Typed, GstTypeOK, OnPlayer, Player, Process
<1>1. ASSUME NEW t \in Thread, NEW l \in InStop \cup {"idle", "return", "popen",
                "assign", "wait", "crashed", "drop"}, Goto(t, l)
      PROVE  /\ pc' \in [Thread -> InStop \cup {"idle", "return", "popen", "assign",
                                                "wait", "crashed", "drop"}]
             /\ pc' = [pc EXCEPT ![t] = l]
             /\ raced' \in BOOLEAN
  BY <1>1 DEF Goto, Quiet, Thread
<1>2. "main" \in Thread /\ "sub" \in Thread
  BY DEF Thread
<1>3. CASE GetInstance
  <2>1. instance' \in {0} \cup 1..MaxVideos /\ made' \in 0..MaxVideos
    BY <1>3, NextNumber, GstBoundAssumption DEF GetInstance
  <2> QED BY <1>1, <1>2, <1>3, <2>1 DEF GetInstance, InStop, counters
<1>4. CASE ReturnInstance
  BY <1>1, <1>2, <1>4 DEF ReturnInstance, InStop, counters
<1>5. CASE Popen
  <2>1. plays + 1 \in 1..MaxVideos /\ plays + 1 \in 0..MaxVideos
    BY <1>5, NextNumber, GstBoundAssumption DEF Popen
  <2> QED BY <1>1, <1>2, <1>5, <2>1 DEF Popen, InStop, counters
<1>6. CASE PopenFails
  BY <1>1, <1>2, <1>6 DEF PopenFails, InStop, counters
<1>7. CASE Assign
  <2>1. procOf' \in [Player -> {0} \cup Process]
    BY <1>7 DEF Assign
  <2>2. OnPlayer'
    BY <1>1, <1>2, <1>7 DEF Assign, InStop
  <2> QED BY <1>1, <1>2, <1>7, <2>1, <2>2 DEF Assign, InStop, counters
<1>8. CASE WaitEnds
  <2>1. back' \in [Thread -> {"idle", "popen", "drop"}]
    BY <1>8 DEF WaitEnds
  <2>2. OnPlayer'
    BY <1>1, <1>2, <1>8 DEF WaitEnds, InStop
  <2> QED BY <1>1, <1>2, <1>8, <2>1, <2>2 DEF WaitEnds, InStop, counters
<1>9. CASE Reset
  <2>1. resets' \in 0..MaxResets
    BY <1>9, GstBoundAssumption DEF Reset
  <2> QED BY <1>1, <1>2, <1>9, <2>1 DEF Reset, InStop, counters
<1>10. CASE Drop
  BY <1>1, <1>2, <1>10 DEF Drop, InStop, counters
<1>11. ASSUME NEW t \in Thread, StopCheck(t) PROVE Typed'
  <2>1. self[t] \in Player
    BY <1>11 DEF StopCheck, InStop
  <2> QED BY <1>1, <1>11, <2>1 DEF StopCheck, InStop, Error, counters
<1>12. ASSUME NEW t \in Thread, Poll(t) PROVE Typed'
  <2>1. self[t] \in Player
    BY <1>12 DEF Poll, InStop
  <2> QED BY <1>1, <1>12, <2>1 DEF Poll, InStop, Error, counters
<1>13. ASSUME NEW t \in Thread, Kill(t) PROVE Typed'
  <2>1. self[t] \in Player
    BY <1>13 DEF Kill, InStop
  <2>2. procOf[self[t]] \in {0} \cup Process
    BY <2>1
  <2>3. CASE procOf[self[t]] = 0
    BY <1>1, <1>13, <2>1, <2>3, ZenonT(120) DEF Kill, InStop, Error, counters
  <2>4. CASE procOf[self[t]] # 0
    <3>1. signalled' = signalled \cup {procOf[self[t]]} /\ Goto(t, "reap")
      BY <1>13, <2>4 DEF Kill
    <3>2. signalled' \subseteq Process
      BY <2>2, <2>4, <3>1
    <3> QED BY <1>1, <1>13, <2>1, <3>1, <3>2 DEF Kill, InStop, counters
  <2> QED BY <2>3, <2>4
<1>14. ASSUME NEW t \in Thread, Reap(t) PROVE Typed'
  <2>1. self[t] \in Player
    BY <1>14 DEF Reap, InStop
  <2> QED BY <1>1, <1>14, <2>1, ZenonT(120) DEF Reap, InStop, Error, counters
<1>15. ASSUME NEW t \in Thread, ClearProc(t) PROVE Typed'
  <2>1. self[t] \in Player
    BY <1>15 DEF ClearProc, InStop
  <2> QED BY <1>1, <1>15, <2>1 DEF ClearProc, InStop, Error, counters
<1>16. ASSUME NEW p \in Process, ProcessExits(p) PROVE Typed'
  BY <1>16 DEF ProcessExits, counters
<1>17. CASE UNCHANGED gstVars
  BY <1>17 DEF gstVars
<1> QED BY <1>3, <1>4, <1>5, <1>6, <1>7, <1>8, <1>9, <1>10, <1>11, <1>12, <1>13, <1>14, <1>15, <1>16, <1>17 DEF GstNext, StopPlayer

-----------------------------------------------------------------------------
(* The process that runs is held *)

\* As long as no reset() has overlapped a statement of the main thread, every step
\* leaves what runs in the hands of the thread that will end it.
LEMMA OrderStep ==
  ASSUME IInv, [GstNext]_gstVars, Typed', ~raced' PROVE Ordered'
<1> USE DEF IInv, Typed, GstTypeOK, OnPlayer, Ordered, StopInv, MainInv, SubInv, Held,
            InStop, Player, Process, Thread
<1>1. CASE GetInstance
  BY <1>1 DEF GetInstance, Goto, Quiet
<1>2. CASE ReturnInstance
  BY <1>2 DEF ReturnInstance, Goto, Quiet
<1>3. CASE Popen
  BY <1>3 DEF Popen, Goto, Quiet
<1>4. CASE PopenFails
  BY <1>4 DEF PopenFails, Goto, Quiet
<1>5. CASE Assign
  BY <1>5 DEF Assign, Goto, Quiet
<1>6. CASE WaitEnds
  BY <1>6 DEF WaitEnds, Goto, Quiet
<1>7. CASE Reset
  BY <1>7 DEF Reset, Goto, Quiet
<1>8. CASE Drop
  BY <1>8 DEF Drop, Goto, Quiet
<1>9. ASSUME NEW t \in Thread, StopCheck(t) PROVE Ordered'
  <2>1. CASE t = "main"
    BY <1>9, <2>1 DEF StopCheck, Goto, Quiet, Error
  <2>2. CASE t = "sub"
    BY <1>9, <2>2 DEF StopCheck, Goto, Quiet, Error
  <2> QED BY <2>1, <2>2 DEF Thread
<1>10. ASSUME NEW t \in Thread, Poll(t) PROVE Ordered'
  <2>1. CASE t = "main"
    BY <1>10, <2>1 DEF Poll, Goto, Quiet, Error
  <2>2. CASE t = "sub"
    BY <1>10, <2>2 DEF Poll, Goto, Quiet, Error
  <2> QED BY <2>1, <2>2 DEF Thread
<1>11. ASSUME NEW t \in Thread, Kill(t) PROVE Ordered'
  <2>1. CASE t = "main"
    BY <1>11, <2>1 DEF Kill, Goto, Quiet, Error
  <2>2. CASE t = "sub"
    BY <1>11, <2>2 DEF Kill, Goto, Quiet, Error
  <2> QED BY <2>1, <2>2 DEF Thread
<1>12. ASSUME NEW t \in Thread, Reap(t) PROVE Ordered'
  <2>1. CASE t = "main"
    BY <1>12, <2>1 DEF Reap, Goto, Quiet, Error
  <2>2. CASE t = "sub"
    BY <1>12, <2>2 DEF Reap, Goto, Quiet, Error
  <2> QED BY <2>1, <2>2 DEF Thread
<1>13. ASSUME NEW t \in Thread, ClearProc(t) PROVE Ordered'
  <2>1. CASE t = "main"
    BY <1>13, <2>1 DEF ClearProc, Goto, Quiet, Error
  <2>2. CASE t = "sub"
    BY <1>13, <2>2 DEF ClearProc, Goto, Quiet, Error
  <2> QED BY <2>1, <2>2 DEF Thread
<1>14. ASSUME NEW p \in Process, ProcessExits(p) PROVE Ordered'
  BY <1>14 DEF ProcessExits
<1>15. CASE UNCHANGED gstVars
  BY <1>15 DEF gstVars
<1> QED BY <1>1, <1>2, <1>3, <1>4, <1>5, <1>6, <1>7, <1>8, <1>9, <1>10, <1>11, <1>12, <1>13, <1>14, <1>15 DEF GstNext, StopPlayer

\* The invariant holds in every state.
LEMMA Invariance == GstSpec => []IInv
<1>1. IInv /\ [GstNext]_gstVars => IInv'
  BY TypeStep, OrderStep DEF IInv
<1> QED BY GstInitInv, <1>1, PTL DEF GstSpec

\* No GStreamer process runs when no video is shown, provided no reset() of the
\* player overlapped a get_instance(), play() or stop() of the main thread.
THEOREM Released == GstSpec => []FramebufferReleased
<1>1. IInv => FramebufferReleased
  BY DEF IInv, Ordered, MainInv, FramebufferReleased, Settled
<1> QED BY Invariance, <1>1, PTL

-----------------------------------------------------------------------------
(* The watchdog *)

WatchdogInv == WatchdogTypeOK /\ RestartsAreRecorded

\* The number in the file counts for at most the budget.
LEMMA RestartsType ==
  ASSUME WatchdogTypeOK PROVE Restarts \in 0..MaxRestarts
<1> USE BudgetAssumption, EpisodeAssumption
<1>1. file.restarts \in 0..MaxRestarts
  BY DEF WatchdogTypeOK
<1>2. 0 \in 0..MaxRestarts
  OBVIOUS
<1> QED BY <1>1, <1>2 DEF Restarts

\* The initial states satisfy the invariant.
LEMMA InitWatchdog ==
  WatchdogInit => WatchdogInv
<1> USE BudgetAssumption, EpisodeAssumption
<1> SUFFICES ASSUME WatchdogInit PROVE WatchdogInv
  OBVIOUS
<1> USE DEF WatchdogInit
<1>1. file \in [boot : 0..MaxBoots, restarts : 0..MaxRestarts]
  BY DEF Corrupt
<1>2. age \in -1..Grace /\ boot \in 1..MaxBoots /\ episodes \in 0..MaxEpisodes
  OBVIOUS
<1>3. bound \in BOOLEAN /\ gaveUp \in BOOLEAN
  OBVIOUS
<1>4. RestartsAreRecorded
  BY DEF RestartsAreRecorded, Restarts, Corrupt
<1> QED BY <1>1, <1>2, <1>3, <1>4 DEF WatchdogInv, WatchdogTypeOK

\* A count that fits the budget can be written.
LEMMA CountType ==
  ASSUME WatchdogTypeOK, NEW n \in 0..MaxRestarts
  PROVE  [boot |-> boot, restarts |-> n]
           \in [boot : 0..MaxBoots, restarts : 0..MaxRestarts]
<1> USE BudgetAssumption, EpisodeAssumption
<1>1. boot \in 0..MaxBoots
  BY DEF WatchdogTypeOK
<1> QED BY <1>1

\* A write that fails and does not tear the file leaves it alone.
LEMMA FailedWrite ==
  ASSUME "torn" \notin WatchdogFaults, WriteFails PROVE file' = file
BY DEF WriteFails

\* The end of an episode clears the history, so that whatever the file says
\* is enough.
LEMMA EpisodeEndsInv ==
  ASSUME "torn" \notin WatchdogFaults, WatchdogInv, EpisodeEnds PROVE WatchdogInv'
<1> USE BudgetAssumption, EpisodeAssumption
<1> USE DEF WatchdogInv
<1>1. file' \in [boot : 0..MaxBoots, restarts : 0..MaxRestarts]
  <2>1. CASE file' = file
    BY <2>1 DEF WatchdogTypeOK
  <2>2. CASE file' = [boot |-> boot, restarts |-> 0]
    BY <2>2, CountType
  <2> QED
    BY <2>1, <2>2, FailedWrite DEF EpisodeEnds, ResetRestarts, Written
<1>2. spent' = 0 /\ age' = -1 /\ episodes' \in 0..MaxEpisodes
  BY DEF EpisodeEnds, Unwedged, WatchdogTypeOK
<1>3. gaveUp' \in BOOLEAN
  BY DEF EpisodeEnds, ResetRestarts
<1>4. WatchdogTypeOK'
  BY <1>1, <1>2, <1>3 DEF EpisodeEnds, WatchdogTypeOK
<1>5. RestartsAreRecorded'
  <2>1. file'.restarts \in Nat
    BY <1>1
  <2> QED BY <1>2, <2>1 DEF RestartsAreRecorded, Restarts
<1> QED BY <1>4, <1>5

\* A restart is recorded before it is made.
LEMMA RecoverInv ==
  ASSUME WatchdogInv, Recover PROVE WatchdogInv'
<1> USE BudgetAssumption, EpisodeAssumption
<1> USE DEF WatchdogInv
<1>1. Restarts + 1 \in 0..MaxRestarts /\ Restarts \in Nat
  BY RestartsType DEF Recover
<1>2. file' = [boot |-> boot, restarts |-> Restarts + 1]
  BY DEF Recover, Written
<1>3. file' \in [boot : 0..MaxBoots, restarts : 0..MaxRestarts]
  BY <1>1, <1>2, CountType
<1>4. bound' \in BOOLEAN /\ gaveUp' \in BOOLEAN
  BY DEF Recover
<1>5. age' \in -1..Grace /\ spent' \in Nat /\ total' \in Nat
  BY DEF Recover, WatchdogTypeOK
<1>6. WatchdogTypeOK'
  BY <1>3, <1>4, <1>5 DEF Recover, WatchdogTypeOK
<1>7. RestartsAreRecorded'
  <2>1. Restarts' = Restarts + 1
    BY <1>2 DEF Recover, Restarts
  <2>2. spent' = spent + 1 /\ spent \in Nat /\ spent <= Restarts
    BY DEF Recover, RestartsAreRecorded, WatchdogTypeOK
  <2> QED BY <1>1, <2>1, <2>2 DEF RestartsAreRecorded
<1> QED BY <1>6, <1>7

\* A new boot makes the count in the file void, and the history with it.
LEMMA RebootInv ==
  ASSUME WatchdogInv, Reboot PROVE WatchdogInv'
<1> USE BudgetAssumption, EpisodeAssumption
<1> USE DEF WatchdogInv
<1>1. boot' \in 1..MaxBoots /\ spent' = 0 /\ total' = 0 /\ episodes' = 0
  BY DEF Reboot, WatchdogTypeOK
<1>2. bound' \in BOOLEAN /\ gaveUp' \in BOOLEAN
  BY DEF Reboot
<1>3. WatchdogTypeOK'
  BY <1>1, <1>2 DEF Reboot, WatchdogTypeOK
<1>4. RestartsAreRecorded'
  <2>1. file' \in [boot : 0..MaxBoots, restarts : 0..MaxRestarts]
    BY <1>3 DEF WatchdogTypeOK
  <2>2. file'.restarts \in Nat
    BY <2>1
  <2> QED BY <1>1, <2>2 DEF RestartsAreRecorded, Restarts
<1> QED BY <1>3, <1>4

\* The steps that leave the file, the boot and the history alone.
LEMMA OtherInv ==
  ASSUME WatchdogInv, UNCHANGED <<file, boot, spent, total, episodes>>,
         age' \in -1..Grace, bound' \in BOOLEAN, gaveUp' \in BOOLEAN,
         display' \in Displays
  PROVE  WatchdogInv'
BY DEF WatchdogInv, WatchdogTypeOK, RestartsAreRecorded, Restarts

\* Every step keeps the invariant.
LEMMA WatchdogStep ==
  ASSUME "torn" \notin WatchdogFaults PROVE WatchdogInv /\ [WatchdogNext]_watchdogVars => WatchdogInv'
<1> USE BudgetAssumption, EpisodeAssumption
<1> SUFFICES ASSUME WatchdogInv, [WatchdogNext]_watchdogVars PROVE WatchdogInv'
  OBVIOUS
<1> USE DEF WatchdogInv
<1>1. CASE NothingConnected \/ Bound \/ ProbeFails
  BY <1>1, EpisodeEndsInv DEF NothingConnected, Bound, ProbeFails
<1>2. CASE WedgeSeen \/ GiveUp
  <2>1. age' \in -1..Grace /\ bound' \in BOOLEAN /\ display' \in Displays
    BY <1>2 DEF WedgeSeen, GiveUp, WatchdogTypeOK
  <2>2. gaveUp' \in BOOLEAN
    BY <1>2 DEF WedgeSeen, GiveUp, WatchdogTypeOK
  <2> QED BY <1>2, <2>1, <2>2, OtherInv DEF WedgeSeen, GiveUp
<1>3. CASE RecordFails
  <2>1. UNCHANGED <<file, boot, spent, total, episodes>>
    BY <1>3, FailedWrite DEF RecordFails
  <2>2. UNCHANGED <<display, bound, age, gaveUp>>
    BY <1>3 DEF RecordFails
  <2> QED BY <2>1, <2>2, OtherInv DEF WatchdogTypeOK
<1>4. CASE Recover
  BY <1>4, RecoverInv
<1>5. CASE Tick
  <2>1. age' \in -1..Grace
    BY <1>5 DEF Tick, WatchdogTypeOK
  <2> QED BY <1>5, <2>1, OtherInv DEF Tick, WatchdogTypeOK
<1>6. CASE Crash
  <2>1. age' \in -1..Grace
    BY <1>6 DEF Crash
  <2>2. bound' \in BOOLEAN /\ gaveUp' \in BOOLEAN /\ display' \in Displays
    BY <1>6 DEF Crash, WatchdogTypeOK
  <2> QED BY <1>6, <2>1, <2>2, OtherInv DEF Crash
<1>7. CASE Reboot
  BY <1>7, RebootInv
<1>8. CASE \E d \in Displays : Plug(d)
  BY <1>8, OtherInv DEF Plug, WatchdogTypeOK
<1>9. CASE UNCHANGED watchdogVars
  BY <1>9, OtherInv DEF watchdogVars, WatchdogTypeOK
<1> QED
  BY <1>1, <1>2, <1>3, <1>4, <1>5, <1>6, <1>7, <1>8, <1>9 DEF WatchdogNext, Watchdog

\* The invariant holds in every state of every behaviour.
THEOREM WatchdogInvariance ==
  ASSUME "torn" \notin WatchdogFaults PROVE WatchdogSpec => []WatchdogInv
<1>1. WatchdogInv /\ [WatchdogNext]_watchdogVars => WatchdogInv'
  BY WatchdogStep
<1> QED BY InitWatchdog, <1>1, PTL DEF WatchdogSpec

\* A restart is never made without being recorded, whatever crashes, reboots
\* or changes of the display come in between.
THEOREM RecordedRestarts ==
  ASSUME "torn" \notin WatchdogFaults PROVE WatchdogSpec => []RestartsAreRecorded
<1>1. WatchdogInv => RestartsAreRecorded
  BY DEF WatchdogInv
<1> QED BY WatchdogInvariance, <1>1, PTL

\* Crash-loop safety of _wayland_output_watchdog(): within an episode there
\* are at most MaxRestarts restarts per boot.
THEOREM CappedRestarts ==
  ASSUME "torn" \notin WatchdogFaults PROVE WatchdogSpec => []RestartsAreCapped
<1> USE BudgetAssumption, EpisodeAssumption
<1>1. WatchdogInv => RestartsAreCapped
  <2> SUFFICES ASSUME WatchdogInv PROVE RestartsAreCapped
    OBVIOUS
  <2>1. Restarts \in 0..MaxRestarts
    BY RestartsType DEF WatchdogInv
  <2>2. spent \in Nat /\ spent <= Restarts
    BY DEF WatchdogInv, WatchdogTypeOK, RestartsAreRecorded
  <2> QED BY <2>1, <2>2 DEF RestartsAreCapped
<1> QED BY WatchdogInvariance, <1>1, PTL

-----------------------------------------------------------------------------
(* The video surface *)

\* Everything but the bound of the queue of drains
Types ==
  /\ mode \in Modes /\ session \in 0..MaxPlays /\ stopped \in 0..MaxPlays
  /\ visible \in BOOLEAN /\ wired \in BOOLEAN /\ ready \in BOOLEAN
  /\ dirty \in BOOLEAN /\ pending \in BOOLEAN /\ victim \in BOOLEAN
  /\ parked \in Frame \union {None} /\ canvas \in Frame \union {None}
  /\ shown \in Frame \union {None} /\ last \in Frame \union {None}
  /\ latest \in Frame \union {None} /\ pushing \in Frame \union {None}
  /\ clip \in [s : 0..MaxPlays, n : 0..MaxFrames]
  /\ posted \in Seq(Frame \union {None}) /\ overdue \subseteq Frame
  /\ pipe \in Pipes \union {None} /\ audio \in Sounds \union {None}
  /\ drawing \in Frame \union {None, Idle}
  /\ drains \in Nat
  /\ kills \in Seq(1..MaxPlays)

\* A frame or a pipeline of the session that goes on
Live(f) == f.s = session /\ f.s > stopped

\* A frame that QMediaPlayer may bring
Due(f) == f.s > stopped \/ f \in overdue

\* Each way to the screen is used by its own modes only.
Ways ==
  IF mode = "gst" THEN clip = Idle /\ parked = None /\ posted = <<>>
  ELSE /\ pipe = None /\ audio = None /\ latest = None /\ pushing = None
       /\ drawing \in {None, Idle} /\ ~pending

\* What may still come to the screen belongs to what was not stopped.
Sources ==
  /\ stopped <= session
  /\ clip.s > 0 => Live(clip)
  /\ \A i \in DOMAIN posted : posted[i] # None => Due(posted[i])
  /\ pipe # None => Live(pipe)
  /\ latest # None => Live(latest)
  /\ drawing \notin {None, Idle} => Live(drawing)
  /\ pushing # None \/ pending => pipe # None

\* Calls of onGstFrame() that are queued, may be queued or run
Calls == drains + (IF pending THEN 0 ELSE 1) + (IF GuiFree THEN 0 ELSE 1)

\* A stop may leave one that nobody remembers.
Coalesced == Calls <= session + (IF pipe = None THEN 1 ELSE 0)

Inv == Types /\ Ways /\ Sources /\ NothingStoppedReturns /\ SoundHasPicture
       /\ Coalesced

-----------------------------------------------------------------------------
LEMMA FrameType ==
  ASSUME NEW s \in 1..MaxPlays, NEW n \in 1..MaxFrames
  PROVE  [s |-> s, n |-> n] \in Frame
BY DEF Frame

LEMMA FrameFields ==
  ASSUME NEW f \in Frame
  PROVE  f.s \in 1..MaxPlays /\ f.n \in 1..MaxFrames
BY DEF Frame

\* A pipeline is something, of its session.
LEMMA PipelineType ==
  ASSUME NEW s \in 1..MaxPlays, NEW o \in BOOLEAN
  PROVE  /\ Pipeline(s, o) \in Pipes /\ Pipeline(s, o) # None
         /\ Pipeline(s, o).s = s
<1>1. Pipeline(s, o) \in Pipes
  BY BoundAssumption DEF Pipeline, Pipes
<1> QED
  BY <1>1, NoneAssumption DEF Pipeline

LEMMA SoundType ==
  ASSUME NEW s \in 1..MaxPlays, NEW a \in AudioFor(s)
  PROVE  a \in Sounds \union {None} /\ (a # None => a.s = s)
<1> DEFINE sound == [s |-> s, armed |-> FALSE, state |-> "preroll"]
<1>1. sound \in Sounds /\ sound.s = s
  BY DEF Sounds
<1>2. a \in {sound, None}
  BY DEF AudioFor
<1> HIDE DEF sound
<1> QED
  BY <1>1, <1>2

LEMMA InitInv == Init => Inv
<1> SUFFICES ASSUME Init PROVE Inv
  OBVIOUS
<1>1. Types
  <2>1. /\ wired \in BOOLEAN /\ visible \in BOOLEAN /\ ready \in BOOLEAN
        /\ dirty \in BOOLEAN /\ pending \in BOOLEAN /\ victim \in BOOLEAN
    BY DEF Init
  <2>2. /\ session \in 0..MaxPlays /\ stopped \in 0..MaxPlays
        /\ clip \in [s : 0..MaxPlays, n : 0..MaxFrames]
        /\ kills \in Seq(1..MaxPlays) /\ drains \in Nat
        /\ posted \in Seq(Frame \union {None}) /\ overdue \subseteq Frame
    BY BoundAssumption DEF Init
  <2> QED
    BY <2>1, <2>2 DEF Init, Types
<1>2. Ways
  BY DEF Init, Ways, Idle
<1>3. Sources /\ NothingStoppedReturns /\ SoundHasPicture
  BY DEF Init, Sources, NothingStoppedReturns, SoundHasPicture
<1>4. Coalesced
  BY DEF Init, Coalesced, Calls, GuiFree
<1> QED
  BY <1>1, <1>2, <1>3, <1>4 DEF Inv

LEMMA PlayStep == Inv /\ Play => Inv'
<1> SUFFICES ASSUME Inv, Play PROVE Inv'
  OBVIOUS
<1>1. /\ session \in Nat /\ session' = session + 1 /\ session' \in 1..MaxPlays
      /\ stopped' = stopped /\ stopped <= session /\ stopped \in Nat
      /\ parked' = None /\ drawing = Idle
      /\ UNCHANGED <<mode, shown, pushing, drains, drawing, kills, victim>>
  BY BoundAssumption DEF Play, Inv, Types, Sources, GuiFree
<1>4. /\ visible' \in BOOLEAN /\ wired' \in BOOLEAN /\ ready' \in BOOLEAN
      /\ dirty' \in BOOLEAN
  <2>1. wired' \in {wired, TRUE} /\ wired \in BOOLEAN /\ ready \in BOOLEAN
    BY DEF Play, Inv, Types
  <2> QED
    BY <2>1 DEF Play
<1>5. session' \in 0..MaxPlays /\ stopped' \in 0..MaxPlays
  BY <1>1 DEF Inv, Types
<1>2. CASE mode = "gst"
  <2>1. /\ pushing = None /\ latest' = None /\ pending' = FALSE
        /\ canvas' = None /\ UNCHANGED <<clip, last, posted, overdue>>
        /\ clip = Idle
    BY <1>2 DEF Play, NoFrame, player, Inv, Ways
  <2>2. /\ pipe' \in Pipes \union {None} /\ audio' \in Sounds \union {None}
        /\ pipe' # None => pipe'.s = session'
        /\ audio' # None => pipe' # None /\ audio'.s = session'
    <3>1. PICK noPlane \in Sometimes("overlay"), dead \in Sometimes("start") :
            IF dead THEN pipe' = None /\ audio' = None
            ELSE /\ pipe' = Pipeline(session', ~noPlane)
                 /\ audio' \in AudioFor(session')
      BY <1>1, <1>2 DEF Play, StartPipeline
    <3>2. noPlane \in BOOLEAN
      BY DEF Sometimes
    <3>3. CASE dead
      BY <3>1, <3>3
    <3>4. CASE ~dead
      BY <1>1, <3>1, <3>2, <3>4, PipelineType, SoundType
    <3> QED
      BY <3>3, <3>4
  <2>3. Types'
    <3>1. /\ drains' \in Nat /\ clip' \in [s : 0..MaxPlays, n : 0..MaxFrames]
          /\ kills' \in Seq(1..MaxPlays)
      BY <1>1, <2>1 DEF Inv, Types
    <3> QED
      BY <1>1, <1>4, <1>5, <2>1, <2>2, <3>1 DEF Inv, Types
  <2>4. Ways' /\ Sources'
    BY <1>1, <1>2, <2>1, <2>2 DEF Ways, Sources, Live, Due, Inv, Idle
  <2>5. NothingStoppedReturns' /\ SoundHasPicture'
    BY <1>1, <2>1, <2>2 DEF NothingStoppedReturns, SoundHasPicture
  <2>6. Coalesced'
    BY <1>1, <2>1 DEF Inv, Types, Sources, Coalesced, Calls, GuiFree
  <2> QED
    BY <2>3, <2>4, <2>5, <2>6 DEF Inv
<1>3. CASE mode # "gst"
  <2>1. /\ clip' = [s |-> session', n |-> 0] /\ last' = None
        /\ canvas' \in {canvas, None}
        /\ UNCHANGED <<posted, overdue, pipe, audio, latest, pending>>
    BY <1>1, <1>3 DEF Play
  <2>2. Types'
    BY <1>1, <1>4, <2>1, BoundAssumption DEF Inv, Types
  <2>3. Ways' /\ Sources'
    BY <1>1, <1>3, <2>1 DEF Ways, Sources, Live, Due, Inv
  <2>4. NothingStoppedReturns' /\ SoundHasPicture'
    BY <1>1, <1>3, <2>1 DEF Inv, Ways, NothingStoppedReturns, SoundHasPicture
  <2>5. Coalesced'
    BY <1>1, <1>3, <2>1 DEF Inv, Types, Ways, Coalesced, Calls, GuiFree
  <2> QED
    BY <2>2, <2>3, <2>4, <2>5 DEF Inv
<1> QED
  BY <1>2, <1>3

\* Whoever stops, and whichever session it is.
LEMMA StopSessionStep ==
  ASSUME Inv, StopSession, GuiFree,
         visible' \in BOOLEAN, kills' \in Seq(1..MaxPlays), victim' \in BOOLEAN
  PROVE  Inv'
<1>1. /\ session \in Nat /\ stopped' = session /\ session' = session
      /\ parked' = None /\ canvas' = None /\ drawing = Idle
      /\ dirty' \in BOOLEAN /\ ready' \in BOOLEAN
      /\ UNCHANGED <<mode, wired, shown, pushing, drains, drawing>>
  BY DEF StopSession, Clear, Inv, Types, GuiFree
<1>2. CASE mode = "gst"
  <2>1. /\ pushing = None /\ pipe' = None /\ audio' = None /\ latest' = None
        /\ pending' = FALSE /\ UNCHANGED <<clip, last, posted, overdue>>
        /\ clip = Idle /\ posted = <<>>
    BY <1>2 DEF StopSession, GstStop, NoFrame, player, Inv, Ways
  <2>2. Types'
    BY <1>1, <2>1 DEF Inv, Types
  <2>3. Ways' /\ Sources' /\ NothingStoppedReturns' /\ SoundHasPicture'
    BY <1>1, <1>2, <2>1
    DEF Ways, Sources, Live, Due, Idle, NothingStoppedReturns, SoundHasPicture
  <2>4. Coalesced'
    BY <1>1, <2>1 DEF Inv, Types, Sources, Coalesced, Calls, GuiFree
  <2> QED
    BY <2>2, <2>3, <2>4 DEF Inv
<1>3. CASE mode # "gst"
  <2>1. /\ clip' = [s |-> 0, n |-> 0] /\ last' = None
        /\ overdue' = {posted[i] : i \in DOMAIN posted} \ {None}
        /\ UNCHANGED <<posted, pipe, audio, latest, pending>>
    BY <1>3 DEF StopSession
  <2>5. overdue' \subseteq Frame
    BY <2>1 DEF Inv, Types
  <2>6. \A i \in DOMAIN posted : posted[i] # None => posted[i] \in overdue'
    BY <2>1
  <2>2. Types'
    BY <1>1, <2>1, <2>5, BoundAssumption DEF Inv, Types
  <2>3. Ways' /\ Sources' /\ NothingStoppedReturns' /\ SoundHasPicture'
    BY <1>1, <1>3, <2>1, <2>6
    DEF Inv, Ways, Sources, Live, Due, Idle, NothingStoppedReturns, SoundHasPicture
  <2>4. Coalesced'
    BY <1>1, <1>3, <2>1 DEF Inv, Types, Ways, Coalesced, Calls, GuiFree
  <2> QED
    BY <2>2, <2>3, <2>4 DEF Inv
<1> QED
  BY <1>2, <1>3

-----------------------------------------------------------------------------
(* Frames of QMediaPlayer *)

\* The types that a step on the canvas and the gate may disturb
CanvasTypes ==
  /\ ready \in BOOLEAN /\ dirty \in BOOLEAN
  /\ parked \in Frame \union {None} /\ canvas \in Frame \union {None}

LEMMA CanvasStep ==
  ASSUME Inv, CanvasTypes', shown' \in Frame \union {None},
         last' \in Frame \union {None},
         clip' \in [s : 0..MaxPlays, n : 0..MaxFrames],
         clip'.s \in {0, clip.s},
         posted' \in Seq(Frame \union {None}),
         mode = "gst" => /\ parked' = None
                         /\ UNCHANGED <<clip, posted>>,
         UNCHANGED <<mode, session, stopped, visible, wired, overdue, gst>>,
         \A i \in DOMAIN posted' : posted'[i] # None => Due(posted'[i]),
         \A f \in {parked', canvas'} \ {None} :
           f \in {parked, canvas} \/ (Due(f) /\ mode # "gst")
  PROVE  Inv'
<1>1. UNCHANGED <<mode, session, stopped, visible, wired, overdue, pipe, audio,
                  latest, pending, pushing, drains, drawing, kills, victim>>
  BY DEF gst
<1>2. Types'
  BY <1>1 DEF Inv, Types, CanvasTypes
<1>3. Ways' /\ SoundHasPicture'
  BY <1>1 DEF Inv, Ways, SoundHasPicture
<1>6. Sources'
  BY <1>1 DEF Inv, Sources, Live, Due
<1>4. NothingStoppedReturns'
  BY <1>1 DEF Inv, NothingStoppedReturns, Due
<1>5. Coalesced'
  BY <1>1 DEF Inv, Coalesced, Calls, GuiFree
<1> QED
  BY <1>2, <1>3, <1>4, <1>5, <1>6 DEF Inv

\* A queue of calls grows by one that may come, and shrinks.
LEMMA DueAppended ==
  ASSUME Inv, NEW e \in Frame \union {None}, e # None => Due(e),
         posted' = Append(posted, e)
  PROVE  /\ posted' \in Seq(Frame \union {None})
         /\ \A i \in DOMAIN posted' : posted'[i] # None => Due(posted'[i])
<1>1. posted \in Seq(Frame \union {None})
  BY DEF Inv, Types
<1>2. posted' \in Seq(Frame \union {None})
  BY <1>1
<1>3. \A i \in DOMAIN posted' :
        \/ posted'[i] = e
        \/ i \in DOMAIN posted /\ posted'[i] = posted[i]
  <2>1. /\ DOMAIN posted' = 1..(Len(posted) + 1) /\ posted'[Len(posted) + 1] = e
        /\ \A i \in 1..Len(posted) : posted'[i] = posted[i]
    BY <1>1
  <2>2. DOMAIN posted = 1..Len(posted) /\ Len(posted) \in Nat
    BY <1>1
  <2> QED
    BY <2>1, <2>2
<1>4. \A i \in DOMAIN posted : posted[i] # None => Due(posted[i])
  BY DEF Inv, Sources
<1>5. ASSUME NEW i \in DOMAIN posted', posted'[i] # None PROVE Due(posted'[i])
  BY <1>3, <1>4, <1>5
<1> QED
  BY <1>2, <1>5

LEMMA DecodeStep == Inv /\ Decode => Inv'
<1> SUFFICES ASSUME Inv, Decode PROVE Inv'
  OBVIOUS
<1> DEFINE k == clip.n + 1
           f == [s |-> clip.s, n |-> k]
<1>1. /\ clip.s \in 1..MaxPlays /\ clip.n \in 0..MaxFrames /\ clip.n < MaxFrames
      /\ clip' = [clip EXCEPT !.n = k] /\ last' = f
      /\ posted' = Append(posted, f)
      /\ UNCHANGED <<mode, session, stopped, visible, wired, ready, parked,
                     canvas, dirty, shown, overdue, gst>>
  BY BoundAssumption DEF Decode, gate, Inv, Types
<1>2. mode # "gst"
  BY <1>1 DEF Inv, Ways, Idle
<1>3. f \in Frame /\ f.s = clip.s
  BY <1>1, BoundAssumption DEF Frame
<1>4. clip' \in [s : 0..MaxPlays, n : 0..MaxFrames] /\ clip'.s = clip.s
  <2>1. k \in 0..MaxFrames
    BY <1>1, BoundAssumption
  <2> HIDE DEF k
  <2> QED
    BY <1>1, <2>1 DEF Inv, Types
<1>5. Due(f)
  BY <1>1, <1>3 DEF Inv, Sources, Live, Due
<1> HIDE DEF f
<1>6. /\ posted' \in Seq(Frame \union {None})
      /\ \A i \in DOMAIN posted' : posted'[i] # None => Due(posted'[i])
  BY <1>1, <1>3, <1>5, DueAppended
<1>7. CanvasTypes' /\ shown' \in Frame \union {None}
  BY <1>1 DEF Inv, Types, CanvasTypes
<1> QED
  BY <1>1, <1>2, <1>3, <1>4, <1>6, <1>7, CanvasStep

LEMMA StreamEndsStep == Inv /\ StreamEnds => Inv'
<1> SUFFICES ASSUME Inv, StreamEnds PROVE Inv'
  OBVIOUS
<1>1. /\ clip' = [s |-> 0, n |-> 0] /\ last' = None /\ clip.s > 0
      /\ posted' = Append(posted, None)
      /\ UNCHANGED <<mode, session, stopped, visible, wired, ready, parked,
                     canvas, dirty, shown, overdue, gst>>
  BY DEF StreamEnds, gate
<1>2. mode # "gst"
  BY <1>1 DEF Inv, Ways, Idle
<1>3. CanvasTypes' /\ shown' \in Frame \union {None}
  BY <1>1 DEF Inv, Types, CanvasTypes
<1>4. clip' \in [s : 0..MaxPlays, n : 0..MaxFrames] /\ clip'.s = 0
  BY <1>1, BoundAssumption
<1>5. /\ posted' \in Seq(Frame \union {None})
      /\ \A i \in DOMAIN posted' : posted'[i] # None => Due(posted'[i])
  BY <1>1, DueAppended
<1> QED
  BY <1>1, <1>2, <1>3, <1>4, <1>5, CanvasStep

LEMMA DeliverStep == Inv /\ Deliver => Inv'
<1> SUFFICES ASSUME Inv, Deliver PROVE Inv'
  OBVIOUS
<1> DEFINE f == Head(posted)
<1>1. /\ posted # <<>> /\ posted' = Tail(posted)
      /\ UNCHANGED <<mode, session, stopped, visible, wired, shown, clip, last,
                     overdue, gst>>
  BY DEF Deliver
<1>2. posted \in Seq(Frame \union {None})
  BY DEF Inv, Types
<1>3. mode # "gst"
  BY <1>1 DEF Inv, Ways
<1>4. \A i \in DOMAIN posted : posted[i] # None => Due(posted[i])
  BY DEF Inv, Sources
<1>5. f \in Frame \union {None} /\ (f # None => Due(f))
  <2>1. 1 \in DOMAIN posted /\ f = posted[1] /\ posted[1] \in Frame \union {None}
    BY <1>1, <1>2
  <2> QED
    BY <1>4, <2>1
<1>6. /\ posted' \in Seq(Frame \union {None})
      /\ \A i \in DOMAIN posted' : posted'[i] # None => Due(posted'[i])
  <2>1. posted' \in Seq(Frame \union {None})
    BY <1>1, <1>2
  <2>2. \A i \in DOMAIN posted' :
          i + 1 \in DOMAIN posted /\ posted'[i] = posted[i + 1]
    BY <1>1, <1>2
  <2>3. UNCHANGED <<stopped, overdue>>
    BY <1>1
  <2>4. \A i \in DOMAIN posted' : posted'[i] # None => Due(posted'[i])
    BY <1>4, <2>2
  <2> QED
    BY <2>1, <2>4
<1>7. \/ f = None /\ parked' = None /\ canvas' = None /\ dirty' = TRUE
         /\ ready' = ready
      \/ f # None /\ parked' = f /\ UNCHANGED <<ready, canvas, dirty>>
      \/ f # None /\ canvas' = f /\ dirty' = TRUE /\ ready' = FALSE
         /\ parked' = parked
  BY DEF Deliver, Delivered, Forward
<1>8. /\ CanvasTypes' /\ shown' \in Frame \union {None}
      /\ \A g \in {parked', canvas'} \ {None} : g \in {parked, canvas, f}
  BY <1>1, <1>5, <1>7 DEF Inv, Types, CanvasTypes
<1>9. /\ last' \in Frame \union {None} /\ clip'.s = clip.s
      /\ clip' \in [s : 0..MaxPlays, n : 0..MaxFrames]
  BY <1>1 DEF Inv, Types
<1> HIDE DEF f
<1> QED
  BY <1>1, <1>3, <1>5, <1>6, <1>8, <1>9, CanvasStep

LEMMA PaintStep == Inv /\ Paint => Inv'
<1> SUFFICES ASSUME Inv, Paint PROVE Inv'
  OBVIOUS
<1>1. /\ shown' = canvas /\ UNCHANGED <<clip, last, posted, overdue>>
      /\ UNCHANGED <<mode, session, stopped, visible, wired, gst>>
  BY DEF Paint, player
<1>2. /\ CanvasTypes' /\ parked' \in {parked, None}
      /\ canvas' \in {canvas, parked}
  BY DEF Paint, Rendered, Forward, Inv, Types, CanvasTypes
<1>3. mode = "gst" => parked' = None
  BY <1>2 DEF Inv, Ways
<1>4. \A i \in DOMAIN posted : posted[i] # None => Due(posted[i])
  BY DEF Inv, Sources
<1> QED
  BY <1>1, <1>2, <1>3, <1>4, CanvasStep DEF Inv, Types

LEMMA ExposeStep == Inv /\ Expose => Inv'
<1> SUFFICES ASSUME Inv, Expose PROVE Inv'
  OBVIOUS
<1>1. /\ dirty' = TRUE
      /\ UNCHANGED <<clip, last, posted, overdue, ready, parked, canvas, shown>>
      /\ UNCHANGED <<mode, session, stopped, visible, wired, gst>>
  BY DEF Expose, player
<1>2. CanvasTypes' /\ (mode = "gst" => parked' = None)
  BY <1>1 DEF Inv, Types, CanvasTypes, Ways
<1>3. \A i \in DOMAIN posted : posted[i] # None => Due(posted[i])
  BY DEF Inv, Sources
<1> QED
  BY <1>1, <1>2, <1>3, CanvasStep DEF Inv, Types

-----------------------------------------------------------------------------
(* Frames of GStreamer *)

LEMMA StashStep == Inv /\ Stash => Inv'
<1> SUFFICES ASSUME Inv, Stash PROVE Inv'
  OBVIOUS
<1> DEFINE k == pipe.n + 1
           f == [s |-> pipe.s, n |-> k]
<1>1. /\ pipe \in Pipes /\ pipe # None /\ pipe.n < MaxFrames
      /\ pipe' = [pipe EXCEPT !.n = k] /\ latest' = f /\ pushing' = f
      /\ UNCHANGED <<mode, session, stopped, visible, wired, ready, parked,
                     canvas, dirty, shown, clip, last, posted, overdue, audio,
                     pending, drains, drawing, kills, victim>>
  BY DEF Stash, surface, gate, player, Inv, Types
<1>2. k \in 1..MaxFrames /\ k \in 0..MaxFrames /\ pipe.s \in 1..MaxPlays
  BY <1>1, BoundAssumption DEF Pipes
<1>3. f \in Frame /\ f.s = pipe.s
  <2> HIDE DEF k
  <2> QED
    BY <1>2 DEF Frame
<1>4. pipe' \in Pipes /\ pipe'.s = pipe.s /\ pipe' # None
  <2> HIDE DEF k
  <2>1. pipe' \in Pipes /\ pipe'.s = pipe.s
    BY <1>1, <1>2 DEF Pipes
  <2> QED
    BY <2>1, NoneAssumption
<1> HIDE DEF f, k
<1>5. Types'
  BY <1>1, <1>3, <1>4 DEF Inv, Types
<1>6. Ways' /\ Sources'
  BY <1>1, <1>3, <1>4 DEF Inv, Ways, Sources, Live, Due, Due
<1>7. NothingStoppedReturns' /\ SoundHasPicture'
  BY <1>1, <1>4 DEF Inv, NothingStoppedReturns, SoundHasPicture
<1>8. Coalesced'
  BY <1>1, <1>4 DEF Inv, Coalesced, Calls, GuiFree
<1> QED
  BY <1>5, <1>6, <1>7, <1>8 DEF Inv

LEMMA PostStep == Inv /\ Post => Inv'
<1> SUFFICES ASSUME Inv, Post PROVE Inv'
  OBVIOUS
<1>1. /\ pushing # None /\ pushing' = None /\ pending' = TRUE
      /\ drains' = IF pending THEN drains ELSE drains + 1
      /\ UNCHANGED <<mode, session, stopped, visible, wired, ready, parked,
                     canvas, dirty, shown, clip, last, posted, overdue, pipe,
                     audio, latest, drawing, kills, victim>>
  BY DEF Post, surface, gate, player
<1>2. drains' \in Nat /\ drains \in Nat
  BY <1>1 DEF Inv, Types
<1>3. Types'
  BY <1>1, <1>2 DEF Inv, Types
<1>4. Ways' /\ Sources'
  BY <1>1 DEF Inv, Ways, Sources, Live, Due, Due
<1>5. NothingStoppedReturns' /\ SoundHasPicture'
  BY <1>1 DEF Inv, NothingStoppedReturns, SoundHasPicture
<1>6. Coalesced'
  BY <1>1, <1>2 DEF Inv, Coalesced, Calls, GuiFree
<1> QED
  BY <1>3, <1>4, <1>5, <1>6 DEF Inv

LEMMA TakeStep == Inv /\ Take => Inv'
<1> SUFFICES ASSUME Inv, Take PROVE Inv'
  OBVIOUS
<1>1. /\ GuiFree /\ drains > 0 /\ drains' = drains - 1 /\ drawing' = latest
      /\ UNCHANGED <<mode, session, stopped, visible, wired, ready, parked,
                     canvas, dirty, shown, clip, last, posted, overdue, pipe,
                     audio, latest, pending, pushing, kills, victim>>
  BY DEF Take, surface, gate, player
<1>2. drains' \in Nat /\ drains \in Nat /\ session \in Nat
  BY <1>1 DEF Inv, Types
<1>3. Types'
  BY <1>1, <1>2 DEF Inv, Types
<1>4. Ways' /\ Sources'
  BY <1>1 DEF Inv, Ways, Sources, Live, Due, Due
<1>5. NothingStoppedReturns' /\ SoundHasPicture'
  BY <1>1 DEF Inv, NothingStoppedReturns, SoundHasPicture
<1>6. Coalesced'
  BY <1>1, <1>2 DEF Inv, Coalesced, Calls, GuiFree
<1> QED
  BY <1>3, <1>4, <1>5, <1>6 DEF Inv

LEMMA DrawStep == Inv /\ Draw => Inv'
<1> SUFFICES ASSUME Inv, Draw PROVE Inv'
  OBVIOUS
<1>1. /\ drawing # Idle /\ drawing' = Idle /\ pending' = FALSE
      /\ UNCHANGED <<mode, session, stopped, visible, wired, ready, parked,
                     shown, clip, last, posted, overdue, pipe, audio, latest,
                     pushing, drains, kills, victim>>
  BY DEF Draw, GuiFree, player
<1>2. /\ canvas' = canvas \/ (canvas' = drawing /\ drawing \in Frame
                              /\ drawing \notin {None, Idle})
      /\ dirty' \in BOOLEAN
  BY <1>1 DEF Draw, Forward, Inv, Types
<1>3. Types'
  <2>1. Types
    BY DEF Inv
  <2>2. canvas' \in Frame \union {None} /\ drawing' \in Frame \union {None, Idle}
    BY <1>1, <1>2, <2>1, Zenon DEF Types
  <2>3. pending' \in BOOLEAN /\ dirty' \in BOOLEAN
    BY <1>1, <1>2, Zenon
  <2> QED
    BY <1>1, <2>1, <2>2, <2>3, ZenonT(120) DEF Types
<1>4. Ways' /\ Sources'
  BY <1>1 DEF Inv, Ways, Sources, Live, Due, Due
<1>5. SoundHasPicture'
  BY <1>1 DEF Inv, SoundHasPicture
<1>6. NothingStoppedReturns'
  BY <1>1, <1>2 DEF Inv, Sources, Live, NothingStoppedReturns
<1>7. Coalesced'
  <2>1. drains \in Nat /\ session \in Nat
    BY DEF Inv, Types
  <2> QED
    BY <1>1, <2>1 DEF Inv, Coalesced, Calls, GuiFree
<1> QED
  BY <1>3, <1>4, <1>5, <1>6, <1>7 DEF Inv

-----------------------------------------------------------------------------
(* Messages of the buses *)

\* Pipelines change their state, and the sound may end for good.
LEMMA BusStep ==
  ASSUME Inv, UNCHANGED <<unmoved, victim>>, kills' \in Seq(1..MaxPlays),
         \/ pipe' = pipe
         \/ pipe # None /\ pipe' \in Pipes /\ pipe'.s = pipe.s,
         \/ audio' \in {audio, None}
         \/ audio # None /\ audio' \in Sounds /\ audio'.s = audio.s
  PROVE  Inv'
<1>1. UNCHANGED <<mode, session, stopped, visible, wired, ready, parked,
                  canvas, dirty, shown, clip, last, posted, overdue, latest, pending,
                  pushing, drains, drawing, victim>>
  BY DEF unmoved, surface, gate, player
<1>2. /\ pipe' \in Pipes \union {None} /\ audio' \in Sounds \union {None}
      /\ pipe = None <=> pipe' = None
      /\ pipe # None => pipe'.s = pipe.s
      /\ audio' # None => audio # None /\ audio'.s = audio.s
  BY NoneAssumption DEF Inv, Types
<1>3. Types'
  BY <1>1, <1>2 DEF Inv, Types
<1>4. Ways' /\ Sources'
  BY <1>1, <1>2 DEF Inv, Ways, Sources, Live, Due, Due
<1>5. NothingStoppedReturns' /\ SoundHasPicture'
  BY <1>1, <1>2 DEF Inv, NothingStoppedReturns, SoundHasPicture
<1>6. Coalesced'
  BY <1>1, <1>2 DEF Inv, Coalesced, Calls, GuiFree
<1> QED
  BY <1>3, <1>4, <1>5, <1>6 DEF Inv

LEMMA MessageStep ==
  ASSUME Inv, Preroll \/ Ends \/ Loop \/ AudioTurns \/ AudioFails \/ Fails
              \/ QueueStop
  PROVE  Inv'
<1>1. kills \in Seq(1..MaxPlays) /\ (pipe # None => pipe \in Pipes)
      /\ (audio # None => audio \in Sounds)
  BY DEF Inv, Types
<1>2. \A ok \in Seeks : ok \in BOOLEAN
  BY DEF Seeks
<1>3. CASE Preroll
  <2>1. PICK ok \in Seeks :
          pipe' = [pipe EXCEPT !.state = "playing", !.armed = ok]
    BY <1>3 DEF Preroll
  <2>2. pipe' \in Pipes /\ pipe'.s = pipe.s
    BY <1>1, <1>2, <1>3, <2>1 DEF Preroll, Pipes
  <2> QED
    BY <1>1, <1>3, <2>2, BusStep DEF Preroll
<1>4. CASE Ends
  <2>1. pipe' \in Pipes /\ pipe'.s = pipe.s
    BY <1>1, <1>4 DEF Ends, Pipes
  <2> QED
    BY <1>1, <1>4, <2>1, BusStep DEF Ends
<1>5. CASE Loop
  <2>1. pipe' = [pipe EXCEPT !.state = "playing", !.n = 0] /\ pipe # None
    BY <1>5 DEF Loop, Looped, Rewound
  <2>2. pipe' \in Pipes /\ pipe'.s = pipe.s
    <3>1. 0 \in 0..MaxFrames
      BY BoundAssumption
    <3> QED
      BY <1>1, <2>1, <3>1 DEF Pipes
  <2>3. \/ audio' \in {audio, None}
        \/ audio # None /\ audio' \in Sounds /\ audio'.s = audio.s
    BY <1>1, <1>5 DEF Loop, Sounds
  <2> QED
    BY <1>1, <1>5, <2>1, <2>2, <2>3, BusStep DEF Loop
<1>6. CASE AudioTurns
  <2>1. audio # None /\ audio' \in Sounds /\ audio'.s = audio.s
    BY <1>1, <1>2, <1>6 DEF AudioTurns, Sounds
  <2> QED
    BY <1>1, <1>6, <2>1, BusStep DEF AudioTurns
<1>7. CASE AudioFails
  BY <1>1, <1>7, BusStep DEF AudioFails
<1>8. CASE Fails
  <2>1. pipe' \in Pipes /\ pipe'.s = pipe.s
    BY <1>1, <1>8 DEF Fails, Pipes
  <2> QED
    BY <1>1, <1>8, <2>1, BusStep DEF Fails
<1>9. CASE QueueStop
  <2>1. pipe' \in Pipes /\ pipe'.s = pipe.s /\ pipe.s \in 1..MaxPlays
    BY <1>1, <1>9 DEF QueueStop, Pipes
  <2>2. kills' \in Seq(1..MaxPlays)
    BY <1>1, <1>9, <2>1 DEF QueueStop
  <2> QED
    BY <1>1, <1>9, <2>1, <2>2, BusStep DEF QueueStop
<1> QED
  BY <1>3, <1>4, <1>5, <1>6, <1>7, <1>8, <1>9

LEMMA StopsStep == Inv /\ (Stop \/ Hide \/ QueuedStop) => Inv'
<1> SUFFICES ASSUME Inv, Stop \/ Hide \/ QueuedStop PROVE Inv'
  OBVIOUS
<1>1. kills \in Seq(1..MaxPlays) /\ visible \in BOOLEAN /\ victim \in BOOLEAN
  BY DEF Inv, Types
<1>2. CASE Stop \/ Hide
  BY <1>1, <1>2, StopSessionStep DEF Stop, Hide
<1>3. CASE QueuedStop
  <2>1. kills' \in Seq(1..MaxPlays)
    BY <1>1, <1>3 DEF QueuedStop
  <2>2. victim' \in BOOLEAN /\ visible' = visible
    BY <1>1, <1>3 DEF QueuedStop
  <2> QED
    BY <1>1, <1>3, <2>1, <2>2, StopSessionStep DEF QueuedStop
<1> QED
  BY <1>2, <1>3

LEMMA StepInv == Inv /\ [Next]_vars => Inv'
<1> SUFFICES ASSUME Inv, [Next]_vars PROVE Inv'
  OBVIOUS
<1>1. CASE UNCHANGED vars
  BY <1>1 DEF vars, gate, player, gst, Inv, Types, Ways, Sources, Live, Due,
              NothingStoppedReturns, SoundHasPicture, Coalesced, Calls, GuiFree
<1> QED
  BY <1>1, PlayStep, StopsStep, DecodeStep, StreamEndsStep, DeliverStep, PaintStep,
     ExposeStep, StashStep, PostStep, TakeStep, DrawStep, MessageStep DEF Next

-----------------------------------------------------------------------------
(* The theorems *)

LEMMA InvType == Inv => TypeOK
<1> SUFFICES ASSUME Inv PROVE TypeOK
  OBVIOUS
<1>1. drains \in 0..MaxPlays
  BY BoundAssumption DEF Inv, Types, Sources, Coalesced, Calls
<1> QED
  BY <1>1 DEF Inv, Types, TypeOK

\* Every variable has its type; in particular, never more drains are queued
\* than videos were played, however stops and pushes interleave.
THEOREM TypeCorrect == Spec => []TypeOK
BY InitInv, StepInv, InvType, PTL DEF Spec

\* Neither the mailbox nor a queued drain brings back what was stopped.
THEOREM StoppedStays == Spec => []NothingStoppedReturns
<1>1. Inv => NothingStoppedReturns
  BY DEF Inv
<1> QED
  BY <1>1, InitInv, StepInv, PTL DEF Spec

\* Whatever fails, the sound is that of the picture.
THEOREM SoundFollows == Spec => []SoundHasPicture
<1>1. Inv => SoundHasPicture
  BY DEF Inv
<1> QED
  BY <1>1, InitInv, StepInv, PTL DEF Spec

=============================================================================
