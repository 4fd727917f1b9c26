------------------------------ MODULE GstPlayer ------------------------------
(***************************************************************************)
(* The media player of the linuxfb boards: GstFbdevMediaPlayer and         *)
(* MediaPlayerProxy of src/anthias_viewer/media_player.py, one statement   *)
(* at a time, on the two threads that use them without a lock:             *)
(*   - the main thread in view_video(): get_instance(), play(), the wait   *)
(*     and stop();                                                         *)
(*   - the subscriber thread in reset(), which a reload with a new screen  *)
(*     rotation calls.                                                     *)
(* Every play() spawns a GStreamer process that paints to the framebuffer  *)
(* and loops its clip until it is killed.                                  *)
(***************************************************************************)
EXTENDS Naturals, FiniteSets

CONSTANTS
  MaxVideos,  \* bound: processes spawned
  MaxResets   \* bound: calls of reset()

ASSUME GstBoundAssumption == MaxVideos \in Nat \ {0} /\ MaxResets \in Nat

\* Instances and processes are numbered in the order of their creation, and
\* 0 is None.
Player == 1..MaxVideos
Process == 1..MaxVideos

VARIABLES
  instance,   \* MediaPlayerProxy.INSTANCE
  procOf,     \* procOf[x]: x._proc of player x
  alive,      \* the processes that run
  signalled,  \* those that were sent SIGTERM
  pc,         \* where each thread is
  self,       \* the player a thread works on
  back,       \* where the stop() a thread runs returns to
  child,      \* the process Popen() returned, until it is assigned
  made,       \* players created so far
  plays,      \* processes spawned so far
  resets,     \* calls of reset() so far
  raced       \* history: a reset() overlapped a get_instance(), play() or
              \* stop() of the main thread

gstVars == <<instance, procOf, alive, signalled, pc, self, back, child, made,
          plays, resets, raced>>

Thread == {"main", "sub"}
counters == <<made, plays, resets>>

\* The threads are not both inside the media player.
Quiet(t) == IF t = "main" THEN pc["sub"] = "idle"
                          ELSE pc["main"] \in {"idle", "wait"}

Goto(t, l) == /\ pc' = [pc EXCEPT ![t] = l]
              /\ raced' = (raced \/ ~Quiet(t))

-----------------------------------------------------------------------------
(* view_video() and MediaPlayerProxy *)

\* get_instance(): `if cls.INSTANCE is None`, and then `return cls.INSTANCE`
GetInstance ==
  /\ pc["main"] = "idle"
  /\ made < MaxVideos
  /\ IF instance = 0
     THEN instance' = made + 1 /\ made' = made + 1
     ELSE UNCHANGED <<instance, made>>
  /\ Goto("main", "return")
  /\ UNCHANGED <<procOf, alive, signalled, self, back, child, plays, resets>>

\* play() begins with self.stop(); None has no play().
ReturnInstance ==
  /\ pc["main"] = "return"
  /\ self' = [self EXCEPT !["main"] = instance]
  /\ back' = [back EXCEPT !["main"] = "popen"]
  /\ Goto("main", IF instance = 0 THEN "crashed" ELSE "stop")
  /\ UNCHANGED <<instance, procOf, alive, signalled, child, counters>>

\* subprocess.Popen()
Popen ==
  /\ pc["main"] = "popen"
  /\ plays < MaxVideos
  /\ plays' = plays + 1
  /\ alive' = alive \cup {plays + 1}
  /\ child' = plays + 1
  /\ Goto("main", "assign")
  /\ UNCHANGED <<instance, procOf, signalled, self, back, made, resets>>

PopenFails ==
  /\ pc["main"] = "popen"
  /\ child' = 0
  /\ Goto("main", "assign")
  /\ UNCHANGED <<instance, procOf, alive, signalled, self, back, counters>>

\* self._proc = the new process, or None
Assign ==
  /\ pc["main"] = "assign"
  /\ procOf' = [procOf EXCEPT ![self["main"]] = child]
  /\ Goto("main", "wait")
  /\ UNCHANGED <<instance, alive, signalled, self, back, child, counters>>

\* The wait of view_video() ends, and the player is stopped.
WaitEnds ==
  /\ pc["main"] = "wait"
  /\ back' = [back EXCEPT !["main"] = "idle"]
  /\ Goto("main", "stop")
  /\ UNCHANGED <<instance, procOf, alive, signalled, self, child, counters>>

\* reset(): `if cls.INSTANCE is not None`
Reset ==
  /\ pc["sub"] = "idle"
  /\ resets < MaxResets
  /\ resets' = resets + 1
  /\ self' = [self EXCEPT !["sub"] = instance]
  /\ back' = [back EXCEPT !["sub"] = "drop"]
  /\ Goto("sub", IF instance = 0 THEN "drop" ELSE "stop")
  /\ UNCHANGED <<instance, procOf, alive, signalled, child, made, plays>>

\* cls.INSTANCE = None
Drop ==
  /\ pc["sub"] = "drop"
  /\ instance' = 0
  /\ Goto("sub", "idle")
  /\ UNCHANGED <<procOf, alive, signalled, self, back, child, counters>>

-----------------------------------------------------------------------------
(* GstFbdevMediaPlayer.stop() on either thread, which reads self._proc anew *)
(* in every statement *)

\* reset() swallows exceptions, view_video() does not.
Error(t) == IF t = "sub" THEN "drop" ELSE "crashed"

\* Mutant: a process that runs is not looked for.
StopCheckNothing(t) ==
  /\ pc[t] = "stop"
  /\ Goto(t, back[t])
  /\ UNCHANGED <<instance, procOf, alive, signalled, self, back, child,
                 counters>>

\* `if self._proc is None: return`
StopCheck(t) ==
  /\ pc[t] = "stop"
  /\ Goto(t, IF procOf[self[t]] = 0 THEN back[t] ELSE "poll")
  /\ UNCHANGED <<instance, procOf, alive, signalled, self, back, child,
                 counters>>

\* `if self._proc.poll() is None`
Poll(t) ==
  /\ pc[t] = "poll"
  /\ LET p == procOf[self[t]] IN
       Goto(t, IF p = 0 THEN Error(t)
               ELSE IF p \in alive THEN "kill" ELSE "clear")
  /\ UNCHANGED <<instance, procOf, alive, signalled, self, back, child, counters>>

\* os.killpg(os.getpgid(self._proc.pid), SIGTERM)
Kill(t) ==
  /\ pc[t] = "kill"
  /\ LET p == procOf[self[t]] IN
       IF p = 0 THEN Goto(t, Error(t)) /\ UNCHANGED signalled
       ELSE Goto(t, "reap") /\ signalled' = signalled \cup {p}
  /\ UNCHANGED <<instance, procOf, alive, self, back, child, counters>>

\* self._proc.wait(): the process that was signalled goes, by SIGTERM or,
\* after three seconds, by SIGKILL; the wait for any other one times out.
Reap(t) ==
  /\ pc[t] = "reap"
  /\ LET p == procOf[self[t]] IN
       /\ Goto(t, IF p = 0 THEN Error(t) ELSE "clear")
       /\ alive' = alive \ ({p} \cap signalled)
  /\ UNCHANGED <<instance, procOf, signalled, self, back, child, counters>>

\* self._proc = None
ClearProc(t) ==
  /\ pc[t] = "clear"
  /\ procOf' = [procOf EXCEPT ![self[t]] = 0]
  /\ Goto(t, back[t])
  /\ UNCHANGED <<instance, alive, signalled, self, back, child, counters>>

StopPlayer(t) == StopCheck(t) \/ Poll(t) \/ Kill(t) \/ Reap(t) \/ ClearProc(t)

\* The helper ends by itself on a pipeline error.
ProcessExits(p) ==
  /\ p \in alive
  /\ alive' = alive \ {p}
  /\ UNCHANGED <<instance, procOf, signalled, pc, self, back, child, counters,
                 raced>>

-----------------------------------------------------------------------------
GstInit ==
  /\ instance = 0 /\ procOf = [x \in Player |-> 0]
  /\ alive = {} /\ signalled = {}
  /\ pc = [t \in Thread |-> "idle"]
  /\ self = [t \in Thread |-> 0] /\ child = 0
  /\ back = [t \in Thread |-> "idle"]
  /\ made = 0 /\ plays = 0 /\ resets = 0 /\ raced = FALSE

GstNext ==
  \/ GetInstance \/ ReturnInstance \/ Popen \/ PopenFails \/ Assign
  \/ WaitEnds \/ Reset \/ Drop
  \/ \E t \in Thread : StopPlayer(t)
  \/ \E p \in Process : ProcessExits(p)

GstSpec == GstInit /\ [][GstNext]_gstVars

-----------------------------------------------------------------------------
(* Properties *)

InStop == {"stop", "poll", "kill", "reap", "clear"}

GstTypeOK ==
  /\ instance \in {0} \cup Player
  /\ procOf \in [Player -> {0} \cup Process]
  /\ alive \subseteq Process /\ signalled \subseteq Process
  /\ pc \in [Thread -> InStop \cup {"idle", "return", "popen", "assign", "wait",
                                   "crashed", "drop"}]
  /\ self \in [Thread -> {0} \cup Player]
  /\ back \in [Thread -> {"idle", "popen", "drop"}]
  /\ child \in {0} \cup Process
  /\ made \in 0..MaxVideos /\ plays \in 0..MaxVideos /\ resets \in 0..MaxResets
  /\ raced \in BOOLEAN

Settled == pc["main"] = "idle" /\ pc["sub"] = "idle"

\* The framebuffer is released: when no video is shown no GStreamer process
\* runs, provided no reset() overlapped a get_instance(), play() or stop().
\* A reset() during the wait of a video is included.
FramebufferReleased == Settled /\ ~raced => alive = {}

\* Docstring of reset(): "calling reset() is cheap and harmless". Whenever it
\* was called, no process is left behind that nobody told to end.
ResetIsHarmless == Settled => alive \subseteq signalled

\* The same of the main thread, which goes on whenever it was called.
ResetNeverCrashes == pc["main"] # "crashed"

=============================================================================
