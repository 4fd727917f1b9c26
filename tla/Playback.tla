------------------------------ MODULE Playback -------------------------------
(***************************************************************************)
(* The two threads of the viewer around the webview process               *)
(* (src/anthias_viewer/__init__.py):                                       *)
(*   - the main thread: start_loop(), asset_loop(), view_image(),          *)
(*     view_webpage(), view_video(), load_browser(), _send_to_webview();   *)
(*   - the subscriber thread: the handlers of the commands, one at a time, *)
(*     each a list of writes to shared variables that the main thread      *)
(*     reads without a lock;                                               *)
(*   - the AnthiasViewer process, which dies at any time, and dies some    *)
(*     time after it was told to terminate.                                *)
(* What get_next_asset() chooses is the business of module Scheduler: here *)
(* it is any active asset. The launch environment of the webview (screen   *)
(* rotation of the boards without a compositor, dark mode) is one `mode`.  *)
(***************************************************************************)
EXTENDS Naturals, Sequences, FiniteSets

CONSTANTS
  Asset,      \* playlist assets, each with a URI of its own
  Kind,       \* Kind[a]: "image", "web", "video" or "other", by mime type
  Broken,     \* assets whose file or URL is not there
  Mode,       \* launch environments of the webview
  Wayland,    \* the board runs under a compositor that can power outputs
  Commands,   \* the commands the operator and the server send
  None,       \* Python's None
  Standby, Black, Null  \* STANDBY_SCREEN, BLACK_SCREEN, 'null'

ASSUME AssetAssumption ==
  /\ Kind \in [Asset -> {"image", "web", "video", "other"}]
  /\ Broken \subseteq Asset
ASSUME CommandAssumption ==
  Commands \subseteq {"blank", "unblank", "stop", "play", "next", "reload"}
ASSUME NameAssumption ==
  /\ Cardinality({None, Standby, Black, Null}) = 4
  /\ {None, Standby, Black, Null} \cap Asset = {}
ASSUME BoardAssumption == Wayland \in BOOLEAN /\ Mode # {}

VARIABLES
  stopped,    \* loop_is_stopped
  blanked,    \* display_blanked
  skip,       \* skip_event
  bounce,     \* _rotation_bounce_pending
  applied,    \* _last_applied_rotation, _last_applied_dark_mode
  loaded,     \* settings, as the viewer last read them
  conf,       \* anthias.conf
  active,     \* the assets that are active
  current,    \* scheduler.current_asset_id
  url,        \* current_browser_url
  pc,         \* where the main thread is
  target,     \* the argument of view_image() or view_webpage()
  job,        \* the asset asset_loop() works on
  call,       \* the D-Bus call under way: "show", "play" or "stop"
  retrying,   \* _send_to_webview() is past its first attempt
  todo,       \* the rest of the handler the subscriber thread runs
  proc,       \* the webview: "up", "term" (told to terminate) or "down"
  procMode,   \* the environment it was launched with
  page,       \* the page or image it was last told to load
  video,      \* the video on its video surface
  power       \* the outputs are powered

cmdVars == <<stopped, blanked, skip, bounce, applied, loaded>>
envVars == <<conf, active>>
mainVars == <<current, url, pc, target, job, call, retrying>>
procVars == <<proc, procMode, page, video>>
vars == <<cmdVars, envVars, mainVars, todo, procVars, power>>

Uri == Asset \cup {Standby, Black, Null}
Alive == proc # "down"

-----------------------------------------------------------------------------
(* start_loop() and the top of asset_loop() *)

Loop ==
  /\ pc = "loop"
  /\ pc' = IF stopped THEN "paused" ELSE "tick"
  /\ UNCHANGED <<cmdVars, envVars, current, url, target, job, call, retrying,
                 todo, procVars, power>>

\* `if display_blanked and current_browser_url != BLACK_SCREEN`
Paused ==
  /\ pc = "paused"
  /\ IF blanked /\ url # Black
     THEN /\ target' = Black /\ call' = "show" /\ retrying' = FALSE
          /\ pc' = "alive"
     ELSE /\ pc' = "loop"
          /\ UNCHANGED <<target, call, retrying>>
  /\ UNCHANGED <<cmdVars, envVars, current, url, job, todo, procVars, power>>

\* _consume_pending_rotation_bounce(): the flag, then the process
Consume ==
  /\ pc = "tick"
  /\ bounce' = FALSE
  /\ pc' = IF bounce THEN "terminate" ELSE "fetch"
  /\ UNCHANGED <<stopped, blanked, skip, applied, loaded, envVars, current,
                 url, target, job, call, retrying, todo, procVars, power>>

Terminate ==
  /\ pc = "terminate"
  /\ proc' = IF Alive THEN "term" ELSE "down"
  /\ url' = None
  /\ pc' = "fetch"
  /\ UNCHANGED <<cmdVars, envVars, current, target, job, call, retrying,
                 todo, procMode, page, video, power>>

View(uri) ==
  target' = uri /\ call' = "show" /\ retrying' = FALSE /\ pc' = "alive"

\* Mutant: an empty playlist leaves the screen as it is.
FetchNoneNoStandby ==
  /\ pc = "fetch"
  /\ active = {}
  /\ current' = None /\ job' = None
  /\ pc' = "clear"
  /\ UNCHANGED <<cmdVars, envVars, url, target, call, retrying, todo,
                 procVars, power>>

\* get_next_asset() on an empty playlist
FetchNone ==
  /\ pc = "fetch"
  /\ active = {}
  /\ current' = None /\ job' = None
  /\ View(Standby)
  /\ UNCHANGED <<cmdVars, envVars, url, todo, procVars, power>>

\* The arms of asset_loop() by mime type. A video's play() reads the
\* settings again.
Fetch(a) ==
  /\ pc = "fetch"
  /\ a \in active \ Broken
  /\ current' = a /\ job' = a
  /\ \/ Kind[a] \in {"image", "web"} /\ View(a) /\ UNCHANGED loaded
     \/ /\ Kind[a] = "video"
        /\ loaded' = conf
        /\ call' = "play" /\ retrying' = FALSE /\ pc' = "send"
        /\ UNCHANGED target
     \/ /\ Kind[a] = "other" /\ pc' = "loop"
        /\ UNCHANGED <<loaded, target, call, retrying>>
  /\ UNCHANGED <<stopped, blanked, skip, bounce, applied, envVars, url, todo,
                 procVars, power>>

\* The asset is not displayable: nothing is loaded.
FetchBroken(a) ==
  /\ pc = "fetch"
  /\ a \in active \cap Broken
  /\ current' = a /\ job' = None
  /\ pc' = "clear"
  /\ UNCHANGED <<cmdVars, envVars, url, target, call, retrying, todo,
                 procVars, power>>

-----------------------------------------------------------------------------
(* view_image(), view_webpage(), view_video() and load_browser() *)

Shown == IF target = Black THEN "loop" ELSE "clear"
IsWeb == target \in Asset /\ Kind[target] = "web"

\* `browser is None or not browser.is_alive()`
CheckAlive ==
  /\ pc = "alive"
  /\ pc' = IF Alive THEN "compare" ELSE "latch"
  /\ UNCHANGED <<cmdVars, envVars, current, url, target, job, call, retrying,
                 todo, procVars, power>>

\* The call is made unless the URL is the one on screen.
Compare ==
  /\ pc = "compare"
  /\ pc' = IF url = target THEN Shown ELSE "send"
  /\ UNCHANGED <<cmdVars, envVars, current, url, target, job, call, retrying,
                 todo, procVars, power>>

\* setRequestHeaders fails in transit: the page is left for the next tick.
Defer ==
  /\ pc = "compare"
  /\ IsWeb
  /\ pc' = "clear"
  /\ UNCHANGED <<cmdVars, envVars, current, url, target, job, call, retrying,
                 todo, procVars, power>>

\* What the process does with the call: a page or image takes the video
\* surface down, except for 'null', and a video blanks the page.
Deliver ==
  /\ page' = CASE call = "show" -> target
               [] call = "play" -> Null
               [] call = "stop" -> page
  /\ video' = CASE call = "show" -> IF target = Null THEN video ELSE None
                [] call = "play" -> job
                [] call = "stop" -> None
  /\ UNCHANGED <<proc, procMode>>

\* Where the main thread goes after the call
Resume ==
  \/ call = "show" /\ pc' = "cache" /\ UNCHANGED <<target, call, retrying>>
  \/ call = "play" /\ View(Null)
  \/ call = "stop" /\ pc' = "loop" /\ UNCHANGED <<target, call, retrying>>

\* _send_to_webview(): the first attempt, or the retry after a respawn
Send ==
  /\ pc = "send"
  /\ Alive
  /\ Deliver
  /\ Resume
  /\ UNCHANGED <<cmdVars, envVars, current, url, job, todo, power>>

\* The process is gone: respawn it and retry once.
SendGone ==
  /\ pc = "send"
  /\ ~Alive /\ ~retrying
  /\ retrying' = TRUE
  /\ pc' = "latch"
  /\ UNCHANGED <<cmdVars, envVars, current, url, target, job, call, todo,
                 procVars, power>>

\* A failed respawn or retry is logged by the media player and escapes
\* from the views.
GiveUp ==
  /\ \/ pc = "send" /\ ~Alive /\ retrying
     \/ pc = "spawn"
  /\ IF retrying /\ call # "show"
     THEN Resume
     ELSE pc' = "exit" /\ UNCHANGED <<target, call, retrying>>
  /\ UNCHANGED <<cmdVars, envVars, current, url, job, todo, procVars, power>>

\* Mutant: the URL of the previous process is kept.
LatchKeepingUrl ==
  /\ pc = "latch"
  /\ applied' = loaded
  /\ pc' = "spawn"
  /\ UNCHANGED <<stopped, blanked, skip, bounce, loaded, envVars, current,
                 url, target, job, call, retrying, todo, procVars, power>>

\* load_browser(): the latches and resets before the spawn
Latch ==
  /\ pc = "latch"
  /\ applied' = loaded
  /\ url' = None
  /\ pc' = "spawn"
  /\ UNCHANGED <<stopped, blanked, skip, bounce, loaded, envVars, current,
                 target, job, call, retrying, todo, procVars, power>>

\* _spawn_webview_once(): the environment is built from the settings again.
Spawn ==
  /\ pc = "spawn"
  /\ proc' = "up" /\ procMode' = loaded
  /\ page' = None /\ video' = None
  /\ pc' = IF retrying THEN "send" ELSE "compare"
  /\ UNCHANGED <<cmdVars, envVars, current, url, target, job, call, retrying,
                 todo, power>>

\* current_browser_url = uri
Cache ==
  /\ pc = "cache"
  /\ url' = target
  /\ pc' = Shown
  /\ UNCHANGED <<cmdVars, envVars, current, target, job, call, retrying,
                 todo, procVars, power>>

\* skip_event.clear()
Clear ==
  /\ pc = "clear"
  /\ skip' = FALSE
  /\ pc' = "wait"
  /\ UNCHANGED <<stopped, blanked, bounce, applied, loaded, envVars, current,
                 url, target, job, call, retrying, todo, procVars, power>>

\* skip_event.wait(timeout=duration) returns, set or not; a video is stopped.
WaitEnds ==
  /\ pc = "wait"
  /\ IF job # None /\ Kind[job] = "video"
     THEN call' = "stop" /\ retrying' = FALSE /\ pc' = "send"
     ELSE pc' = "loop" /\ UNCHANGED <<call, retrying>>
  /\ UNCHANGED <<cmdVars, envVars, current, url, target, job, todo, procVars,
                 power>>

Main ==
  \/ Loop \/ Paused \/ Consume \/ Terminate
  \/ FetchNone \/ \E a \in Asset : Fetch(a) \/ FetchBroken(a)
  \/ CheckAlive \/ Compare \/ Defer \/ Send \/ SendGone \/ Latch \/ Spawn
  \/ Cache \/ Clear \/ WaitEnds

-----------------------------------------------------------------------------
(* The subscriber thread: each handler is the list of its writes. *)

\* Mutant: `play` does not know about the blanked display.
HandlerPlayOnly(c) ==
  CASE c = "blank" -> <<"blank", "stop", "off", "skip">>
    [] c = "unblank" -> <<"on", "unblank", "start", "skip">>
    [] c = "stop" -> <<"skip", "stop">>
    [] c = "play" -> <<"start">>
    [] c = "next" -> <<"skip">>
    [] c = "reload" -> <<"load", "reapply", "check">>

\* Mutant: `blank` does not stop the asset loop.
HandlerBlankRunning(c) ==
  CASE c = "blank" -> <<"blank", "off", "skip">>
    [] c = "unblank" -> <<"on", "unblank", "start", "skip">>
    [] c = "stop" -> <<"skip", "stop">>
    [] c = "play" -> <<"start">>
    [] c = "next" -> <<"skip">>
    [] c = "reload" -> <<"load", "reapply", "check">>

Handler(c) ==
  CASE c = "blank" -> <<"blank", "stop", "off", "skip">>
    [] c = "unblank" -> <<"on", "unblank", "start", "skip">>
    [] c = "stop" -> <<"skip", "stop">>
    [] c = "play" -> IF blanked THEN <<"on", "unblank", "start", "skip">>
                                ELSE <<"start">>
    [] c = "next" -> <<"skip">>
    [] c = "reload" -> <<"load", "reapply", "check">>

Receive(c) ==
  /\ todo = <<>>
  /\ todo' = Handler(c)
  /\ UNCHANGED <<cmdVars, envVars, mainVars, procVars, power>>

Do(op) == todo # <<>> /\ Head(todo) = op

SetFlags ==
  /\ \/ Do("blank") /\ blanked' = TRUE /\ UNCHANGED <<stopped, skip>>
     \/ Do("unblank") /\ blanked' = FALSE /\ UNCHANGED <<stopped, skip>>
     \/ Do("stop") /\ stopped' = TRUE /\ UNCHANGED <<blanked, skip>>
     \/ Do("start") /\ stopped' = FALSE /\ UNCHANGED <<blanked, skip>>
     \/ Do("skip") /\ skip' = TRUE /\ UNCHANGED <<stopped, blanked>>
  /\ todo' = Tail(todo)
  /\ UNCHANGED <<bounce, applied, loaded, envVars, mainVars, procVars, power>>

\* _apply_wlr_power(), which may fail and is not tried again
SetPower ==
  /\ Do("off") \/ Do("on")
  /\ power' \in IF Wayland THEN {power, Do("on")} ELSE {power}
  /\ todo' = Tail(todo)
  /\ UNCHANGED <<cmdVars, envVars, mainVars, procVars>>

\* load_settings()
LoadSettings ==
  /\ Do("load")
  /\ loaded' = conf
  /\ todo' = Tail(todo)
  /\ UNCHANGED <<stopped, blanked, skip, bounce, applied, envVars, mainVars,
                 procVars, power>>

\* Mutant: the new mode is latched and no respawn is asked for.
ReapplyNoBounce ==
  /\ Do("reapply")
  /\ applied' = loaded
  /\ todo' = Tail(todo)
  /\ UNCHANGED <<stopped, blanked, skip, bounce, loaded, envVars, mainVars,
                 procVars, power>>

\* _maybe_reapply_rotation() and _maybe_reapply_dark_mode(): the new value
\* is latched, then the main thread is asked for a respawn and woken.
Reapply ==
  /\ Do("reapply")
  /\ IF loaded = applied
     THEN todo' = Tail(todo) /\ UNCHANGED applied
     ELSE applied' = loaded /\ todo' = <<"bounce", "skip", "check">>
  /\ UNCHANGED <<stopped, blanked, skip, bounce, loaded, envVars, mainVars,
                 procVars, power>>

SetBounce ==
  /\ Do("bounce")
  /\ bounce' = TRUE
  /\ todo' = Tail(todo)
  /\ UNCHANGED <<stopped, blanked, skip, applied, loaded, envVars, mainVars,
                 procVars, power>>

\* _skip_if_current_asset_inactive()
CheckCurrent ==
  /\ Do("check")
  /\ todo' = IF current # None /\ current \notin active
             THEN <<"skip">> ELSE <<>>
  /\ UNCHANGED <<cmdVars, envVars, mainVars, procVars, power>>

Subscriber ==
  SetFlags \/ SetPower \/ LoadSettings \/ Reapply \/ SetBounce \/ CheckCurrent

-----------------------------------------------------------------------------
(* The server, the webview process and the container *)

Edit(s) ==
  /\ active # s
  /\ active' = s
  /\ UNCHANGED <<cmdVars, conf, mainVars, todo, procVars, power>>

Configure(m) ==
  /\ conf # m
  /\ conf' = m
  /\ UNCHANGED <<cmdVars, active, mainVars, todo, procVars, power>>

Gone == proc' = "down" /\ page' = None /\ video' = None /\ UNCHANGED procMode

ProcessDies ==
  /\ proc = "up"
  /\ Gone
  /\ UNCHANGED <<cmdVars, envVars, mainVars, todo, power>>

\* SIGTERM takes effect.
TermEnds ==
  /\ proc = "term"
  /\ Gone
  /\ UNCHANGED <<cmdVars, envVars, mainVars, todo, power>>

\* The exception left main(): the container starts again, and so do the
\* compositor and every variable of the viewer.
Restart ==
  /\ pc = "exit"
  /\ stopped' = FALSE /\ blanked' = FALSE /\ skip' = FALSE /\ bounce' = FALSE
  /\ applied' = conf /\ loaded' = conf
  /\ current' = None /\ url' = None /\ pc' = "loop" /\ target' = Standby
  /\ job' = None /\ call' = "show" /\ retrying' = FALSE /\ todo' = <<>>
  /\ proc' = "up" /\ procMode' = conf /\ page' = None /\ video' = None
  /\ power' = TRUE
  /\ UNCHANGED envVars

-----------------------------------------------------------------------------
Init ==
  /\ conf \in Mode
  /\ active \in SUBSET Asset
  /\ stopped = FALSE /\ blanked = FALSE /\ skip = FALSE /\ bounce = FALSE
  /\ applied = conf /\ loaded = conf
  /\ current = None /\ url = None /\ pc = "loop" /\ target = Standby
  /\ job = None /\ call = "show" /\ retrying = FALSE /\ todo = <<>>
  /\ proc = "up" /\ procMode = conf /\ page = None /\ video = None
  /\ power = TRUE

Next ==
  \/ Main
  \/ GiveUp
  \/ \E c \in Commands : Receive(c)
  \/ Subscriber
  \/ \E s \in SUBSET Asset : Edit(s)
  \/ \E m \in Mode : Configure(m)
  \/ ProcessDies
  \/ TermEnds
  \/ Restart

Spec == Init /\ [][Next]_vars

\* Both threads run, every wait ends after the asset's duration, a process
\* told to terminate does, and the container is restarted. A respawn may
\* fail instead of succeeding; nobody owes commands or edits.
FairSpec ==
  /\ Spec
  /\ WF_vars(Main \/ GiveUp)
  /\ WF_vars(Subscriber)
  /\ WF_vars(TermEnds)
  /\ WF_vars(Restart)

-----------------------------------------------------------------------------
(* Properties *)

Pcs == {"loop", "paused", "tick", "terminate", "fetch", "alive", "compare",
        "send", "latch", "spawn", "cache", "clear", "wait", "exit"}
Ops == {"blank", "unblank", "stop", "start", "skip", "off", "on", "load",
        "reapply", "check", "bounce"}

\* Every variable has its type.
TypeOK ==
  /\ {stopped, blanked, skip, bounce, retrying, power} \subseteq BOOLEAN
  /\ {applied, loaded, conf, procMode} \subseteq Mode
  /\ active \subseteq Asset
  /\ {current, job, video} \subseteq Asset \cup {None}
  /\ {url, page} \subseteq Uri \cup {None}
  /\ target \in Uri
  /\ pc \in Pcs
  /\ call \in {"show", "play", "stop"}
  /\ todo \in Seq(Ops)
  /\ proc \in {"up", "term", "down"}

Idle == todo = <<>>

\* The unchanged-URL short-circuit is safe: when the main thread is between
\* two views, current_browser_url is None or names what the running webview
\* was last told to load, and a video surface is up only under 'null'. Were
\* it not so, an asset would be skipped on a blank or foreign screen.
UrlIsShown ==
  Alive /\ pc \in {"loop", "paused", "tick", "fetch", "clear", "wait"} =>
    /\ url \in {None, page}
    /\ video # None => url \in {None, Null}

\* play_playback(): "never end up stopped-but-looking-live or repaint black
\* on a later stop": a blanked display goes with a stopped loop.
BlankedIsStopped == Idle /\ blanked => stopped

Lit == Alive /\ power /\ (page \in Asset \/ video # None)

\* A display that stays blanked goes dark for good, whatever the main thread
\* was showing, and whether or not the outputs could be powered off.
BlankedGoesDark == <>[]blanked => <>[]~Lit

\* A mode that stays, is read and latched, and finds the loop running, is
\* that of every webview in the end.
ModeReaches(m) ==
  <>[](loaded = m /\ conf = m /\ Idle /\ applied = m /\ ~stopped)
    => <>[](proc = "up" => procMode = m)

\* A mode that the viewer has read and that stays is the mode of the
\* webview in the end, if the loop is not stopped and the playlist has no
\* video: play() reads the settings too, on the other thread, and a change
\* that it reads between the load of a reload and its comparison is lost
\* (Playback_video.cfg).
ModeIsApplied ==
  (\A a \in Asset : Kind[a] # "video") => \A m \in Mode : ModeReaches(m)

\* Docstring of _maybe_reapply_rotation(): "the next asset_loop tick ... spawns
\* it with the updated env", whatever the playlist holds.
ModeAlwaysApplied == \A m \in Mode : ModeReaches(m)

Leaves(a) == <>[](Alive => page # a /\ video # a)

\* An empty playlist, an image or a video is what get_next_asset() returned.
\* Nothing replaces what is on screen when it is an asset that cannot be
\* displayed, and it may be so for a page whose headers cannot be sent.
FetchShown ==
  \/ FetchNone
  \/ \E a \in Asset : Kind[a] \in {"image", "video"} /\ Fetch(a)

\* Issue 2430, with its exception: a deactivated asset leaves the screen, if
\* the loop is not stopped, unless all that is fetched from some time on are
\* assets that cannot be displayed (or pages). As long as the loop comes by
\* anything else again and again, no number of missing files, crashes,
\* failed respawns and skips in between keeps the asset on screen.
InactiveLeaves ==
  \A a \in Asset :
    <>[](a \notin active /\ ~stopped) /\ []<><<FetchShown>>_vars => Leaves(a)

\* Issue 2430 as its comment states it: the exception above is the case that
\* asset_loop() leaves on screen (Playback_stale.cfg).
InactiveAlwaysLeaves ==
  \A a \in Asset : <>[](a \notin active /\ ~stopped) => Leaves(a)

\* Comment in blank_display(): the main thread is woken out of its sleep so
\* that the black repaint is prompt.
BlankIsPrompt == Idle /\ blanked => ~(pc = "wait" /\ ~skip)

\* Docstring of stop_playback(): the loop is paused on the current frame; a
\* turn of the loop that begins after `stop` woke it shows no other asset.
StopKeepsFrame ==
  [][pc = "loop" /\ page \in Asset /\ todo = <<"stop">> /\ ~blanked
       => pc' # "tick"]_vars

\* Docstring of _consume_pending_rotation_bounce(): the next view finds the
\* terminated process dead, and loads nothing into it.
TerminatedIsDead == [][proc = "term" => page' \in {page, None}]_vars

\* Docstring of unblank_display(): the display is powered back on.
UnblankPowersOn == Idle /\ ~blanked => power

=============================================================================
