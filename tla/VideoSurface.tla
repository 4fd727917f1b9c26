---------------------------- MODULE VideoSurface ----------------------------
(***************************************************************************)
(* The video surface of the AnthiasViewer process                          *)
(* (src/anthias_webview/src/videoview.cpp), with its three ways to the     *)
(* screen: "scene" (QMediaPlayer into a QML VideoOutput), "raster"         *)
(* (QMediaPlayer into a widget that blits) and "gst" (a GStreamer pipeline *)
(* into an overlay plane or, failing that, the same widget, with a second  *)
(* pipeline for the sound).                                                *)
(* The GUI thread runs one slot, paint or bus message at a time. The       *)
(* decoder of QMediaPlayer runs beside it and posts each frame to it, and  *)
(* so does the streaming thread of the pipeline, which shares with it a    *)
(* frame under a mutex and a flag. A frame is the session (the number of   *)
(* the play() it belongs to) and its number in the clip.                   *)
(***************************************************************************)
EXTENDS Naturals, Sequences

CONSTANTS
  Modes,      \* the boards: a subset of {"scene", "raster", "gst"}
  None,
  MaxPlays,   \* bound: sessions of one process
  MaxFrames,  \* frames of a clip
  Faults      \* what may fail: "overlay" (no plane is free), "start" (a
              \* pipeline does not start), "audio", "seek", "error" (the
              \* pipeline fails while it runs), "repeat" (play() for a new
              \* asset comes without a stop() before)

ASSUME ModeAssumption == Modes \subseteq {"scene", "raster", "gst"}
ASSUME FaultAssumption ==
  Faults \subseteq {"overlay", "start", "audio", "seek", "error", "repeat"}
ASSUME BoundAssumption == MaxPlays \in Nat \ {0} /\ MaxFrames \in Nat \ {0}

Frame == [s : 1..MaxPlays, n : 1..MaxFrames]
Pipes == [s : 1..MaxPlays, n : 0..MaxFrames, overlay : BOOLEAN, armed : BOOLEAN,
          state : {"preroll", "playing", "ended", "failed"}, watch : BOOLEAN]
Sounds == [s : 1..MaxPlays, armed : BOOLEAN,
           state : {"preroll", "playing", "ended"}]
ASSUME NoneAssumption == None \notin Frame \union Pipes \union Sounds

VARIABLES
  mode,      \* rasterMode and gstMode, from the environment of the process
  session,   \* the number of the last play()
  stopped,   \* history: the number of the last session that was stopped
  visible,   \* the widget is shown
  wired,     \* renderCounterConnection
  ready,     \* sceneReadyForFrame in mode "scene", rasterReady in "raster"
  parked,    \* pendingFrame, the mailbox of one frame
  canvas,    \* the frame of the VideoOutput or the RasterVideoWidget
  dirty,     \* a paint of it is due
  shown,     \* what the last paint put on the screen
  clip,      \* QMediaPlayer: the session it plays, and its frames so far
  last,      \* history: the last frame it decoded
  posted,    \* queued calls of onVideoFrameDelivered(): frames, and None for
             \* the invalid frame that ends a stream
  overdue,   \* history: the frames that were queued so at the last stop
  pipe,      \* gstPipeline
  audio,     \* gstAudioPipeline
  latest,    \* gstLatestFrame
  pending,   \* gstDrainPending
  pushing,   \* the streaming thread is between its two halves of a push
  drains,    \* queued calls of onGstFrame()
  drawing,   \* the frame the running onGstFrame() has taken, or Idle
  kills,     \* queued calls of stop(), each by the session that failed
  victim     \* history: such a call stopped another session than its own

gate == <<wired, ready, parked, canvas, dirty, shown>>
player == <<clip, last, posted, overdue>>
gst == <<pipe, audio, latest, pending, pushing, drains, drawing, kills, victim>>
vars == <<mode, session, stopped, visible, gate, player, gst>>

Idle == [s |-> 0, n |-> 0]

\* The GUI thread is not inside onGstFrame().
GuiFree == drawing = Idle

TypeOK ==
  /\ mode \in Modes /\ session \in 0..MaxPlays /\ stopped \in 0..MaxPlays
  /\ visible \in BOOLEAN /\ wired \in BOOLEAN /\ ready \in BOOLEAN
  /\ dirty \in BOOLEAN /\ pending \in BOOLEAN /\ victim \in BOOLEAN
  /\ {parked, canvas, shown, last, latest, pushing} \subseteq Frame \union {None}
  /\ clip \in [s : 0..MaxPlays, n : 0..MaxFrames]
  /\ posted \in Seq(Frame \union {None}) /\ overdue \subseteq Frame
  /\ pipe \in Pipes \union {None} /\ audio \in Sounds \union {None}
  /\ drains \in 0..MaxPlays
  /\ drawing \in Frame \union {None, Idle}
  /\ kills \in Seq(1..MaxPlays)

\* The constructor. A render counter that could not be wired is tried again by
\* play().
Init ==
  /\ mode \in Modes /\ session = 0 /\ stopped = 0 /\ visible = FALSE
  /\ wired \in (IF mode = "scene" THEN BOOLEAN ELSE {FALSE})
  /\ ready = TRUE /\ parked = None
  /\ canvas = None /\ dirty = FALSE /\ shown = None
  /\ clip = [s |-> 0, n |-> 0] /\ last = None
  /\ posted = <<>> /\ overdue = {}
  /\ pipe = None /\ audio = None /\ latest = None /\ pending = FALSE
  /\ pushing = None /\ drains = 0 /\ drawing = Idle
  /\ kills = <<>> /\ victim = FALSE

-----------------------------------------------------------------------------
(* play(), stop() and the calls of View *)

Sometimes(fault) == IF fault \in Faults THEN BOOLEAN ELSE {FALSE}

\* gstStartAudio(): sound is best-effort, a failure leaves none.
AudioFor(s) ==
  {[s |-> s, armed |-> FALSE, state |-> "preroll"]}
  \union (IF "audio" \in Faults THEN {None} ELSE {})

Pipeline(s, o) ==
  [s |-> s, n |-> 0, overlay |-> o, armed |-> FALSE, state |-> "preroll",
   watch |-> TRUE]

\* gstPlay() after its gstStop(): the overlay plane, or the appsink, or nothing.
StartPipeline(s) ==
  \E noPlane \in Sometimes("overlay"), dead \in Sometimes("start") :
    IF dead THEN pipe' = None /\ audio' = None
    ELSE pipe' = Pipeline(s, ~noPlane) /\ audio' \in AudioFor(s)

\* What gstStop() leaves. Its change to GST_STATE_NULL waits for the streaming
\* thread to leave its callback, which is why its callers need pushing = None.
\* A drain that is queued stays queued.
NoFrame == latest' = None /\ pending' = FALSE

\* Mutant: the sound is forgotten.
GstStopKeepingAudio ==
  pushing = None /\ pipe' = None /\ UNCHANGED audio /\ NoFrame

GstStop == pushing = None /\ pipe' = None /\ audio' = None /\ NoFrame

\* View::playVideo(): show the widget, then VideoView::play(). It opens the gate
\* and empties the mailbox. What is on the canvas is left to QMediaPlayer, which
\* may mark the change of its source by an invalid frame; what is queued comes.
Play ==
  /\ GuiFree /\ session < MaxPlays
  /\ stopped = session \/ "repeat" \in Faults
  /\ session' = session + 1
  /\ visible' = TRUE
  /\ wired' \in (IF mode = "scene" THEN {wired, TRUE} ELSE {wired})
  /\ parked' = None
  /\ ready' = IF mode = "scene" THEN TRUE ELSE ready
  /\ dirty' = TRUE
  /\ IF mode = "gst"
       THEN /\ pushing = None /\ NoFrame
            /\ StartPipeline(session + 1)
            /\ canvas' = None
            /\ UNCHANGED player
       ELSE /\ clip' = [s |-> session + 1, n |-> 0] /\ last' = None
            /\ canvas' \in {canvas, None}
            /\ UNCHANGED <<posted, overdue, pipe, audio, latest, pending>>
  /\ UNCHANGED <<mode, stopped, shown, pushing, drains, drawing, kills, victim>>

\* Mutant: a parked frame outlives the stop.
ClearKeepingParked ==
  parked' = parked /\ canvas' = None /\ dirty' = TRUE /\ ready' = TRUE

\* stop() empties the mailbox, opens the gates and blanks the surface.
Clear == parked' = None /\ canvas' = None /\ dirty' = TRUE /\ ready' = TRUE

\* No call that is queued is taken back.
StopSession ==
  /\ stopped' = session
  /\ Clear
  /\ IF mode = "gst"
       THEN GstStop /\ UNCHANGED player
       ELSE /\ clip' = [s |-> 0, n |-> 0] /\ last' = None
            /\ overdue' = {posted[i] : i \in DOMAIN posted} \ {None}
            /\ UNCHANGED <<posted, pipe, audio, latest, pending>>
  /\ UNCHANGED <<mode, session, wired, shown, pushing, drains, drawing>>

Stop ==
  /\ GuiFree /\ session > 0 /\ stopped < session
  /\ StopSession
  /\ UNCHANGED <<visible, kills, victim>>

\* hideVideoSurface(), when an image or a page comes.
Hide ==
  /\ GuiFree /\ visible
  /\ StopSession
  /\ visible' = FALSE
  /\ UNCHANGED <<kills, victim>>

-----------------------------------------------------------------------------
(* Modes "scene" and "raster": the pacing gate *)

\* Mutant: nobody asks for the paint.
ForwardWithoutUpdate(f) == canvas' = f /\ dirty' = dirty

\* setVideoFrame() or setImage()
Forward(f) == canvas' = f /\ dirty' = TRUE

\* onVideoFrameDelivered(). Without a wired counter nothing would open the gate
\* again, so it is not used.
Delivered(f) ==
  IF ~ready /\ (mode = "raster" \/ wired)
    THEN parked' = f /\ UNCHANGED <<ready, canvas, dirty>>
    ELSE Forward(f) /\ ready' = FALSE /\ UNCHANGED parked

\* QMediaPlayer decodes a frame on a thread of its own: videoFrameChanged() is
\* queued for the GUI thread.
Decode ==
  /\ clip.s > 0 /\ clip.n < MaxFrames
  /\ clip' = [clip EXCEPT !.n = @ + 1]
  /\ last' = [s |-> clip.s, n |-> clip.n + 1]
  /\ posted' = Append(posted, last')
  /\ UNCHANGED <<mode, session, stopped, visible, gate, overdue, gst>>

\* The end of the stream is an invalid frame behind the others.
StreamEnds ==
  /\ clip.s > 0 /\ clip.n = MaxFrames
  /\ clip' = [s |-> 0, n |-> 0] /\ last' = None
  /\ posted' = Append(posted, None)
  /\ UNCHANGED <<mode, session, stopped, visible, gate, overdue, gst>>

\* The event loop runs the next queued call, whatever was stopped or played
\* since it was queued. An invalid frame blanks the surface.
Deliver ==
  /\ GuiFree /\ posted # <<>>
  /\ posted' = Tail(posted)
  /\ IF Head(posted) = None
       THEN parked' = None /\ Forward(None) /\ UNCHANGED ready
       ELSE Delivered(Head(posted))
  /\ UNCHANGED <<mode, session, stopped, visible, wired, shown, clip, last,
                 overdue, gst>>

\* onSceneRendered() and onRasterPainted(): a parked frame goes straight on and
\* the gate stays closed.
Rendered ==
  IF parked # None
    THEN Forward(parked) /\ parked' = None /\ UNCHANGED ready
    ELSE dirty' = FALSE /\ ready' = TRUE /\ UNCHANGED <<parked, canvas>>

\* Only a visible widget is painted. An unwired scene calls nobody back.
Paint ==
  /\ GuiFree /\ visible /\ dirty
  /\ shown' = canvas
  /\ IF mode # "scene" \/ wired THEN Rendered
     ELSE dirty' = FALSE /\ UNCHANGED <<ready, parked, canvas>>
  /\ UNCHANGED <<mode, session, stopped, visible, wired, player, gst>>

\* Damage from elsewhere: a render that no frame asked for.
Expose ==
  /\ visible /\ ~dirty
  /\ dirty' = TRUE
  /\ UNCHANGED <<mode, session, stopped, visible, wired, ready, parked, canvas,
                 shown, player, gst>>

-----------------------------------------------------------------------------
(* Mode "gst": frames *)

surface == <<mode, session, stopped, visible, gate, player>>

\* pushGstFrame() on the streaming thread, up to the end of the mutex
Stash ==
  /\ pipe # None /\ pushing = None
  /\ ~pipe.overlay /\ pipe.state = "playing" /\ pipe.n < MaxFrames
  /\ pipe' = [pipe EXCEPT !.n = @ + 1]
  /\ latest' = [s |-> pipe.s, n |-> pipe.n + 1]
  /\ pushing' = latest'
  /\ UNCHANGED <<surface, audio, pending, drains, drawing, kills, victim>>

\* testAndSetOrdered(0, 1) of the same call
Post ==
  /\ pushing # None /\ pushing' = None
  /\ pending' = TRUE
  /\ drains' = IF pending THEN drains ELSE drains + 1
  /\ UNCHANGED <<surface, pipe, audio, latest, drawing, kills, victim>>

\* onGstFrame() takes the frame, ...
Take ==
  /\ GuiFree /\ drains > 0
  /\ drains' = drains - 1
  /\ drawing' = latest
  /\ UNCHANGED <<surface, pipe, audio, latest, pending, pushing, kills, victim>>

\* ... draws it, and clears the flag at its end.
Draw ==
  /\ ~GuiFree
  /\ IF drawing # None THEN Forward(drawing) ELSE UNCHANGED <<canvas, dirty>>
  /\ drawing' = Idle /\ pending' = FALSE
  /\ UNCHANGED <<mode, session, stopped, visible, wired, ready, parked, shown,
                 player, pipe, audio, latest, pushing, drains, kills, victim>>

-----------------------------------------------------------------------------
(* Mode "gst": messages of the two buses *)

unmoved == <<surface, latest, pending, pushing, drains, drawing>>

\* A segment seek, which may be rejected.
Seeks == {TRUE} \union (IF "seek" \in Faults THEN {FALSE} ELSE {})

\* ASYNC_DONE: gstArmVideoSegment()
Preroll ==
  /\ GuiFree /\ pipe # None /\ pipe.state = "preroll"
  /\ \E ok \in Seeks :
       pipe' = [pipe EXCEPT !.state = "playing", !.armed = ok]
  /\ UNCHANGED <<unmoved, audio, kills, victim>>

\* The clip is over: SEGMENT_DONE or EOS is posted. (On the overlay, frames do
\* not pass through the process.)
Ends ==
  /\ pipe # None /\ pipe.state = "playing" /\ pushing = None
  /\ pipe.overlay \/ pipe.n = MaxFrames
  /\ pipe' = [pipe EXCEPT !.state = "ended"]
  /\ UNCHANGED <<unmoved, audio, kills, victim>>

Rewound(p) == [p EXCEPT !.state = "playing", !.n = 0]

\* gstVideoSegmentDone(), with a flushing restart when the seek is rejected;
\* gstRestartLoop() after an EOS.
Looped(p, ok) == Rewound(p)

\* Either way the sound starts again with the picture.
Loop ==
  /\ GuiFree /\ pipe # None /\ pipe.state = "ended" /\ pipe.watch
  /\ \E ok \in Seeks : pipe' = Looped(pipe, ok)
  /\ audio' = IF audio = None THEN None ELSE [audio EXCEPT !.state = "playing"]
  /\ UNCHANGED <<unmoved, kills, victim>>

\* gstArmAudioSegment(); the end of the sound, and gstAudioSegmentDone() or
\* gstLoopAudio()
AudioTurns ==
  /\ GuiFree /\ audio # None
  /\ \/ /\ audio.state = "preroll"
        /\ \E ok \in Seeks :
             audio' = [audio EXCEPT !.state = "playing", !.armed = ok]
     \/ audio.state = "playing" /\ audio' = [audio EXCEPT !.state = "ended"]
     \/ audio.state = "ended" /\ audio' = [audio EXCEPT !.state = "playing"]
  /\ UNCHANGED <<unmoved, pipe, kills, victim>>

\* An error of the sound stops the sound.
AudioFails ==
  /\ GuiFree /\ audio # None /\ "audio" \in Faults
  /\ audio' = None
  /\ UNCHANGED <<unmoved, pipe, kills, victim>>

\* The pipeline fails on a thread of its own, ...
Fails ==
  /\ "error" \in Faults /\ pipe # None /\ pipe.state # "failed"
  /\ pushing = None
  /\ pipe' = [pipe EXCEPT !.state = "failed"]
  /\ UNCHANGED <<unmoved, audio, kills, victim>>

\* ... its message removes the watch and queues a stop() behind whatever the
\* GUI thread has to do already, ...
QueueStop ==
  /\ GuiFree /\ pipe # None /\ pipe.state = "failed" /\ pipe.watch
  /\ pipe' = [pipe EXCEPT !.watch = FALSE]
  /\ kills' = Append(kills, pipe.s)
  /\ UNCHANGED <<unmoved, audio, victim>>

\* ... which stops the session of that time.
QueuedStop ==
  /\ GuiFree /\ kills # <<>>
  /\ StopSession
  /\ kills' = Tail(kills)
  /\ victim' = (victim \/ (pipe # None /\ pipe.s # Head(kills)))
  /\ UNCHANGED visible

Next ==
  \/ Play \/ Stop \/ Hide \/ Decode \/ StreamEnds \/ Deliver \/ Paint \/ Expose
  \/ Stash \/ Post \/ Take \/ Draw
  \/ Preroll \/ Ends \/ Loop \/ AudioTurns \/ AudioFails
  \/ Fails \/ QueueStop \/ QueuedStop

Spec == Init /\ [][Next]_vars

\* The streaming thread and a slot that has begun go on; the event loop passes
\* nobody over for ever, which is strong fairness where a slot that runs (a
\* drawing in progress) keeps the others waiting.
FairSpec ==
  /\ Spec
  /\ WF_vars(Stash) /\ WF_vars(Post) /\ WF_vars(Draw) /\ WF_vars(Deliver)
  /\ SF_vars(Paint) /\ SF_vars(Take) /\ SF_vars(Preroll) /\ SF_vars(Loop)

-----------------------------------------------------------------------------
(* Properties *)

\* After a stop nothing of what was stopped can reach the screen again, neither
\* from the mailbox nor from a drain that was queued; and GStreamer's surface
\* never holds a frame of an earlier asset. The exception is QMediaPlayer's: a
\* frame that was decoded before the stop and whose call is still queued then
\* finds the gate open, and comes.
NothingStoppedReturns ==
  \A f \in {parked, canvas} \ {None} :
    /\ f.s > stopped \/ f \in overdue
    /\ mode = "gst" => f.s = session

\* stop() says "black beats a stale frame when the widget is next shown": what
\* a widget is shown with is never a frame that was stopped.
BlackWhenShown ==
  [][~visible /\ visible' => canvas' = None \/ canvas'.s > stopped]_vars

\* The sound is never heard without its picture: it belongs to the asset whose
\* pipeline runs, whatever fails to start or is torn down.
SoundHasPicture == audio # None => pipe # None /\ audio.s = pipe.s

\* The newest frame the player delivered is painted although nothing follows it
\* (a stalled stream, a still at the end): the gate never holds it back for
\* ever.
FreshestIsShown ==
  \A f \in Frame :
    (last = f /\ visible) ~> (shown = f \/ last # f \/ ~visible)

\* A video on the raster widget shows a frame of its own, although frames are
\* overwritten and drains coalesced, unless it ends before.
GstFrameIsShown ==
  \A s \in 1..MaxPlays :
    (pipe # None /\ pipe.s = s /\ ~pipe.overlay /\ visible)
      ~> ((shown # None /\ shown.s = s) \/ pipe = None \/ pipe.s # s
          \/ pipe.state = "failed" \/ ~visible)

\* A clip never freezes at its end: it starts again, whichever seek fails.
ClipsLoop ==
  (pipe # None /\ pipe.state = "ended")
    ~> (pipe = None \/ pipe.state # "ended")

\* The comment at the error message: the failed pipeline is torn down, and the
\* next asset builds its own.
ErrorStopsItsOwn == ~victim

=============================================================================
