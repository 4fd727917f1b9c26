------------------------------ MODULE PageLoad ------------------------------
(***************************************************************************)
(* The AnthiasViewer process (src/anthias_webview/src/view.cpp) and the    *)
(* calls the viewer makes to it over D-Bus (view_webpage(), view_image()   *)
(* and view_video() of src/anthias_viewer/__init__.py). The process has    *)
(* one thread: a D-Bus call, the end of a navigation, a network reply or a *)
(* timer each runs to its end. Between two calls of one view_...() any     *)
(* number of the others may run.                                           *)
(* There is one QWebEngineView, which webView1, webView2, currentWebView   *)
(* and nextWebView all name.                                               *)
(***************************************************************************)
EXTENDS Naturals, FiniteSets

CONSTANTS
  Page, Image, Video,  \* what the playlist shows
  Animated,            \* images that are animations
  Header,              \* values of a page's custom request headers
  None,                \* no page, image, ... and no headers
  Null,                \* the 'null' sentinel of view_image()
  Flaky,               \* faults the environment may cause: "load" (a page or
                       \* an image is not fetched), "headers" (a
                       \* setRequestHeaders call fails), "crash"
  MaxLoads,            \* bound: load generations of one process
  MaxCrashes           \* bound: crashes of the process

ASSUME AssetAssumption ==
  /\ Animated \subseteq Image
  /\ Page \cap (Image \cup Video) = {} /\ Image \cap Video = {}
  /\ {None, Null} \cap (Page \cup Image \cup Video) = {}
  /\ None # Null /\ None \notin Header
  /\ None \notin [page : Page, headers : Header \cup {None}]
ASSUME FaultAssumption == Flaky \subseteq {"load", "headers", "crash"}
ASSUME BoundAssumption == MaxLoads \in Nat /\ MaxCrashes \in Nat

VARIABLES
  view,     \* the View of the running process, a record
  up,       \* the process runs
  pc,       \* the call the viewer makes next
  want,     \* what view_webpage(), view_image() or view_video() shall show
  cache,    \* current_browser_url and current_browser_headers
  retry,    \* _send_to_webview() is at its second attempt
  crashes   \* crashes so far

vars == <<view, up, pc, want, cache, retry, crashes>>

Asset == Page \cup Image \cup Video

\* The members of View:
\*   gen       loadGenerationId
\*   conn      the requestId pageLoadConnection was made with, 0 for none
\*   pending   pendingPageUri            watchdog  pageLoadWatchdog is active
\*   nav       the navigation under way, with the headers its request carries
\*   page, ok  the document of the web view, and whether it is an error page
\*   visible   the web view is            image    currentImage
\*   movie     the animation that runs    replies  image requests under way
\*   video     what the player plays      surface  videoView is visible
\*   staged    pendingHeaders             scope    what the interceptor adds
\*   interval  pendingReloadIntervalS > 0 timer    reloadTimer exists
\*   last      history: what it was last asked to show
Fresh ==
  [gen |-> 0, conn |-> 0, pending |-> None, watchdog |-> FALSE,
   nav |-> None, page |-> None, ok |-> TRUE, visible |-> FALSE,
   image |-> None, movie |-> None, replies |-> {},
   video |-> None, surface |-> FALSE, staged |-> None, scope |-> None,
   interval |-> FALSE, timer |-> FALSE, last |-> None]

Uncached == [url |-> None, headers |-> None]

-----------------------------------------------------------------------------
(* The slots and handlers of View, each the View it leaves *)

\* stop() on the web view; setHeaders() or clear() of the interceptor; load().
\* A navigation carries the headers that are scoped to its own origin.
StartPageLoad(v, p, g) ==
  [v EXCEPT !.conn = g, !.pending = p, !.watchdog = TRUE,
            !.scope = [page |-> p, headers |-> v.staged],
            !.nav = [page |-> p, headers |-> v.staged]]

HideVideo(v) ==
  IF v.surface THEN [v EXCEPT !.video = None, !.surface = FALSE] ELSE v

LoadPage(v, p) ==
  StartPageLoad(
    [HideVideo(v) EXCEPT !.gen = @ + 1, !.image = None, !.movie = None,
                         !.timer = FALSE, !.interval = FALSE, !.last = p],
    p, v.gen + 1)

\* What loadImage() and playVideo() begin with.
CancelPage(v) ==
  [v EXCEPT !.gen = @ + 1, !.conn = 0, !.watchdog = FALSE, !.pending = None,
            !.timer = FALSE, !.interval = FALSE, !.nav = None,
            !.visible = FALSE, !.movie = None]

LoadImage(v, i) ==
  [CancelPage(HideVideo(v)) EXCEPT
     !.last = i, !.replies = @ \cup {[gen |-> v.gen + 1, image |-> i]}]

\* Mutant: the sentinel takes the video down that was just started.
LoadNullHiding(v) ==
  [CancelPage(HideVideo(v)) EXCEPT
     !.image = None, !.last = IF v.surface THEN v.last ELSE None]

\* loadImage('null') clears the canvas and leaves the video surface alone.
LoadNull(v) ==
  [CancelPage(v) EXCEPT
     !.image = None, !.last = IF v.surface THEN v.last ELSE None]

PlayVideo(v, a) ==
  [CancelPage(v) EXCEPT !.image = None, !.surface = TRUE, !.video = a,
                        !.last = a]

StopVideo(v) == [v EXCEPT !.video = None]

SetRequestHeaders(v, h) == [v EXCEPT !.staged = h]

SetReloadInterval(v, r) ==
  [v EXCEPT !.interval = r, !.timer = (r /\ v.conn = 0)]

\* Mutant: whatever the outcome, the watchdog is stopped.
FinishedForGood(v, ok) ==
  LET d == [v EXCEPT !.nav = None, !.page = v.nav.page, !.ok = ok,
                     !.conn = 0, !.watchdog = FALSE]
  IN IF v.conn # 0 /\ v.conn = v.gen /\ ok
     THEN [d EXCEPT !.pending = None, !.visible = TRUE, !.timer = v.interval]
     ELSE d

\* The handler of loadFinished: one-shot, and only for the last request. A
\* failed load leaves the watchdog running, and an error page in the view. A
\* navigation without a handler is a reload.
Finished(v, ok) ==
  LET d == [v EXCEPT !.nav = None, !.page = v.nav.page, !.ok = ok,
                     !.conn = 0]
  IN IF v.conn # 0 /\ v.conn = v.gen /\ ok
     THEN [d EXCEPT !.watchdog = FALSE, !.pending = None, !.visible = TRUE,
                    !.timer = v.interval]
     ELSE d

\* Mutant: a reply that was overtaken is painted.
ShowImageAlways(v, r) ==
  [v EXCEPT !.visible = FALSE, !.image = r.image,
            !.movie = IF r.image \in Animated THEN r.image ELSE None]

\* The handler of a reply that brings data; an overtaken one is ignored.
ShowImage(v, r) ==
  IF r.gen # v.gen THEN v
  ELSE [v EXCEPT !.visible = FALSE, !.image = r.image,
                 !.movie = IF r.image \in Animated THEN r.image ELSE None]

-----------------------------------------------------------------------------
(* Events in the process *)

NavigationEnds(ok) ==
  /\ up /\ view.nav # None
  /\ ok \/ "load" \in Flaky
  /\ view' = Finished(view, ok)
  /\ UNCHANGED <<up, pc, want, cache, retry, crashes>>

ReplyArrives(r) ==
  /\ up
  /\ view' = ShowImage([view EXCEPT !.replies = @ \ {r}], r)
  /\ UNCHANGED <<up, pc, want, cache, retry, crashes>>

ReplyFails(r) ==
  /\ up /\ "load" \in Flaky
  /\ view' = [view EXCEPT !.replies = @ \ {r}]
  /\ UNCHANGED <<up, pc, want, cache, retry, crashes>>

\* handlePageLoadTimeout(), after a single shot of the watchdog
Watchdog ==
  /\ up /\ view.watchdog
  /\ view' = IF view.pending = None THEN [view EXCEPT !.watchdog = FALSE]
             ELSE StartPageLoad(view, view.pending, view.gen)
  /\ UNCHANGED <<up, pc, want, cache, retry, crashes>>

\* The slot of reloadTimer. A navigation under way is given up for it, which
\* its handler hears of.
Reload ==
  /\ up /\ view.timer /\ view.page # None
  /\ LET v == [view EXCEPT !.conn = 0] IN
       view' = [v EXCEPT !.nav =
                  [page |-> v.page,
                   headers |-> IF v.scope # None /\ v.scope.page = v.page
                               THEN v.scope.headers ELSE None]]
  /\ UNCHANGED <<up, pc, want, cache, retry, crashes>>

\* The next frame of an animation
Frame ==
  /\ up /\ view.movie # None
  /\ view' = [view EXCEPT !.image = view.movie]
  /\ UNCHANGED <<up, pc, want, cache, retry, crashes>>

Crash ==
  /\ up /\ crashes < MaxCrashes /\ "crash" \in Flaky
  /\ up' = FALSE /\ view' = Fresh /\ crashes' = crashes + 1
  /\ UNCHANGED <<pc, want, cache, retry>>

-----------------------------------------------------------------------------
(* The viewer *)

\* load_browser() forgets what the process before was showing.
Respawn == up' = TRUE /\ view' = Fresh /\ cache' = Uncached

\* view_webpage() and view_image() look first whether the process is there.
CheckAlive == IF up THEN UNCHANGED <<up, view, cache>> ELSE Respawn

Begin(l, w) ==
  /\ pc = "idle"
  /\ view.gen < MaxLoads
  /\ pc' = l
  /\ want' = w
  /\ retry' = FALSE
  /\ UNCHANGED crashes

ViewWebpage(p, h, r) ==
  /\ Begin("headers", [url |-> p, headers |-> h, refresh |-> r])
  /\ CheckAlive

ViewImage(i) ==
  /\ Begin("image", [url |-> i, headers |-> None, refresh |-> FALSE])
  /\ CheckAlive

ViewVideo(a) ==
  /\ Begin("play", [url |-> a, headers |-> None, refresh |-> FALSE])
  /\ UNCHANGED <<up, view, cache>>

\* A call that is answered: the View it leaves, and what the viewer does next
Answered(v, l) == up /\ view' = v /\ pc' = l /\ retry' = FALSE

\* _send_to_webview() finds the process gone, respawns it and tries once more.
Retried ==
  /\ ~up /\ ~retry
  /\ Respawn
  /\ retry' = TRUE
  /\ UNCHANGED <<pc, want, crashes>>

\* The second attempt fails as well: it raises, and the container restarts.
Raised ==
  /\ ~up /\ retry
  /\ Respawn
  /\ pc' = "idle"
  /\ retry' = FALSE
  /\ UNCHANGED <<want, crashes>>

\* Mutant: navigation is not deferred when the headers could not be sent.
AfterHeadersEager(applied) == IF cache = [url |-> want.url,
                                          headers |-> want.headers]
                              THEN "interval" ELSE "page"

\* view_webpage(): the page is loaded if the URL or the headers are others,
\* and deferred while the headers could not be handed over.
AfterHeaders(applied) ==
  IF applied /\ cache # [url |-> want.url, headers |-> want.headers]
  THEN "page" ELSE "interval"

SendHeaders ==
  /\ pc = "headers"
  /\ \/ /\ up
        /\ view' = SetRequestHeaders(view, want.headers)
        /\ pc' = AfterHeaders(TRUE)
     \/ /\ ~up \/ "headers" \in Flaky
        /\ pc' = AfterHeaders(FALSE)
        /\ UNCHANGED view
  /\ UNCHANGED <<up, want, cache, retry, crashes>>

SendPage ==
  /\ pc = "page"
  /\ \/ /\ Answered(LoadPage(view, want.url), "interval")
        /\ cache' = [url |-> want.url, headers |-> want.headers]
        /\ UNCHANGED <<up, want, crashes>>
     \/ Retried
     \/ Raised

\* An exception of setReloadInterval is only logged.
SendInterval ==
  /\ pc = "interval"
  /\ view' = IF up THEN SetReloadInterval(view, want.refresh) ELSE view
  /\ pc' = "idle"
  /\ UNCHANGED <<up, want, cache, retry, crashes>>

SendImage ==
  /\ pc = "image"
  /\ \/ /\ cache.url = want.url
        /\ pc' = "idle" /\ retry' = FALSE
        /\ UNCHANGED <<view, up, want, cache, crashes>>
     \/ /\ cache.url # want.url
        /\ \/ /\ Answered(LoadImage(view, want.url), "idle")
              /\ cache' = [cache EXCEPT !.url = want.url]
              /\ UNCHANGED <<up, want, crashes>>
           \/ Retried
           \/ Raised

\* play() and stop() of the media player log the second failure.
SendPlay ==
  /\ pc = "play"
  /\ \/ /\ Answered(PlayVideo(view, want.url), "null")
        /\ UNCHANGED <<up, want, cache, crashes>>
     \/ Retried
     \/ /\ ~up /\ retry
        /\ pc' = "null" /\ retry' = FALSE
        /\ UNCHANGED <<view, up, want, cache, crashes>>

\* view_image('null'). A process that view_image() finds dead when it begins
\* counts as a failed first attempt.
SendNull ==
  /\ pc = "null"
  /\ \/ /\ up /\ cache.url = Null
        /\ pc' = "stop" /\ retry' = FALSE
        /\ UNCHANGED <<view, up, want, cache, crashes>>
     \/ /\ cache.url # Null
        /\ Answered(LoadNull(view), "stop")
        /\ cache' = [cache EXCEPT !.url = Null]
        /\ UNCHANGED <<up, want, crashes>>
     \/ Retried
     \/ Raised

\* The end of the slot
SendStop ==
  /\ pc = "stop"
  /\ \/ /\ Answered(StopVideo(view), "idle")
        /\ UNCHANGED <<up, want, cache, crashes>>
     \/ Retried
     \/ /\ ~up /\ retry
        /\ pc' = "idle" /\ retry' = FALSE
        /\ UNCHANGED <<view, up, want, cache, crashes>>

Call == \/ SendHeaders \/ SendPage \/ SendInterval \/ SendImage \/ SendPlay
        \/ SendNull \/ SendStop

-----------------------------------------------------------------------------
Init ==
  /\ view = Fresh /\ up = TRUE /\ pc = "idle"
  /\ want = [url |-> None, headers |-> None, refresh |-> FALSE]
  /\ cache = Uncached /\ retry = FALSE /\ crashes = 0

Next ==
  \/ \E p \in Page, h \in Header \cup {None}, r \in BOOLEAN :
       ViewWebpage(p, h, r)
  \/ \E i \in Image : ViewImage(i)
  \/ \E a \in Video : ViewVideo(a)
  \/ Call
  \/ \E ok \in BOOLEAN : NavigationEnds(ok)
  \/ \E r \in view.replies : ReplyArrives(r) \/ ReplyFails(r)
  \/ Watchdog \/ Reload \/ Frame \/ Crash

Spec == Init /\ [][Next]_vars

\* D-Bus calls return, the watchdog fires, and of the attempts at a page not
\* every one fails or is broken off by the reload timer. Nothing is assumed of
\* what is scheduled.
Fairness ==
  /\ WF_vars(Call)
  /\ WF_vars(Watchdog)
  /\ SF_vars(view.conn # 0 /\ NavigationEnds(TRUE))

FairSpec == Spec /\ Fairness

-----------------------------------------------------------------------------
(* Properties *)

Request == [page : Page, headers : Header \cup {None}] \cup {None}

\* Every variable has its type.
TypeOK ==
  /\ view \in [gen : 0..MaxLoads + 1, conn : 0..MaxLoads + 1,
               pending : Page \cup {None}, watchdog : BOOLEAN,
               nav : Request, page : Page \cup {None}, ok : BOOLEAN,
               visible : BOOLEAN, image : Image \cup {None},
               movie : Animated \cup {None},
               replies : SUBSET [gen : 1..MaxLoads + 1, image : Image],
               video : Video \cup {None}, surface : BOOLEAN,
               staged : Header \cup {None}, scope : Request,
               interval : BOOLEAN, timer : BOOLEAN,
               last : Asset \cup {None}]
  /\ up \in BOOLEAN /\ retry \in BOOLEAN /\ crashes \in 0..MaxCrashes
  /\ pc \in {"idle", "headers", "page", "interval", "image", "play", "null",
             "stop"}
  /\ want \in [url : Asset \cup {None}, headers : Header \cup {None},
               refresh : BOOLEAN]
  /\ cache \in [url : Asset \cup {None, Null}, headers : Header \cup {None}]

\* Nothing that was overtaken comes on screen: an image that is painted, and a
\* page that is revealed or changes while it is visible, is the one that was
\* asked for last, however late the network answers.
OnlyLatestIsPainted ==
  [][ /\ view'.image \notin {view.image, None} => view'.image = view'.last
      /\ view'.visible /\ (~view.visible \/ view'.page # view.page)
           => view'.page = view'.last ]_view

\* A video keeps the screen until something else is asked for: neither the
\* 'null' image that follows it nor a late page or image covers it.
VideoKeepsScreen ==
  view.last \in Video => view.surface /\ ~view.visible /\ view.image = None

\* view_webpage() loads a page with the headers of its own asset, never with
\* those staged for the asset before. The call that is repeated after a
\* respawn is left out.
LoadsOwnHeaders ==
  [][ view'.gen = view.gen + 1 /\ view'.nav # None /\ ~retry
        => view'.nav = [page |-> want.url, headers |-> want.headers] ]_vars

\* Comment in load_browser(): the headers are sent again to a fresh process.
\* A page the viewer takes for loaded with certain headers was requested with
\* them.
CachedHeadersWereSent ==
  up /\ cache.url \in Page /\ view.nav # None =>
    view.nav.headers = cache.headers

\* Comment in setRequestHeaders(): "the very next loadPage picks it up". No
\* other load does: a retry repeats the request of the page that is pending.
RetryRepeatsRequest ==
  [][ Watchdog /\ view.scope # None => view'.scope = view.scope ]_vars

\* Comment in setReloadInterval(): "only arm the QTimer once the new page is
\* actually visible".
TimerOnceVisible ==
  view.timer /\ pc = "idle" => view.visible /\ view.page = want.url

\* Comment in armReloadTimer(): "A failure to load shows up via the existing
\* pageLoadConnection / loadFinished path". No navigation fails unheard of.
ReloadFailureShows == [][ NavigationEnds(FALSE) => view.conn # 0 ]_vars

\* Every page whose load is pending is shown in the end, unless something else
\* is asked for, whichever attempts fail or never end.
PendingPageIsShown ==
  \A p \in Page :
    view.pending = p ~>
      (view.visible /\ view.page = p /\ view.ok) \/ view.last # p

=============================================================================
