---------------------------- MODULE PlaybackProofs ----------------------------
(***************************************************************************)
(* Proofs about Playback, for every playlist, board, set of commands and   *)
(* set of launch modes: the shortcut for an unchanged URL never meets a    *)
(* wrong screen, and a blanked display goes with a stopped loop.           *)
(*                                                                         *)
(* The main thread changes the screen in several steps and the webview may *)
(* die before any of them: ScreenInv says what is known of the screen at   *)
(* each. The handlers of the subscriber thread write one flag at a time:   *)
(* PlanInv says which writes are left whenever the flags disagree.         *)
(***************************************************************************)
EXTENDS Playback, TLAPS

\* The URL and the video surface agree with what the webview shows.
Matches == url \in {None, page} /\ (video # None => url \in {None, Null})

\* After play(), the page is 'null' and the URL still to be set to it.
UnderVideo == target = Null /\ page = Null

\* Where views begin and end, the screen is the one of the URL.
BetweenViews ==
  Alive /\ pc \in {"loop", "paused", "tick", "terminate", "fetch", "clear", "wait"}
    => Matches

\* Inside a view: before the call, which may follow that of a video, and after it.
InsideView ==
  /\ Alive /\ pc \in {"alive", "compare", "send"} =>
       Matches \/ (call = "show" /\ UnderVideo)
  /\ Alive /\ pc = "cache" => page = target /\ (video # None => target = Null)

\* A respawn: there is no webview, and nothing of the last one is remembered.
Respawning ==
  /\ pc \in {"latch", "spawn"} => ~Alive
  /\ pc = "spawn" => url = None

\* Only _send_to_webview() retries, and what load_browser() itself is called for
\* is a view.
Calls ==
  /\ call \in {"show", "play", "stop"}
  /\ pc \in {"alive", "compare"} => call = "show" /\ ~retrying
  /\ pc \in {"latch", "spawn"} /\ ~retrying => call = "show"

ScreenInv == BetweenViews /\ InsideView /\ Respawning /\ Calls

\* What can be left of a handler.
Rests ==
  { <<>>, <<"skip">>, <<"start">>, <<"stop">>, <<"check">>,
    <<"skip", "stop">>, <<"off", "skip">>, <<"start", "skip">>, <<"skip", "check">>,
    <<"reapply", "check">>, <<"stop", "off", "skip">>, <<"unblank", "start", "skip">>,
    <<"load", "reapply", "check">>, <<"bounce", "skip", "check">>,
    <<"blank", "stop", "off", "skip">>, <<"on", "unblank", "start", "skip">> }

\* The loop is about to be started.
Starts == {<<"start">>, <<"start", "skip">>}

\* The loop of a blanked display runs only until the handler that blanked it stops
\* it, and it is started only once the display is not blanked any more.
PlanInv ==
  /\ todo \in Rests
  /\ blanked /\ ~stopped => todo = <<"stop", "off", "skip">>
  /\ todo \in Starts => ~blanked

-----------------------------------------------------------------------------
(* The screen *)

\* What a call leaves on the screen.
LEMMA DeliverShows ==
  ASSUME Deliver, call \in {"show", "play", "stop"}
  PROVE  /\ call = "show" => /\ page' = target
                             /\ target # Null => video' = None
         /\ call = "play" => page' = Null
         /\ call = "stop" => page' = page /\ video' = None
         /\ Alive' = Alive
BY DEF Deliver, Alive

\* Every step of the main thread keeps the screen and the URL in step.
LEMMA MainScreen ==
  ASSUME ScreenInv, Main \/ GiveUp PROVE ScreenInv'
<1> USE DEF ScreenInv, BetweenViews, InsideView, Respawning, Calls, Matches,
            UnderVideo, Alive, View
<1>1. CASE Loop
  BY <1>1 DEF Loop, cmdVars, envVars, procVars
<1>2. CASE Paused
  BY <1>2 DEF Paused, cmdVars, envVars, procVars
<1>3. CASE Consume
  BY <1>3 DEF Consume, cmdVars, envVars, procVars
<1>4. CASE Terminate
  BY <1>4 DEF Terminate, cmdVars, envVars, procVars
<1>5. CASE FetchNone
  BY <1>5 DEF FetchNone, cmdVars, envVars, procVars
<1>6. ASSUME NEW a \in Asset, Fetch(a) PROVE ScreenInv'
  BY <1>6 DEF Fetch, envVars, procVars
<1>7. ASSUME NEW a \in Asset, FetchBroken(a) PROVE ScreenInv'
  BY <1>7 DEF FetchBroken, procVars
<1>8. CASE CheckAlive
  BY <1>8 DEF CheckAlive, Shown, procVars
<1>9. CASE Compare
  BY <1>9 DEF Compare, Shown, procVars
<1>10. CASE Defer
  BY <1>10, NameAssumption DEF Defer, IsWeb, procVars
<1>11. CASE Send
  <2>1. CASE call = "show"
    BY <1>11, <2>1, DeliverShows DEF Send, Resume
  <2>2. CASE call = "play"
    BY <1>11, <2>2, DeliverShows DEF Send, Resume
  <2>3. CASE call = "stop"
    BY <1>11, <2>3, DeliverShows DEF Send, Resume
  <2> QED BY <2>1, <2>2, <2>3
<1>12. CASE SendGone
  BY <1>12 DEF SendGone, procVars
<1>13. CASE Latch
  BY <1>13 DEF Latch, procVars
<1>14. CASE Spawn
  BY <1>14 DEF Spawn, procVars
<1>15. CASE Cache
  BY <1>15 DEF Cache, Shown, procVars
<1>16. CASE Clear
  BY <1>16 DEF Clear, procVars
<1>17. CASE WaitEnds
  BY <1>17 DEF WaitEnds, procVars
<1>18. CASE GiveUp
  BY <1>18 DEF GiveUp, Resume, procVars
<1> QED BY <1>1, <1>2, <1>3, <1>4, <1>5, <1>6, <1>7, <1>8, <1>9, <1>10, <1>11, <1>12, <1>13, <1>14, <1>15, <1>16, <1>17, <1>18 DEF Main

\* The other steps touch the screen only by ending the process, or by starting the
\* viewer anew.
LEMMA ScreenStep ==
  ASSUME ScreenInv, [Next]_vars PROVE ScreenInv'
<1>1. ASSUME UNCHANGED <<mainVars, procVars>> PROVE ScreenInv'
  BY <1>1 DEF mainVars, procVars, ScreenInv, BetweenViews, InsideView, Respawning, Calls,
              Matches, UnderVideo, Alive
<1>2. ASSUME UNCHANGED mainVars, proc' = "down" PROVE ScreenInv'
  BY <1>2 DEF mainVars, ScreenInv, BetweenViews, InsideView, Respawning, Calls, Alive
<1>3. CASE ProcessDies \/ TermEnds
  BY <1>2, <1>3 DEF ProcessDies, TermEnds, Gone
<1>4. CASE Restart
  BY <1>4 DEF Restart, ScreenInv, BetweenViews, InsideView, Respawning, Calls, Matches
<1>5. CASE Subscriber
  BY <1>1, <1>5 DEF Subscriber, SetFlags, SetPower, LoadSettings, Reapply, SetBounce,
                    CheckCurrent
<1>6. ASSUME NEW c \in Commands, Receive(c) PROVE ScreenInv'
  BY <1>1, <1>6 DEF Receive
<1>7. ASSUME NEW s \in SUBSET Asset, Edit(s) PROVE ScreenInv'
  BY <1>1, <1>7 DEF Edit
<1>8. ASSUME NEW m \in Mode, Configure(m) PROVE ScreenInv'
  BY <1>1, <1>8 DEF Configure
<1>9. CASE UNCHANGED vars
  BY <1>1, <1>9 DEF vars
<1> QED BY MainScreen, <1>3, <1>4, <1>5, <1>6, <1>7, <1>8, <1>9 DEF Next

\* The unchanged-URL shortcut of the views is safe: between two views,
\* current_browser_url is None or names what the running webview shows, and a
\* video is up only under 'null'.
THEOREM ShortcutIsSafe == Spec => []UrlIsShown
<1>1. Init => ScreenInv
  BY DEF Init, ScreenInv, BetweenViews, InsideView, Respawning, Calls, Matches
<1>2. ScreenInv => UrlIsShown
  BY DEF ScreenInv, BetweenViews, Matches, UrlIsShown
<1> QED BY <1>1, <1>2, ScreenStep, PTL DEF Spec

-----------------------------------------------------------------------------
(* The flags *)

\* A step of the main thread writes neither flag; a restart clears them.
LEMMA MainPlan ==
  ASSUME PlanInv, Main \/ GiveUp PROVE PlanInv'
<1>1. UNCHANGED <<todo, stopped, blanked>>
  BY DEF Main, GiveUp, Loop, Paused, Consume, Terminate, FetchNone, Fetch, FetchBroken,
         CheckAlive, Compare, Defer, Send, SendGone, Latch, Spawn, Cache, Clear, WaitEnds,
         cmdVars, procVars
<1> QED BY <1>1 DEF PlanInv

\* What is left of a handler before and after each of its writes.
LEMMA Follows ==
  ASSUME NEW rest \in Rests, rest # <<>>
  PROVE  /\ Tail(rest) \in Rests
         /\ Tail(rest) \in Starts => Head(rest) = "unblank"
         /\ Head(rest) = "start" => rest \in Starts
         /\ rest = <<"stop", "off", "skip">> => Head(rest) = "stop"
         /\ Head(rest) = "blank" => Tail(rest) = <<"stop", "off", "skip">>
<1>1. CASE rest = <<"skip">>
  BY <1>1 DEF Rests, Starts
<1>2. CASE rest = <<"start">>
  BY <1>2 DEF Rests, Starts
<1>3. CASE rest = <<"stop">>
  BY <1>3 DEF Rests, Starts
<1>4. CASE rest = <<"check">>
  BY <1>4 DEF Rests, Starts
<1>5. CASE rest = <<"skip", "stop">>
  BY <1>5 DEF Rests, Starts
<1>6. CASE rest = <<"off", "skip">>
  BY <1>6 DEF Rests, Starts
<1>7. CASE rest = <<"start", "skip">>
  BY <1>7 DEF Rests, Starts
<1>8. CASE rest = <<"skip", "check">>
  BY <1>8 DEF Rests, Starts
<1>9. CASE rest = <<"reapply", "check">>
  BY <1>9 DEF Rests, Starts
<1>10. CASE rest = <<"stop", "off", "skip">>
  BY <1>10 DEF Rests, Starts
<1>11. CASE rest = <<"unblank", "start", "skip">>
  BY <1>11 DEF Rests, Starts
<1>12. CASE rest = <<"load", "reapply", "check">>
  BY <1>12 DEF Rests, Starts
<1>13. CASE rest = <<"bounce", "skip", "check">>
  BY <1>13 DEF Rests, Starts
<1>14. CASE rest = <<"blank", "stop", "off", "skip">>
  BY <1>14 DEF Rests, Starts
<1>15. CASE rest = <<"on", "unblank", "start", "skip">>
  BY <1>15 DEF Rests, Starts
<1> QED BY <1>1, <1>2, <1>3, <1>4, <1>5, <1>6, <1>7, <1>8, <1>9, <1>10, <1>11, <1>12, <1>13, <1>14, <1>15 DEF Rests

\* Every write leaves the flags as the rest of its handler needs them.
LEMMA SubscriberPlan ==
  ASSUME PlanInv, Subscriber PROVE PlanInv'
<1> USE DEF PlanInv, Do
<1>1. CASE SetFlags
  BY <1>1, Follows DEF SetFlags
<1>2. CASE SetPower
  BY <1>2, Follows DEF SetPower, cmdVars
<1>3. CASE LoadSettings
  BY <1>3, Follows DEF LoadSettings
<1>4. CASE Reapply
  <2>1. <<"bounce", "skip", "check">> \in Rests \ Starts
    BY DEF Rests, Starts
  <2>2. stopped \/ ~blanked
    BY <1>4, Follows DEF Reapply
  <2>3. CASE loaded = applied
    BY <1>4, <2>2, <2>3, Follows, ZenonT(120) DEF Reapply
  <2>4. CASE loaded # applied
    BY <1>4, <2>1, <2>2, <2>4 DEF Reapply
  <2> QED BY <2>3, <2>4
<1>5. CASE SetBounce
  BY <1>5, Follows DEF SetBounce
<1>6. CASE CheckCurrent
  <2>1. <<"skip">> \in Rests \ Starts /\ <<>> \in Rests \ Starts
    BY DEF Rests, Starts
  <2> QED BY <1>6, <2>1, Follows DEF CheckCurrent, cmdVars
<1> QED BY <1>1, <1>2, <1>3, <1>4, <1>5, <1>6 DEF Subscriber

\* A handler is one of the plans; `play' starts the loop at once only if the
\* display is not blanked.
LEMMA ReceivePlan ==
  ASSUME PlanInv, NEW c \in Commands, Receive(c) PROVE PlanInv'
BY CommandAssumption DEF PlanInv, Receive, Handler, Rests, Starts, cmdVars

\* Every step keeps the plan.
LEMMA PlanStep ==
  ASSUME PlanInv, [Next]_vars PROVE PlanInv'
<1>1. ASSUME UNCHANGED <<cmdVars, todo>> PROVE PlanInv'
  BY <1>1 DEF cmdVars, PlanInv
<1>2. CASE ProcessDies \/ TermEnds
  BY <1>1, <1>2 DEF ProcessDies, TermEnds
<1>3. CASE Restart
  BY <1>3 DEF Restart, PlanInv, Rests, Starts
<1>4. ASSUME NEW s \in SUBSET Asset, Edit(s) PROVE PlanInv'
  BY <1>1, <1>4 DEF Edit
<1>5. ASSUME NEW m \in Mode, Configure(m) PROVE PlanInv'
  BY <1>1, <1>5 DEF Configure
<1>6. CASE UNCHANGED vars
  BY <1>1, <1>6 DEF vars
<1> QED BY MainPlan, SubscriberPlan, ReceivePlan, <1>2, <1>3, <1>4, <1>5, <1>6 DEF Next

\* Whatever commands come and wherever the main thread is: once a handler is done,
\* a blanked display goes with a stopped loop.
THEOREM BlankStops == Spec => []BlankedIsStopped
<1>1. Init => PlanInv
  BY DEF Init, PlanInv, Rests, Starts
<1>2. PlanInv => BlankedIsStopped
  BY DEF PlanInv, BlankedIsStopped, Idle
<1> QED BY <1>1, <1>2, PlanStep, PTL DEF Spec

-----------------------------------------------------------------------------
(* Types *)

\* The types of the variables but `todo', which PlanInv has.
Types ==
  /\ {stopped, blanked, skip, bounce, retrying, power} \subseteq BOOLEAN
  /\ {applied, loaded, conf, procMode} \subseteq Mode
  /\ active \subseteq Asset
  /\ {current, job, video} \subseteq Asset \cup {None}
  /\ {url, page} \subseteq Uri \cup {None}
  /\ target \in Uri
  /\ pc \in Pcs
  /\ call \in {"show", "play", "stop"}
  /\ proc \in {"up", "term", "down"}

\* Every step of the main thread keeps the types.
LEMMA MainTypes ==
  ASSUME Types, Main \/ GiveUp PROVE Types'
<1> USE DEF Types, Uri, Pcs, View, Resume, Deliver, Shown, Alive, cmdVars, envVars, procVars
<1>1. CASE Loop
  BY <1>1 DEF Loop
<1>2. CASE Paused
  BY <1>2 DEF Paused
<1>3. CASE Consume
  BY <1>3 DEF Consume
<1>4. CASE Terminate
  BY <1>4 DEF Terminate
<1>5. CASE FetchNone
  BY <1>5 DEF FetchNone
<1>6. ASSUME NEW a \in Asset, Fetch(a) PROVE Types'
  BY <1>6 DEF Fetch
<1>7. ASSUME NEW a \in Asset, FetchBroken(a) PROVE Types'
  BY <1>7 DEF FetchBroken
<1>8. CASE CheckAlive
  BY <1>8 DEF CheckAlive
<1>9. CASE Compare
  BY <1>9 DEF Compare
<1>10. CASE Defer
  BY <1>10 DEF Defer
<1>11. CASE Send
  BY <1>11 DEF Send
<1>12. CASE SendGone
  BY <1>12 DEF SendGone
<1>13. CASE Latch
  BY <1>13 DEF Latch
<1>14. CASE Spawn
  BY <1>14 DEF Spawn
<1>15. CASE Cache
  BY <1>15 DEF Cache
<1>16. CASE Clear
  BY <1>16 DEF Clear
<1>17. CASE WaitEnds
  BY <1>17 DEF WaitEnds
<1>18. CASE GiveUp
  BY <1>18 DEF GiveUp
<1> QED BY <1>1, <1>2, <1>3, <1>4, <1>5, <1>6, <1>7, <1>8, <1>9, <1>10, <1>11, <1>12, <1>13, <1>14, <1>15, <1>16, <1>17, <1>18 DEF Main

\* And so does every other step.
LEMMA TypesStep ==
  ASSUME Types, [Next]_vars PROVE Types'
<1> USE DEF Types, Uri, Pcs, cmdVars, envVars, mainVars, procVars
<1>1. CASE Subscriber
  <2>1. CASE SetFlags
    BY <2>1, ZenonT(120) DEF SetFlags
  <2>2. CASE SetPower
    BY <2>2 DEF SetPower, Do
  <2>3. CASE LoadSettings
    BY <2>3 DEF LoadSettings
  <2>4. CASE Reapply
    BY <2>4 DEF Reapply
  <2>5. CASE SetBounce
    BY <2>5 DEF SetBounce
  <2>6. CASE CheckCurrent
    BY <2>6 DEF CheckCurrent
  <2> QED BY <1>1, <2>1, <2>2, <2>3, <2>4, <2>5, <2>6 DEF Subscriber
<1>2. ASSUME NEW c \in Commands, Receive(c) PROVE Types'
  BY <1>2 DEF Receive
<1>3. ASSUME NEW s \in SUBSET Asset, Edit(s) PROVE Types'
  BY <1>3 DEF Edit
<1>4. ASSUME NEW m \in Mode, Configure(m) PROVE Types'
  BY <1>4 DEF Configure
<1>5. CASE ProcessDies \/ TermEnds
  BY <1>5 DEF ProcessDies, TermEnds, Gone
<1>6. CASE Restart
  BY <1>6 DEF Restart
<1>7. CASE UNCHANGED vars
  BY <1>7 DEF vars
<1> QED BY MainTypes, <1>1, <1>2, <1>3, <1>4, <1>5, <1>6, <1>7 DEF Next

\* Every variable keeps its type, for every playlist, board and set of commands.
THEOREM TypeCorrect == Spec => []TypeOK
<1>1. Init => Types
  BY DEF Init, Types, Uri, Pcs
<1>2. Init => PlanInv
  BY DEF Init, PlanInv, Rests, Starts
<1>3. Rests \subseteq Seq(Ops)
  BY DEF Rests, Ops
<1>4. Types /\ PlanInv => TypeOK
  BY <1>3 DEF Types, PlanInv, TypeOK
<1> QED BY <1>1, <1>2, <1>4, TypesStep, PlanStep, PTL DEF Spec

=============================================================================
