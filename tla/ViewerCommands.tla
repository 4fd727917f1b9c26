--------------------------- MODULE ViewerCommands ---------------------------
(***************************************************************************)
(* Commands from the server to the viewer over redis pub/sub, and the      *)
(* answers to `current_asset_id' over one redis list per request:          *)
(* ViewerSubscriber (src/anthias_viewer/messaging.py), ViewerPublisher,    *)
(* ReplySender and ReplyCollector (src/anthias_server/settings.py), the    *)
(* start of the viewer (main()) and the view that asks for the current     *)
(* asset. What the other handlers do to playback is in module Playback;    *)
(* here they return, or raise.                                             *)
(***************************************************************************)
EXTENDS Naturals, Sequences

CONSTANTS
  Command,      \* the commands the dashboard and the API send
  Request,      \* requests for the current asset
  Asset,
  None,         \* no asset
  Nothing,      \* no reply in a list
  MaxDelay,     \* bound of the back-off, MAX_RETRY_DELAY_S
  MaxSent,      \* bound: published messages
  MaxLosses,    \* bound: outages of redis and dropped connections
  MaxCrashes    \* bound: restarts of the viewer

ASSUME ValueAssumption ==
  /\ None \notin Asset
  /\ Nothing \notin [value : Asset \union {None}, ttl : BOOLEAN]
  /\ Nothing \notin Request
ASSUME CommandAssumption == {"current_asset_id", "none"} \cap Command = {}
ASSUME BoundAssumption ==
  /\ MaxDelay \in Nat \ {0}
  /\ MaxSent \in Nat /\ MaxLosses \in Nat /\ MaxCrashes \in Nat

VARIABLES
  up,          \* redis can be reached
  link,        \* redis has the viewer's subscription
  inbox,       \* what it delivered and the subscriber has not finished with
  sub,         \* where the subscriber thread is
  answer,      \* the reply the running handler is sending, or Nothing
  delay,       \* seconds to wait after the next loss
  ready,       \* the key viewer-subscriber-ready
  scheduler,   \* `scheduler' is not None
  current,     \* scheduler.current_asset_id
  list,        \* the reply list of each request: no more than one element
  req,         \* each request: where its view is, and what it received
  sent, handled,   \* numbers of the last message published, and handled
  losses, crashes, \* how often so far
  seen,        \* history: the current assets since a request was published
  torn         \* history: requests whose reply was left without an expiry

redis == <<up, link, ready, list, losses>>
thread == <<inbox, sub, answer, delay, handled>>
viewer == <<scheduler, current, crashes>>
server == <<req, sent>>
vars == <<redis, thread, viewer, server, seen, torn>>

Connected == {"announcing", "listening", "push", "expire"}

\* What a request published now would be told.
CurrentId == IF scheduler THEN current ELSE None

InFlight == {q \in Request : req[q].pc \in {"sent", "waiting"}}

\* seen, when CurrentId becomes c
Saw(c) == [q \in Request |->
             IF q \in InFlight THEN seen[q] \union {c} ELSE seen[q]]

\* Mutant: one list for all.
SharedReplyKey(q) == CHOOSE r \in Request : TRUE

\* The key of the list that carries the answer to q.
ReplyKey(q) == q

TypeOK ==
  /\ up \in BOOLEAN /\ link \in BOOLEAN /\ ready \in BOOLEAN
  /\ sent \in 0..MaxSent /\ handled \in 0..MaxSent
  /\ inbox \in Seq([n : 1..MaxSent, topic : {"viewer", "reload"},
                    command : Command \union {"current_asset_id", "none"},
                    request : Request \union {Nothing}])
  /\ sub \in {"off", "connecting", "lost", "sleeping", "raised"}
              \union Connected
  /\ answer \in Asset \union {None, Nothing}
  /\ delay \in 1..MaxDelay
  /\ scheduler \in BOOLEAN /\ current \in Asset \union {None}
  /\ list \in [Request -> {Nothing}
                 \union [value : Asset \union {None}, ttl : BOOLEAN]]
  /\ req \in [Request -> [pc : {"new", "sent", "waiting", "answered",
                                "timedout", "failed"},
                          answer : Asset \union {None, Nothing}]]
  /\ losses \in 0..MaxLosses /\ crashes \in 0..MaxCrashes
  /\ seen \in [Request -> SUBSET (Asset \union {None})]
  /\ torn \in SUBSET Request

Init ==
  /\ up = TRUE /\ link = FALSE /\ ready \in BOOLEAN
  /\ inbox = <<>> /\ sub = "off" /\ answer = Nothing /\ delay = 1
  /\ scheduler = FALSE /\ current = None
  /\ list = [q \in Request |-> Nothing]
  /\ req = [q \in Request |-> [pc |-> "new", answer |-> Nothing]]
  /\ sent = 0 /\ handled = 0 /\ losses = 0 /\ crashes = 0
  /\ seen = [q \in Request |-> {}] /\ torn = {}

-----------------------------------------------------------------------------
(* The server *)

\* redis passes a message on to those subscribed now, and keeps no copy.
Deliver(topic, command, q) ==
  /\ sent < MaxSent
  /\ sent' = sent + 1
  /\ inbox' = IF link
                THEN Append(inbox, [n |-> sent + 1, topic |-> topic,
                                    command |-> command, request |-> q])
                ELSE inbox

\* send_to_viewer() for a button of the dashboard or a call of the API. While
\* redis is away it raises, and nothing is sent.
Control(c) ==
  /\ up /\ Deliver("viewer", c, Nothing)
  /\ UNCHANGED <<redis, sub, answer, delay, handled, viewer, req, seen, torn>>

\* A celery task publishes `reload' without the topic the viewer looks for.
TaskReload ==
  /\ up /\ Deliver("reload", "none", Nothing)
  /\ UNCHANGED <<redis, sub, answer, delay, handled, viewer, req, seen, torn>>

\* ViewerCurrentAssetViewV1.get(), to the end of the publish
Ask(q) ==
  /\ req[q].pc = "new"
  /\ IF up
       THEN /\ Deliver("viewer", "current_asset_id", q)
            /\ req' = [req EXCEPT ![q].pc = "sent"]
            /\ seen' = [seen EXCEPT ![q] = {CurrentId}]
       ELSE /\ req' = [req EXCEPT ![q].pc = "failed"]
            /\ UNCHANGED <<inbox, sent, seen>>
  /\ UNCHANGED <<redis, sub, answer, delay, handled, viewer, torn>>

\* BLPOP of recv_json(): what is in the list is taken at once.
Collect(q) ==
  LET k == ReplyKey(q) IN
  /\ req[q].pc = "sent"
  /\ IF ~up
       THEN req' = [req EXCEPT ![q].pc = "failed"] /\ UNCHANGED list
     ELSE IF list[k] = Nothing
       THEN req' = [req EXCEPT ![q].pc = "waiting"] /\ UNCHANGED list
     ELSE /\ req' = [req EXCEPT ![q] = [pc |-> "answered",
                                        answer |-> list[k].value]]
          /\ list' = [list EXCEPT ![k] = Nothing]
  /\ UNCHANGED <<up, link, ready, losses, thread, viewer, sent, seen, torn>>

TimeOut(q) ==
  /\ req[q].pc = "waiting"
  /\ req' = [req EXCEPT ![q].pc = "timedout"]
  /\ UNCHANGED <<redis, thread, viewer, sent, seen, torn>>

-----------------------------------------------------------------------------
(* The subscriber thread *)

\* Mutant: only the start of the viewer retries the subscription.
SubscribeOnce ==
  /\ sub = "connecting"
  /\ IF up THEN link' = TRUE /\ sub' = "announcing"
           ELSE sub' = "off" /\ UNCHANGED link
  /\ UNCHANGED <<up, ready, list, losses, inbox, answer, delay, handled,
                 viewer, server, seen, torn>>

Subscribe ==
  /\ sub = "connecting"
  /\ IF up THEN link' = TRUE /\ sub' = "announcing"
           ELSE sub' = "lost" /\ UNCHANGED link
  /\ UNCHANGED <<up, ready, list, losses, inbox, answer, delay, handled,
                 viewer, server, seen, torn>>

Announce ==
  /\ sub = "announcing"
  /\ IF up THEN ready' = TRUE /\ delay' = 1 /\ sub' = "listening"
           ELSE sub' = "lost" /\ UNCHANGED <<ready, delay>>
  /\ UNCHANGED <<up, link, list, losses, inbox, answer, handled, viewer,
                 server, seen, torn>>

\* Mutant: the buffer is read from its other end.
DoneLast ==
  /\ handled' = inbox[Len(inbox)].n
  /\ inbox' = SubSeq(inbox, 1, Len(inbox) - 1)
  /\ sub' = "listening"

\* The handler returned: on to the next message.
Done == handled' = Head(inbox).n /\ inbox' = Tail(inbox) /\ sub' = "listening"

\* These handlers set an attribute of the scheduler, which may be None.
NeedsScheduler == {"previous", "asset"}

Raises(m) == m.command \in NeedsScheduler /\ ~scheduler

\* _consume(): another topic is passed over; `current_asset_id' reads what it
\* will send; an AttributeError leaves run() through its finally.
Dispatch ==
  /\ sub = "listening" /\ inbox # <<>>
  /\ LET m == Head(inbox) IN
       \/ /\ m.topic = "viewer" /\ m.command = "current_asset_id"
          /\ answer' = CurrentId
          /\ sub' = "push"
          /\ UNCHANGED <<inbox, handled, link>>
       \/ /\ m.topic = "viewer" /\ Raises(m)
          /\ sub' = "raised" /\ link' = FALSE /\ inbox' = <<>>
          /\ UNCHANGED <<handled, answer>>
       \/ /\ m.topic = "viewer" => m.command # "current_asset_id" /\ ~Raises(m)
          /\ Done
          /\ UNCHANGED <<answer, link>>
  /\ UNCHANGED <<up, ready, list, losses, delay, viewer, server, seen, torn>>

Lost == sub' = "lost" /\ answer' = Nothing /\ UNCHANGED <<inbox, handled>>

\* RPUSH of ReplySender.send(): a client that waits gets the element, and the
\* list stays empty.
Push ==
  /\ sub = "push"
  /\ LET q == Head(inbox).request
         k == ReplyKey(q)
         waiting == {r \in Request : req[r].pc = "waiting" /\ ReplyKey(r) = k}
     IN
     IF ~up THEN Lost /\ UNCHANGED <<list, req, torn>>
     ELSE /\ IF waiting # {}
               THEN /\ \E r \in waiting :
                         req' = [req EXCEPT ![r] = [pc |-> "answered",
                                                    answer |-> answer]]
                    /\ UNCHANGED <<list, torn>>
               ELSE /\ list' = [list EXCEPT ![k] = [value |-> answer,
                                                    ttl |-> FALSE]]
                    /\ torn' = torn \union {k}
                    /\ UNCHANGED req
          /\ sub' = "expire"
          /\ UNCHANGED <<answer, inbox, handled>>
  /\ UNCHANGED <<up, link, ready, losses, delay, viewer, sent, seen>>

\* EXPIRE, a second command: nothing happens to a list that is gone.
Expire ==
  /\ sub = "expire"
  /\ LET k == ReplyKey(Head(inbox).request) IN
     IF ~up THEN Lost /\ UNCHANGED <<list, torn>>
     ELSE /\ list' = IF list[k] = Nothing THEN list
                     ELSE [list EXCEPT ![k].ttl = TRUE]
          /\ torn' = torn \ {k}
          /\ answer' = Nothing
          /\ Done
  /\ UNCHANGED <<up, link, ready, losses, delay, viewer, server, seen>>

\* listen() raises, at once or after what had already arrived.
Notice ==
  /\ sub = "listening" /\ ~link
  /\ sub' = "lost"
  /\ UNCHANGED <<redis, inbox, answer, delay, handled, viewer, server, seen,
                 torn>>

\* The handler of ConnectionError; the key is cleared if redis can be reached.
Unready ==
  /\ sub = "lost"
  /\ ready' = IF up THEN FALSE ELSE ready
  /\ sub' = "sleeping"
  /\ UNCHANGED <<up, link, list, losses, inbox, answer, delay, handled,
                 viewer, server, seen, torn>>

\* The end of the sleep and the finally: the subscription is closed only now.
Wake ==
  /\ sub = "sleeping"
  /\ delay' = IF 2 * delay < MaxDelay THEN 2 * delay ELSE MaxDelay
  /\ link' = FALSE /\ inbox' = <<>>
  /\ sub' = "connecting"
  /\ UNCHANGED <<up, ready, list, losses, answer, handled, viewer, server,
                 seen, torn>>

Subscriber ==
  Subscribe \/ Announce \/ Dispatch \/ Push \/ Expire \/ Notice \/ Unready
  \/ Wake

-----------------------------------------------------------------------------
(* The main thread of the viewer *)

\* main(): the subscriber is started before the server has answered.
Boot ==
  /\ sub = "off" /\ ~scheduler
  /\ sub' = "connecting"
  /\ UNCHANGED <<redis, inbox, answer, delay, handled, viewer, server, seen,
                 torn>>

\* wait_for_server() returns.
CreateScheduler ==
  /\ sub # "off" /\ ~scheduler
  /\ scheduler' = TRUE /\ current' = None
  /\ UNCHANGED <<redis, thread, crashes, server, seen, torn>>

\* get_next_asset()
Show(a) ==
  /\ scheduler /\ current # a
  /\ current' = a
  /\ seen' = Saw(a)
  /\ UNCHANGED <<redis, thread, scheduler, crashes, server, torn>>

\* The viewer ends anywhere and its container starts again.
Crash ==
  /\ crashes < MaxCrashes
  /\ crashes' = crashes + 1
  /\ scheduler' = FALSE /\ current' = None /\ seen' = Saw(None)
  /\ sub' = "off" /\ link' = FALSE /\ inbox' = <<>> /\ answer' = Nothing
  /\ delay' = 1
  /\ UNCHANGED <<up, ready, list, losses, handled, server, torn>>

-----------------------------------------------------------------------------
(* redis *)

Outage ==
  /\ up /\ losses < MaxLosses
  /\ losses' = losses + 1
  /\ up' = FALSE /\ link' = FALSE
  /\ req' = [q \in Request |-> IF req[q].pc = "waiting"
                                 THEN [req[q] EXCEPT !.pc = "failed"]
                                 ELSE req[q]]
  /\ UNCHANGED <<ready, list, thread, viewer, sent, seen, torn>>

Recover ==
  /\ ~up /\ up' = TRUE
  /\ UNCHANGED <<link, ready, list, losses, thread, viewer, server, seen, torn>>

\* Only the connection of the subscription breaks.
Drop ==
  /\ link /\ losses < MaxLosses
  /\ losses' = losses + 1
  /\ link' = FALSE
  /\ UNCHANGED <<up, ready, list, thread, viewer, server, seen, torn>>

\* The 30 seconds of a reply are over.
Vanish(q) ==
  /\ list[q] # Nothing /\ list[q].ttl
  /\ list' = [list EXCEPT ![q] = Nothing]
  /\ UNCHANGED <<up, link, ready, losses, thread, viewer, server, seen, torn>>

Next ==
  \/ \E c \in Command : Control(c)
  \/ TaskReload
  \/ \E q \in Request : Ask(q) \/ Collect(q) \/ TimeOut(q) \/ Vanish(q)
  \/ Subscriber
  \/ Boot \/ CreateScheduler \/ Crash
  \/ \E a \in Asset \union {None} : Show(a)
  \/ Outage \/ Recover \/ Drop

Spec == Init /\ [][Next]_vars

\* Threads run and timers end; nothing obliges redis to fail or to come back.
FairSpec ==
  /\ Spec
  /\ WF_vars(Subscriber) /\ WF_vars(Boot) /\ WF_vars(CreateScheduler)
  /\ \A q \in Request :
       WF_vars(Collect(q)) /\ WF_vars(TimeOut(q)) /\ WF_vars(Vanish(q))

-----------------------------------------------------------------------------
(* Properties *)

Channel == INSTANCE CommandChannel WITH
  pending <- [i \in DOMAIN inbox |-> inbox[i].n]

\* Whatever redis, the connection and the process go through, a command is
\* handled at most once, in the order of publication, and none stays half way:
\* the subscriber implements CommandChannel.
ImplementsChannel == Channel!FairSpec

\* In particular, an effect never comes twice, nor after that of a later
\* command.
HandledInOrder == [][handled' # handled => handled' > handled]_vars

\* The answer a view receives was the current asset at some time after it
\* asked: never the late reply to a request that had timed out.
AnswerIsOfTheTime ==
  \A q \in Request : req[q].pc = "answered" => req[q].answer \in seen[q]

\* Once redis stays reachable and the connections hold, the viewer ends up
\* subscribed and says so, unless a handler has ended the thread.
Reconnects ==
  <>[]up => <>[](sub = "raised" \/ (link /\ ready /\ sub \in Connected))

\* No reply stays in redis after everything, except the one whose sender was
\* interrupted between RPUSH and EXPIRE.
RepliesVanish ==
  <>[](\A q \in Request : list[q] # Nothing => q \in torn)

\* The docstring of ReplySender: unread replies do not accumulate.
NoReplyStays == <>[](\A q \in Request : list[q] = Nothing)

\* The docstring of ViewerSubscriber: the thread does not die silently.
SubscriberSurvives == sub # "raised"

\* The docstring of notify: the reload a task publishes makes the viewer
\* reload, that is, it has the topic the viewer looks for.
TaskReloadIsHandled ==
  \A i \in DOMAIN inbox : inbox[i].command = "none" => inbox[i].topic = "viewer"

=============================================================================
