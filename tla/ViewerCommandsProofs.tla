------------------------ MODULE ViewerCommandsProofs ------------------------
(***************************************************************************)
(* What a view is told was the current asset since it asked; the           *)
(* subscriber implements CommandChannel, and CommandChannel handles        *)
(* commands in the order of their publication: for any requests, commands  *)
(* and numbers of losses and restarts.                                     *)
(*                                                                         *)
(* AnswerIsOfTheTime is not inductive: an answer passes through the        *)
(* handler's hands and a list in redis before a view has it. AnswerInv     *)
(* says that nothing is there for a view which has not asked, and that     *)
(* whatever is there for one that waits was current since it asked.        *)
(***************************************************************************)
EXTENDS ViewerCommands, SequenceTheorems, TLAPS

Message == [n : 1..MaxSent, topic : {"viewer", "reload"},
            command : Command \union {"current_asset_id", "none"},
            request : Request \union {Nothing}]
Reply == [value : Asset \union {None}, ttl : BOOLEAN]
Asking == [pc : {"new", "sent", "waiting", "answered", "timedout", "failed"},
           answer : Asset \union {None, Nothing}]

\* Nothing is on its way for a request whose view has not asked.
Asked ==
  /\ \A i \in DOMAIN inbox :
       /\ inbox[i].command = "current_asset_id" => inbox[i].request \in Request
       /\ inbox[i].request \in Request => req[inbox[i].request].pc # "new"
  /\ \A q \in Request : list[q] # Nothing => req[q].pc # "new"

\* A handler that sends a reply has its message and what it will send.
Sending ==
  /\ sub \in {"push", "expire"} =>
       inbox # <<>> /\ Head(inbox).request \in Request
  /\ sub = "push" => answer \in Asset \union {None}

\* Whatever can still become the answer to q was current since it asked.
Fresh(q) ==
  /\ CurrentId \in seen[q]
  /\ list[q] # Nothing => list[q].value \in seen[q]
  /\ sub = "push" /\ Head(inbox).request = q => answer \in seen[q]

AnswerInv ==
  /\ TypeOK /\ Asked /\ Sending
  /\ \A q \in InFlight : Fresh(q)
  /\ AnswerIsOfTheTime

-----------------------------------------------------------------------------
(* Types *)

LEMMA CurrentType == ASSUME TypeOK PROVE CurrentId \in Asset \union {None}
  BY DEF TypeOK, CurrentId

LEMMA SawType ==
  ASSUME TypeOK, NEW c \in Asset \union {None}
  PROVE  Saw(c) \in [Request -> SUBSET (Asset \union {None})]
<1>1. \A q \in Request : seen[q] \in SUBSET (Asset \union {None})
  BY DEF TypeOK
<1> QED
  BY <1>1 DEF Saw

LEMMA ReqType ==
  ASSUME TypeOK, NEW q \in Request,
         NEW p \in {"new", "sent", "waiting", "answered", "timedout", "failed"}
  PROVE  /\ [req EXCEPT ![q].pc = p] \in [Request -> Asking]
         /\ \A a \in Asset \union {None} :
              [req EXCEPT ![q] = [pc |-> p, answer |-> a]]
                \in [Request -> Asking]
<1>1. req \in [Request -> Asking] /\ req[q] \in Asking
  BY DEF TypeOK, Asking
<1>2. [req[q] EXCEPT !.pc = p] \in Asking
  BY <1>1 DEF Asking
<1>3. \A a \in Asset \union {None} : [pc |-> p, answer |-> a] \in Asking
  BY DEF Asking
<1> HIDE DEF Asking
<1> QED
  BY <1>1, <1>2, <1>3

LEMMA DeliverType ==
  ASSUME TypeOK, NEW t \in {"viewer", "reload"},
         NEW c \in Command \union {"current_asset_id", "none"},
         NEW q \in Request \union {Nothing}, Deliver(t, c, q)
  PROVE  /\ sent' \in 0..MaxSent
         /\ inbox' \in Seq(Message)
         /\ \/ inbox' = inbox
            \/ \E m \in Message : /\ m.request = q /\ m.command = c
                                  /\ inbox' = Append(inbox, m)
<1> DEFINE m == [n |-> sent + 1, topic |-> t, command |-> c, request |-> q]
<1>1. sent + 1 \in 1..MaxSent
  BY BoundAssumption DEF TypeOK, Deliver
<1>2. m \in Message /\ m.request = q /\ m.command = c
  BY <1>1 DEF Message
<1>3. sent' = sent + 1 /\ (inbox' = inbox \/ inbox' = Append(inbox, m))
  BY DEF Deliver
<1>4. inbox \in Seq(Message)
  BY DEF TypeOK, Message
<1> HIDE DEF m
<1> QED
  BY <1>1, <1>2, <1>3, <1>4

LEMMA HeadType ==
  ASSUME TypeOK, inbox # <<>>
  PROVE  /\ Head(inbox) \in Message /\ Tail(inbox) \in Seq(Message)
         /\ Head(inbox).n \in 0..MaxSent
         /\ Head(inbox).request \in Request \union {Nothing}
<1>1. inbox \in Seq(Message)
  BY DEF TypeOK, Message
<1>2. Head(inbox) \in Message /\ Tail(inbox) \in Seq(Message)
  BY <1>1
<1>3. \A m \in Message : m.n \in 0..MaxSent /\ m.request \in Request \union {Nothing}
  BY DEF Message
<1> QED
  BY <1>2, <1>3

LEMMA ListType ==
  ASSUME TypeOK, NEW q
  PROVE  /\ [list EXCEPT ![q] = Nothing] \in [Request -> {Nothing} \union Reply]
         /\ \A a \in Asset \union {None} :
              [list EXCEPT ![q] = [value |-> a, ttl |-> FALSE]]
                \in [Request -> {Nothing} \union Reply]
         /\ list[q] # Nothing /\ q \in Request =>
              /\ [list EXCEPT ![q].ttl = TRUE]
                   \in [Request -> {Nothing} \union Reply]
              /\ [list EXCEPT ![q].ttl = TRUE][q] # Nothing
              /\ [list EXCEPT ![q].ttl = TRUE][q].value = list[q].value
<1>1. list \in [Request -> {Nothing} \union Reply]
  BY DEF TypeOK, Reply
<1>2. \A a \in Asset \union {None} : [value |-> a, ttl |-> FALSE] \in Reply
  BY DEF Reply
<1>3. \A r \in Reply : /\ [r EXCEPT !.ttl = TRUE] \in Reply
                       /\ [r EXCEPT !.ttl = TRUE].value = r.value
  BY DEF Reply
<1>4. Nothing \notin Reply
  BY ValueAssumption DEF Reply
<1> HIDE DEF Reply
<1> QED
  BY <1>1, <1>2, <1>3, <1>4

\* The steps of the viewer.
LEMMA ThreadType ==
  ASSUME TypeOK, UNCHANGED <<sent, seen, crashes, up, losses>>,
         torn' \in SUBSET Request, req' \in [Request -> Asking],
         list' \in [Request -> {Nothing} \union Reply],
         scheduler' \in BOOLEAN, current' \in Asset \union {None},
         link' \in BOOLEAN, ready' \in BOOLEAN,
         inbox' \in {inbox, <<>>} \/ (inbox # <<>> /\ inbox' = Tail(inbox)),
         handled' \in 0..MaxSent,
         sub' \in {"off", "connecting", "lost", "sleeping", "raised"}
                    \union Connected,
         answer' \in Asset \union {None, Nothing},
         delay' \in 1..MaxDelay
  PROVE  TypeOK'
<1>1. inbox' \in Seq(Message)
  <2>1. inbox \in Seq(Message)
    BY DEF TypeOK, Message
  <2>2. <<>> \in Seq(Message)
    OBVIOUS
  <2>3. inbox # <<>> => Tail(inbox) \in Seq(Message)
    BY HeadType
  <2> QED
    BY <2>1, <2>2, <2>3
<1> QED
  BY <1>1 DEF TypeOK, Message, Asking, Reply, Connected

LEMMA DeliveryType ==
  ASSUME TypeOK, UNCHANGED <<redis, sub, answer, delay, handled, viewer, torn>>,
         sent' \in 0..MaxSent, inbox' \in Seq(Message),
         req' \in [Request -> Asking],
         seen' \in [Request -> SUBSET (Asset \union {None})]
  PROVE  TypeOK'
BY DEF TypeOK, redis, viewer, Message, Asking

LEMMA ServerType ==
  ASSUME TypeOK, UNCHANGED <<thread, viewer, sent, ready, seen>>,
         up' \in BOOLEAN, link' \in BOOLEAN, losses' \in 0..MaxLosses,
         req' \in [Request -> Asking], torn' \in SUBSET Request,
         list' \in [Request -> {Nothing} \union Reply]
  PROVE  TypeOK'
BY DEF TypeOK, thread, viewer, Asking, Reply

LEMMA InitInv == Init => AnswerInv
<1> SUFFICES ASSUME Init PROVE AnswerInv
  OBVIOUS
<1>1. TypeOK
  <2>1. /\ inbox \in Seq(Message) /\ sent \in 0..MaxSent /\ handled \in 0..MaxSent
        /\ losses \in 0..MaxLosses /\ crashes \in 0..MaxCrashes
        /\ delay \in 1..MaxDelay
    BY BoundAssumption DEF Init
  <2>2. req \in [Request -> Asking]
    BY DEF Init, Asking
  <2>3. /\ list \in [Request -> {Nothing} \union Reply]
        /\ seen \in [Request -> SUBSET (Asset \union {None})]
        /\ torn \in SUBSET Request
    BY DEF Init
  <2>4. /\ up \in BOOLEAN /\ link \in BOOLEAN /\ ready \in BOOLEAN
        /\ scheduler \in BOOLEAN /\ current \in Asset \union {None}
        /\ answer \in Asset \union {None, Nothing} /\ sub = "off"
    BY DEF Init
  <2> QED
    BY <2>1, <2>2, <2>3, <2>4 DEF TypeOK, Message, Asking, Reply
<1>2. Asked /\ Sending /\ AnswerIsOfTheTime /\ InFlight = {}
  BY DEF Init, Asked, Sending, AnswerIsOfTheTime, InFlight
<1> QED
  BY <1>1, <1>2 DEF AnswerInv

-----------------------------------------------------------------------------
(* Steps that bring no answer nearer *)

\* Requests move on, replies go, the buffer loses its first message or gains
\* one that is nobody's request.
Settles ==
  /\ \A q \in Request :
       /\ req'[q].pc = "new" => req[q].pc = "new"
       /\ q \in InFlight' => q \in InFlight /\ CurrentId' \in seen'[q]
       /\ req'[q].pc = "answered" => req'[q] = req[q]
       /\ list'[q] # Nothing => list[q] # Nothing /\ list'[q].value = list[q].value
       /\ seen[q] \subseteq seen'[q]
  /\ \/ inbox' \in {inbox, <<>>}
     \/ inbox # <<>> /\ inbox' = Tail(inbox)
     \/ \E m \in Message : /\ m.request \notin Request
                           /\ m.command # "current_asset_id"
                           /\ inbox' = Append(inbox, m)
  /\ \/ sub' \notin {"push", "expire"}
     \/ sub' = "expire" /\ sub = "push" /\ inbox' = inbox
     \/ /\ UNCHANGED <<sub, answer>>
        /\ \/ inbox' = inbox
           \/ \E m \in Message : inbox' = Append(inbox, m)

LEMMA SettlesInv ==
  ASSUME AnswerInv, TypeOK', Settles PROVE AnswerInv'
<1>1. inbox \in Seq(Message) /\ inbox' \in Seq(Message)
  BY DEF AnswerInv, TypeOK, Message
<1>2. Asked'
  <2>1. \A q \in Request : list'[q] # Nothing => req'[q].pc # "new"
    BY DEF Settles, AnswerInv, Asked
  <2>2. ASSUME NEW i \in DOMAIN inbox',
               \/ inbox'[i].request \in Request
               \/ inbox'[i].command = "current_asset_id"
        PROVE  \E j \in DOMAIN inbox : inbox[j] = inbox'[i]
    <3>1. CASE inbox' \in {inbox, <<>>}
      BY <3>1, <2>2
    <3>2. CASE inbox # <<>> /\ inbox' = Tail(inbox)
      <4>1. i + 1 \in DOMAIN inbox /\ inbox'[i] = inbox[i + 1]
        BY <3>2, <1>1, <2>2
      <4> QED
        BY <4>1
    <3>3. ASSUME NEW m \in Message, m.request \notin Request,
                 m.command # "current_asset_id", inbox' = Append(inbox, m)
          PROVE  \E j \in DOMAIN inbox : inbox[j] = inbox'[i]
      <4>1. i \in 1..Len(inbox) + 1
        BY <3>3, <1>1, <2>2
      <4>2. i # Len(inbox) + 1
        BY <3>3, <1>1, <2>2
      <4>3. i \in DOMAIN inbox
        BY <4>1, <4>2, <1>1
      <4> QED
        BY <4>3, <3>3, <1>1
    <3> QED
      BY <3>1, <3>2, <3>3 DEF Settles
  <2>3. \A i \in DOMAIN inbox' :
          /\ inbox'[i].command = "current_asset_id" => inbox'[i].request \in Request
          /\ inbox'[i].request \in Request => req'[inbox'[i].request].pc # "new"
    BY <2>2 DEF Settles, AnswerInv, Asked
  <2> QED
    BY <2>1, <2>3 DEF Asked
<1>3. sub' \in {"push", "expire"} =>
        /\ sub \in {"push", "expire"} /\ inbox # <<>> /\ inbox' # <<>>
        /\ Head(inbox') = Head(inbox)
  BY <1>1 DEF Settles, AnswerInv, Sending
<1>4. sub' = "push" => sub = "push" /\ answer' = answer
  BY DEF Settles
<1>5. Sending'
  BY <1>3, <1>4 DEF AnswerInv, Sending
<1>6. ASSUME NEW q \in InFlight' PROVE Fresh(q)'
  <2>1. q \in Request /\ q \in InFlight /\ CurrentId' \in seen'[q]
    BY <1>6 DEF InFlight, Settles
  <2>2. Fresh(q) /\ seen[q] \subseteq seen'[q]
    BY <2>1 DEF AnswerInv, Settles
  <2>3. list'[q] # Nothing => list'[q].value \in seen'[q]
    BY <2>1, <2>2 DEF Settles, Fresh
  <2>4. sub' = "push" /\ Head(inbox').request = q => answer' \in seen'[q]
    BY <1>3, <1>4, <2>2 DEF Fresh
  <2> QED
    BY <2>1, <2>3, <2>4 DEF Fresh
<1>7. AnswerIsOfTheTime'
  BY DEF Settles, AnswerInv, AnswerIsOfTheTime
<1> QED
  BY <1>2, <1>5, <1>6, <1>7 DEF AnswerInv

\* Most steps leave the requests, the replies and the current asset alone.
LEMMA QuietInv ==
  ASSUME AnswerInv, TypeOK',
         UNCHANGED <<req, list, seen, scheduler, current>>,
         \/ inbox' \in {inbox, <<>>}
         \/ inbox # <<>> /\ inbox' = Tail(inbox),
         sub' \notin {"push", "expire"} \/ UNCHANGED <<sub, answer, inbox>>
  PROVE  AnswerInv'
<1>1. CurrentId' = CurrentId /\ InFlight' = InFlight
  BY DEF CurrentId, InFlight
<1>2. \A q \in InFlight : CurrentId \in seen[q]
  BY DEF AnswerInv, Fresh
<1>3. Settles
  BY <1>1, <1>2 DEF Settles
<1> QED
  BY <1>3, SettlesInv

LEMMA ThreadInv ==
  ASSUME AnswerInv,
         Subscribe \/ Announce \/ Notice \/ Unready \/ Wake \/ Boot
  PROVE  AnswerInv'
<1>1. TypeOK
  BY DEF AnswerInv
<1>2. /\ UNCHANGED <<server, list, seen, crashes, up, losses, scheduler,
                     current, torn, handled, answer>>
      /\ inbox' \in {inbox, <<>>}
      /\ sub' \in {"announcing", "lost", "listening", "sleeping", "connecting"}
      /\ link' \in {link, TRUE, FALSE} /\ ready' \in {ready, TRUE, FALSE}
  BY DEF Subscribe, Announce, Notice, Unready, Wake, Boot, server, viewer, redis
<1>3. delay' \in 1..MaxDelay
  <2>1. delay \in 1..MaxDelay /\ MaxDelay \in Nat \ {0}
    BY <1>1, BoundAssumption DEF TypeOK
  <2>2. delay' \in {delay, 1} \/ Wake
    BY DEF Subscribe, Announce, Notice, Unready, Boot
  <2>3. Wake => delay' \in 1..MaxDelay
    BY <2>1 DEF Wake
  <2> QED
    BY <2>1, <2>2, <2>3
<1>4. torn' \in SUBSET Request /\ handled' \in 0..MaxSent
      /\ scheduler' \in BOOLEAN /\ current' \in Asset \union {None}
      /\ answer' \in Asset \union {None, Nothing}
      /\ link' \in BOOLEAN /\ ready' \in BOOLEAN
  BY <1>1, <1>2 DEF TypeOK
<1>5. req' \in [Request -> Asking] /\ list' \in [Request -> {Nothing} \union Reply]
      /\ UNCHANGED <<sent, seen, crashes, up, losses>>
  BY <1>1, <1>2 DEF TypeOK, server, Asking, Reply
<1>6. TypeOK'
  BY <1>1, <1>2, <1>3, <1>4, <1>5, ThreadType DEF Connected
<1> QED
  BY <1>2, <1>6, QuietInv DEF server

\* A command that is not a request, or one of another topic.
LEMMA DispatchInv == ASSUME AnswerInv, Dispatch PROVE AnswerInv'
<1>1. TypeOK /\ inbox # <<>>
  BY DEF AnswerInv, Dispatch
<1>2. /\ req' \in [Request -> Asking] /\ list' \in [Request -> {Nothing} \union Reply]
      /\ torn' \in SUBSET Request /\ scheduler' \in BOOLEAN
      /\ current' \in Asset \union {None} /\ ready' \in BOOLEAN
      /\ delay' \in 1..MaxDelay
      /\ UNCHANGED <<sent, seen, crashes, up, losses>>
      /\ UNCHANGED <<req, list, scheduler, current>>
  BY <1>1 DEF Dispatch, TypeOK, viewer, server, Asking, Reply
<1>3. /\ answer' \in Asset \union {None, Nothing}
      /\ link' \in BOOLEAN /\ handled' \in 0..MaxSent
      /\ inbox' \in {inbox, <<>>} \/ (inbox # <<>> /\ inbox' = Tail(inbox))
      /\ sub' \in {"push", "raised", "listening"}
  <2>1. CurrentId \in Asset \union {None} /\ Head(inbox).n \in 0..MaxSent
    BY <1>1, CurrentType, HeadType
  <2>2. answer \in Asset \union {None, Nothing} /\ link \in BOOLEAN
        /\ handled \in 0..MaxSent
    BY <1>1 DEF TypeOK
  <2> QED
    BY <1>1, <2>1, <2>2 DEF Dispatch, Done
<1>4. TypeOK'
  BY <1>1, <1>2, <1>3, ThreadType DEF Connected
<1>5. CASE sub' # "push"
  BY <1>2, <1>3, <1>4, <1>5, QuietInv
<1>6. CASE sub' = "push"
  <2>1. answer' = CurrentId /\ inbox' = inbox
    BY <1>6 DEF Dispatch, Done
  <2>2. CurrentId' = CurrentId /\ InFlight' = InFlight
    BY <1>2 DEF CurrentId, InFlight
  <2>3. Asked' /\ AnswerIsOfTheTime'
    BY <1>2, <2>1 DEF AnswerInv, Asked, AnswerIsOfTheTime
  <2>4. Sending'
    <3>1. Head(inbox).command = "current_asset_id"
      BY <1>6 DEF Dispatch, Done
    <3>2. Head(inbox).request \in Request
      <4>1. 1 \in DOMAIN inbox /\ Head(inbox) = inbox[1]
        BY <1>1 DEF TypeOK
      <4> QED
        BY <3>1, <4>1 DEF AnswerInv, Asked
    <3> QED
      BY <1>1, <2>1, <3>2, CurrentType DEF Sending
  <2>5. \A q \in InFlight' : Fresh(q)'
    BY <1>2, <2>1, <2>2 DEF AnswerInv, Fresh
  <2> QED
    BY <1>4, <2>3, <2>4, <2>5 DEF AnswerInv
<1> QED
  BY <1>5, <1>6

\* The reply goes to the request that is first in the buffer, and to no other.
LEMMA PushInv == ASSUME AnswerInv, Push PROVE AnswerInv'
<1> DEFINE q == Head(inbox).request
<1>1. /\ TypeOK /\ inbox # <<>> /\ answer \in Asset \union {None}
      /\ sub = "push" /\ q \in Request
  BY DEF AnswerInv, Push, Sending
<1>3. req[q].pc # "new"
  <2>1. 1 \in DOMAIN inbox /\ inbox[1].request = q
    BY <1>1 DEF TypeOK
  <2> QED
    BY <1>1, <2>1 DEF AnswerInv, Asked
<1>4. q \in InFlight => answer \in seen[q]
  BY <1>1 DEF AnswerInv, Fresh
<1>5. UNCHANGED <<inbox, handled, sent, seen, crashes, up, losses, scheduler,
                 current, link, ready, delay>>
  BY DEF Push, Lost, viewer
<1>6. CurrentId' = CurrentId
  BY <1>5 DEF CurrentId
<1>7. req' \in [Request -> Asking] /\ list' \in [Request -> {Nothing} \union Reply]
        /\ torn' \in SUBSET Request
        /\ answer' \in Asset \union {None, Nothing} /\ sub' \in {"lost", "expire"}
      => TypeOK'
  <2> SUFFICES ASSUME req' \in [Request -> Asking],
                      list' \in [Request -> {Nothing} \union Reply],
                      torn' \in SUBSET Request,
                      answer' \in Asset \union {None, Nothing},
                      sub' \in {"lost", "expire"}
               PROVE  TypeOK'
    OBVIOUS
  <2>1. /\ scheduler' \in BOOLEAN /\ current' \in Asset \union {None}
        /\ link' \in BOOLEAN /\ ready' \in BOOLEAN /\ handled' \in 0..MaxSent
        /\ delay' \in 1..MaxDelay
    BY <1>1, <1>5 DEF TypeOK
  <2> QED
    BY <1>1, <1>5, <2>1, ThreadType DEF Connected
<1>8. /\ req \in [Request -> Asking] /\ list \in [Request -> {Nothing} \union Reply]
      /\ torn \in SUBSET Request
  BY <1>1 DEF TypeOK, Asking, Reply
<1>9. CASE ~up
  <2>1. sub' = "lost" /\ answer' = Nothing /\ UNCHANGED <<list, req, torn>>
    BY <1>9 DEF Push, Lost
  <2> QED
    BY <1>1, <1>5, <1>7, <1>8, <2>1, QuietInv
<1>10. CASE up /\ req[q].pc = "waiting"
  <2>1. /\ req' = [req EXCEPT ![q] = [pc |-> "answered", answer |-> answer]]
        /\ UNCHANGED <<list, torn, answer>> /\ sub' = "expire"
    BY <1>1, <1>10 DEF Push, ReplyKey
  <2>2. TypeOK'
    BY <1>1, <1>7, <1>8, <1>10, <2>1, ReqType
  <2>3. /\ req'[q].pc = "answered" /\ req'[q].answer = answer
        /\ \A r \in Request : r # q => req'[r] = req[r]
    BY <1>1, <1>8, <1>10, <2>1
  <2>4. \A r \in InFlight' : r \in InFlight
    BY <2>3 DEF InFlight
  <2>5. Asked'
    BY <1>3, <1>5, <2>1, <2>3 DEF AnswerInv, Asked
  <2>6. Sending'
    BY <1>1, <1>5, <2>1 DEF Sending
  <2>7. \A r \in InFlight' : Fresh(r)'
    BY <1>5, <1>6, <2>1, <2>4 DEF AnswerInv, Fresh
  <2>8. AnswerIsOfTheTime'
    <3>1. q \in InFlight
      BY <1>1, <1>10 DEF InFlight
    <3> QED
      BY <1>4, <1>5, <2>3, <3>1 DEF AnswerInv, AnswerIsOfTheTime
  <2> QED
    BY <2>2, <2>5, <2>6, <2>7, <2>8 DEF AnswerInv
<1>11. CASE up /\ req[q].pc # "waiting"
  <2>1. /\ list' = [list EXCEPT ![q] = [value |-> answer, ttl |-> FALSE]]
        /\ torn' = torn \union {q}
        /\ UNCHANGED <<req, answer>> /\ sub' = "expire"
    BY <1>11 DEF Push, ReplyKey
  <2>2. TypeOK'
    BY <1>1, <1>7, <1>8, <2>1, ListType
  <2>3. /\ list'[q] = [value |-> answer, ttl |-> FALSE]
        /\ \A r \in Request : r # q => list'[r] = list[r]
    BY <1>1, <1>8, <2>1
  <2>4. InFlight' = InFlight
    BY <2>1 DEF InFlight
  <2>5. Asked'
    BY <1>3, <1>5, <2>1, <2>3 DEF AnswerInv, Asked
  <2>6. Sending'
    BY <1>1, <1>5, <2>1 DEF Sending
  <2>7. \A r \in InFlight' : Fresh(r)'
    <3>1. list'[q].value = answer
      BY <2>3
    <3> QED
      BY <1>4, <1>5, <1>6, <2>1, <2>3, <2>4, <3>1
         DEF AnswerInv, Fresh, InFlight
  <2>8. AnswerIsOfTheTime'
    BY <1>5, <2>1 DEF AnswerInv, AnswerIsOfTheTime
  <2> QED
    BY <2>2, <2>5, <2>6, <2>7, <2>8 DEF AnswerInv
<1> QED
  BY <1>9, <1>10, <1>11

LEMMA ExpireInv == ASSUME AnswerInv, Expire PROVE AnswerInv'
<1> DEFINE q == Head(inbox).request
<1>1. TypeOK /\ inbox # <<>> /\ q \in Request /\ Head(inbox).n \in 0..MaxSent
  BY HeadType DEF AnswerInv, Expire, Sending
<1>2. /\ UNCHANGED <<sent, seen, crashes, up, losses, scheduler, current, link,
                     ready, delay, req>>
      /\ answer' = Nothing /\ sub' \in {"lost", "listening"}
      /\ \/ UNCHANGED <<inbox, handled>>
         \/ inbox' = Tail(inbox) /\ handled' = Head(inbox).n
      /\ torn' \in {torn, torn \ {q}}
      /\ \/ list' = list
         \/ list[q] # Nothing /\ list' = [list EXCEPT ![q].ttl = TRUE]
  <2>1. /\ UNCHANGED <<up, link, ready, losses, delay, viewer, server, seen>>
    BY DEF Expire
  <2>2. CASE ~up
    BY <2>1, <2>2 DEF Expire, Lost, viewer, server
  <2>3. CASE up
    BY <2>1, <2>3 DEF Expire, Done, viewer, server, ReplyKey
  <2> QED
    BY <2>2, <2>3
<1>3. /\ list' \in [Request -> {Nothing} \union Reply]
      /\ \A r \in Request : list'[r] # Nothing =>
            list[r] # Nothing /\ list'[r].value = list[r].value
  <2>1. list \in [Request -> {Nothing} \union Reply]
    BY <1>1 DEF TypeOK, Reply
  <2>2. CASE list' = list
    BY <2>1, <2>2
  <2>3. CASE list[q] # Nothing /\ list' = [list EXCEPT ![q].ttl = TRUE]
    <3>1. /\ list' \in [Request -> {Nothing} \union Reply]
          /\ list'[q].value = list[q].value
      BY <1>1, <2>3, ListType
    <3>2. \A r \in Request : r # q => list'[r] = list[r]
      BY <2>1, <2>3
    <3> QED
      BY <2>3, <3>1, <3>2
  <2> QED
    BY <1>2, <2>2, <2>3
<1>4. TypeOK'
  <2>1. /\ req' \in [Request -> Asking] /\ torn' \in SUBSET Request
        /\ scheduler' \in BOOLEAN /\ current' \in Asset \union {None}
        /\ link' \in BOOLEAN /\ ready' \in BOOLEAN /\ delay' \in 1..MaxDelay
        /\ handled' \in 0..MaxSent /\ answer' \in Asset \union {None, Nothing}
    BY <1>1, <1>2 DEF TypeOK, Asking
  <2> QED
    BY <1>1, <1>2, <1>3, <2>1, ThreadType DEF Connected
<1>5. Settles
  <2>1. CurrentId' = CurrentId /\ InFlight' = InFlight
    BY <1>2 DEF CurrentId, InFlight
  <2>2. \A r \in InFlight : CurrentId \in seen[r]
    BY DEF AnswerInv, Fresh
  <2> QED
    BY <1>1, <1>2, <1>3, <2>1, <2>2 DEF Settles
<1> QED
  BY <1>4, <1>5, SettlesInv

-----------------------------------------------------------------------------
(* The server, the main thread and redis *)

LEMMA PublishInv ==
  ASSUME AnswerInv, NEW t \in {"viewer", "reload"},
         NEW c \in Command \union {"none"}, Deliver(t, c, Nothing),
         UNCHANGED <<redis, sub, answer, delay, handled, viewer, req, seen, torn>>
  PROVE  AnswerInv'
<1>1. TypeOK
  BY DEF AnswerInv
<1>2. /\ sent' \in 0..MaxSent /\ inbox' \in Seq(Message)
      /\ \/ inbox' = inbox
         \/ \E m \in Message : /\ m.request = Nothing /\ m.command = c
                               /\ inbox' = Append(inbox, m)
  BY <1>1, DeliverType
<1>3. req' \in [Request -> Asking]
      /\ seen' \in [Request -> SUBSET (Asset \union {None})]
  BY <1>1 DEF TypeOK, Asking
<1>4. TypeOK'
  BY <1>1, <1>2, <1>3, DeliveryType
<1>5. CurrentId' = CurrentId /\ InFlight' = InFlight /\ list' = list
  BY DEF CurrentId, InFlight, viewer, redis
<1>6. \A r \in InFlight : CurrentId \in seen[r]
  BY DEF AnswerInv, Fresh
<1>7. c # "current_asset_id" /\ Nothing \notin Request
  BY CommandAssumption, ValueAssumption
<1>8. Settles
  BY <1>2, <1>5, <1>6, <1>7 DEF Settles
<1> QED
  BY <1>4, <1>8, SettlesInv

LEMMA AskInv == ASSUME AnswerInv, NEW q \in Request, Ask(q) PROVE AnswerInv'
<1>1. TypeOK /\ req[q].pc = "new"
  BY DEF AnswerInv, Ask
<1>2. UNCHANGED <<redis, sub, answer, delay, handled, viewer, torn>>
  BY DEF Ask
<1>3. CurrentId' = CurrentId /\ list' = list
  BY <1>2 DEF CurrentId, viewer, redis
<1>4. req \in [Request -> Asking] /\ seen \in [Request -> SUBSET (Asset \union {None})]
      /\ sent \in 0..MaxSent /\ inbox \in Seq(Message)
  BY <1>1 DEF TypeOK, Asking, Message
<1>5. CASE ~up
  <2>1. req' = [req EXCEPT ![q].pc = "failed"] /\ UNCHANGED <<inbox, sent, seen>>
    BY <1>5 DEF Ask
  <2>2. TypeOK'
    BY <1>1, <1>2, <1>4, <2>1, ReqType, DeliveryType
  <2>3. req'[q].pc = "failed" /\ \A r \in Request : r # q => req'[r] = req[r]
    BY <1>4, <2>1 DEF Asking
  <2>4. \A r \in InFlight : CurrentId \in seen[r]
    BY DEF AnswerInv, Fresh
  <2>5. Settles
    BY <1>2, <1>3, <2>1, <2>3, <2>4 DEF Settles, InFlight
  <2> QED
    BY <2>2, <2>5, SettlesInv
<1>6. CASE up
  <2>1. /\ Deliver("viewer", "current_asset_id", q)
        /\ req' = [req EXCEPT ![q].pc = "sent"]
        /\ seen' = [seen EXCEPT ![q] = {CurrentId}]
    BY <1>6 DEF Ask
  <2>2. /\ sent' \in 0..MaxSent /\ inbox' \in Seq(Message)
        /\ \/ inbox' = inbox
           \/ \E m \in Message : m.request = q /\ inbox' = Append(inbox, m)
    BY <1>1, <2>1, DeliverType, ZenonT(120)
  <2>3. TypeOK'
    <3>1. req' \in [Request -> Asking]
      BY <1>1, <2>1, ReqType
    <3>2. seen' \in [Request -> SUBSET (Asset \union {None})]
      BY <1>1, <1>4, <2>1, CurrentType
    <3> QED
      BY <1>1, <1>2, <2>2, <3>1, <3>2, DeliveryType
  <2>4. /\ req'[q].pc = "sent" /\ seen'[q] = {CurrentId}
        /\ \A r \in Request : r # q => req'[r] = req[r] /\ seen'[r] = seen[r]
    BY <1>4, <2>1 DEF Asking
  <2>5. list[q] = Nothing
    BY <1>1 DEF AnswerInv, Asked
  <2>6. \A i \in DOMAIN inbox' : inbox'[i].request = q
          \/ (i \in DOMAIN inbox /\ inbox'[i] = inbox[i])
    <3>1. CASE inbox' = inbox
      BY <3>1
    <3>2. ASSUME NEW m \in Message, m.request = q, inbox' = Append(inbox, m)
          PROVE  \A i \in DOMAIN inbox' : inbox'[i].request = q
                   \/ (i \in DOMAIN inbox /\ inbox'[i] = inbox[i])
      <4> TAKE i \in DOMAIN inbox'
      <4>1. i \in 1..Len(inbox) + 1
        BY <1>4, <3>2
      <4>2. CASE i = Len(inbox) + 1
        <5>1. inbox'[Len(inbox) + 1] = m
          BY <1>4, <3>2
        <5> QED
          BY <3>2, <4>2, <5>1
      <4>3. CASE i \in DOMAIN inbox
        BY <1>4, <3>2, <4>3
      <4> QED
        BY <1>4, <4>1, <4>2, <4>3
    <3> QED
      BY <2>2, <3>1, <3>2
  <2>7. Asked'
    BY <1>3, <2>4, <2>5, <2>6 DEF AnswerInv, Asked
  <2>8. sub \in {"push", "expire"} =>
          /\ inbox # <<>> /\ inbox' # <<>> /\ Head(inbox') = Head(inbox)
          /\ Head(inbox).request \in Request /\ Head(inbox).request # q
    <3> SUFFICES ASSUME sub \in {"push", "expire"}
                 PROVE  /\ inbox # <<>> /\ inbox' # <<>>
                        /\ Head(inbox') = Head(inbox)
                        /\ Head(inbox).request \in Request
                        /\ Head(inbox).request # q
      OBVIOUS
    <3>1. inbox # <<>> /\ Head(inbox).request \in Request
      BY DEF AnswerInv, Sending
    <3>2. 1 \in DOMAIN inbox /\ Head(inbox) = inbox[1]
      BY <1>4, <3>1
    <3>3. Head(inbox).request # q
      BY <1>1, <3>2 DEF AnswerInv, Asked
    <3>4. inbox' # <<>> /\ Head(inbox') = Head(inbox)
      BY <1>4, <2>2, <3>1, SMTT(40)
    <3> QED
      BY <3>1, <3>3, <3>4
  <2>9. Sending'
    BY <1>2, <2>8 DEF AnswerInv, Sending
  <2>10. \A r \in InFlight' : Fresh(r)'
    <3>1. Fresh(q)'
      BY <1>2, <1>3, <2>4, <2>5, <2>8 DEF Fresh
    <3>2. ASSUME NEW r \in InFlight', r # q PROVE Fresh(r)'
      <4>1. r \in InFlight /\ seen'[r] = seen[r]
        BY <2>4, <3>2 DEF InFlight
      <4> QED
        BY <1>2, <1>3, <2>8, <4>1 DEF AnswerInv, Fresh
    <3> QED
      BY <3>1, <3>2
  <2>11. AnswerIsOfTheTime'
    BY <2>4 DEF AnswerInv, AnswerIsOfTheTime
  <2> QED
    BY <2>3, <2>7, <2>9, <2>10, <2>11 DEF AnswerInv
<1> QED
  BY <1>5, <1>6

LEMMA CollectInv == ASSUME AnswerInv, NEW q \in Request, Collect(q) PROVE AnswerInv'
<1>1. /\ TypeOK /\ q \in InFlight /\ Fresh(q)
  BY DEF AnswerInv, Collect, InFlight
<1>2. UNCHANGED <<up, link, ready, losses, thread, viewer, sent, seen, torn>>
  BY DEF Collect
<1>3. UNCHANGED <<inbox, sub, answer>> /\ CurrentId' = CurrentId
  BY <1>2 DEF thread, viewer, CurrentId
<1>4. /\ req \in [Request -> Asking] /\ list \in [Request -> {Nothing} \union Reply]
      /\ torn' \in SUBSET Request /\ up' \in BOOLEAN /\ link' \in BOOLEAN
      /\ losses' \in 0..MaxLosses
  BY <1>1, <1>2 DEF TypeOK, Asking, Reply
<1>5. \A r \in InFlight : CurrentId \in seen[r]
  BY DEF AnswerInv, Fresh
<1>6. CASE list' = list /\ \E p \in {"failed", "waiting"} : req' = [req EXCEPT ![q].pc = p]
  <2>1. req' \in [Request -> Asking]
    <3>1. PICK p \in {"failed", "waiting"} : req' = [req EXCEPT ![q].pc = p]
      BY <1>6
    <3> QED
      BY <1>1, <3>1, ReqType
  <2>2. TypeOK'
    BY <1>1, <1>2, <1>4, <1>6, <2>1, ServerType
  <2>3. req'[q].pc \in {"failed", "waiting"}
        /\ \A r \in Request : r # q => req'[r] = req[r]
    BY <1>4, <1>6 DEF Asking
  <2>4. Settles
    BY <1>1, <1>2, <1>3, <1>5, <1>6, <2>3 DEF Settles, InFlight
  <2> QED
    BY <2>2, <2>4, SettlesInv
<1>7. CASE /\ list[q] # Nothing
           /\ req' = [req EXCEPT ![q] = [pc |-> "answered",
                                         answer |-> list[q].value]]
           /\ list' = [list EXCEPT ![q] = Nothing]
  <2>1. list[q].value \in Asset \union {None}
    <3>1. list[q] \in Reply
      BY <1>4, <1>7
    <3> QED
      BY <3>1 DEF Reply
  <2>2. req' \in [Request -> Asking] /\ list' \in [Request -> {Nothing} \union Reply]
    BY <1>1, <1>7, <2>1, ReqType, ListType
  <2>3. TypeOK'
    BY <1>1, <1>2, <1>4, <2>2, ServerType
  <2>4. /\ req'[q].pc = "answered" /\ req'[q].answer = list[q].value
        /\ \A r \in Request : r # q => req'[r] = req[r]
        /\ \A r \in Request : list'[r] # Nothing => list'[r] = list[r]
    BY <1>4, <1>7
  <2>5. \A r \in InFlight' : r \in InFlight
    BY <2>4 DEF InFlight
  <2>6. Asked'
    BY <1>3, <2>4 DEF AnswerInv, Asked
  <2>7. Sending'
    BY <1>3 DEF AnswerInv, Sending
  <2>8. \A r \in InFlight' : Fresh(r)'
    <3> TAKE r \in InFlight'
    <3>1. Fresh(r) /\ r \in Request /\ seen'[r] = seen[r]
      BY <1>2, <2>5 DEF AnswerInv, InFlight
    <3> QED
      BY <1>3, <2>4, <3>1 DEF Fresh
  <2>9. AnswerIsOfTheTime'
    BY <1>1, <1>2, <1>7, <2>4 DEF AnswerInv, AnswerIsOfTheTime, Fresh
  <2> QED
    BY <2>3, <2>6, <2>7, <2>8, <2>9 DEF AnswerInv
<1> QED
  BY <1>6, <1>7 DEF Collect, ReplyKey

LEMMA TimeOutInv == ASSUME AnswerInv, NEW q \in Request, TimeOut(q) PROVE AnswerInv'
<1>1. TypeOK /\ req[q].pc = "waiting" /\ req' = [req EXCEPT ![q].pc = "timedout"]
  BY DEF AnswerInv, TimeOut
<1>2. UNCHANGED <<redis, thread, viewer, sent, seen, torn>>
  BY DEF TimeOut
<1>3. UNCHANGED <<inbox, sub, answer, list>> /\ CurrentId' = CurrentId
  BY <1>2 DEF thread, viewer, redis, CurrentId
<1>4. /\ req \in [Request -> Asking] /\ list' \in [Request -> {Nothing} \union Reply]
      /\ torn' \in SUBSET Request /\ up' \in BOOLEAN /\ link' \in BOOLEAN
      /\ losses' \in 0..MaxLosses /\ ready' = ready
  BY <1>1, <1>2 DEF TypeOK, Asking, Reply, redis
<1>5. TypeOK'
  BY <1>1, <1>2, <1>4, ReqType, ServerType
<1>6. req'[q].pc = "timedout" /\ \A r \in Request : r # q => req'[r] = req[r]
  BY <1>1, <1>4 DEF Asking
<1>7. \A r \in InFlight : CurrentId \in seen[r]
  BY DEF AnswerInv, Fresh
<1>8. Settles
  BY <1>1, <1>2, <1>3, <1>6, <1>7 DEF Settles, InFlight
<1> QED
  BY <1>5, <1>8, SettlesInv

LEMMA VanishInv == ASSUME AnswerInv, NEW q \in Request, Vanish(q) PROVE AnswerInv'
<1>1. TypeOK /\ list' = [list EXCEPT ![q] = Nothing]
  BY DEF AnswerInv, Vanish
<1>2. UNCHANGED <<up, link, ready, losses, thread, viewer, server, seen, torn>>
  BY DEF Vanish
<1>3. UNCHANGED <<inbox, sub, answer, req>> /\ CurrentId' = CurrentId
      /\ InFlight' = InFlight
  BY <1>2 DEF thread, viewer, server, CurrentId, InFlight
<1>4. /\ req' \in [Request -> Asking] /\ torn' \in SUBSET Request
      /\ up' \in BOOLEAN /\ link' \in BOOLEAN /\ losses' \in 0..MaxLosses
      /\ sent' = sent
  BY <1>1, <1>2, <1>3 DEF TypeOK, Asking, server
<1>5. TypeOK'
  BY <1>1, <1>2, <1>4, ListType, ServerType
<1>6. \A r \in Request : list'[r] # Nothing => list'[r] = list[r]
  BY <1>1 DEF TypeOK
<1>7. \A r \in InFlight : CurrentId \in seen[r]
  BY DEF AnswerInv, Fresh
<1>8. Settles
  BY <1>2, <1>3, <1>6, <1>7 DEF Settles
<1> QED
  BY <1>5, <1>8, SettlesInv

\* A change of the current asset is noted for every request on its way.
LEMMA ShowInv ==
  ASSUME AnswerInv, TypeOK', CurrentId' \in Asset \union {None},
         seen' = Saw(CurrentId'), UNCHANGED <<list, req>>,
         \/ UNCHANGED <<inbox, sub, answer>>
         \/ inbox' = <<>> /\ sub' = "off"
  PROVE  AnswerInv'
<1>1. InFlight' = InFlight
  BY DEF InFlight
<1>2. \A q \in Request : seen[q] \subseteq seen'[q]
  BY DEF Saw
<1>3. \A q \in InFlight : q \in Request /\ CurrentId' \in seen'[q]
  BY DEF Saw, InFlight
<1>4. Settles
  BY <1>1, <1>2, <1>3 DEF Settles
<1> QED
  BY <1>4, SettlesInv

LEMMA ViewerInv ==
  ASSUME AnswerInv,
         CreateScheduler \/ Crash \/ (\E a \in Asset \union {None} : Show(a))
  PROVE  AnswerInv'
<1>1. TypeOK
  BY DEF AnswerInv
<1>2. /\ up \in BOOLEAN /\ link \in BOOLEAN /\ ready \in BOOLEAN
      /\ delay \in 1..MaxDelay /\ 1 \in 1..MaxDelay
  BY <1>1, BoundAssumption DEF TypeOK
<1>3. CASE CreateScheduler
  <2>1. TypeOK'
    BY <1>1, <1>3 DEF CreateScheduler, TypeOK, redis, thread, server
  <2>2. CurrentId' = CurrentId
    BY <1>3 DEF CreateScheduler, CurrentId
  <2>3. \A q \in InFlight : CurrentId \in seen[q]
    BY DEF AnswerInv, Fresh
  <2>4. UNCHANGED <<list, req, seen, inbox, sub, answer>> /\ InFlight' = InFlight
    BY <1>3 DEF CreateScheduler, redis, thread, server, InFlight
  <2>5. Settles
    BY <2>2, <2>3, <2>4 DEF Settles
  <2> QED
    BY <2>1, <2>5, SettlesInv
<1>4. CASE Crash
  <2>1. CurrentId' = None /\ seen' = Saw(None)
    BY <1>4 DEF Crash, CurrentId
  <2>2. seen' \in [Request -> SUBSET (Asset \union {None})]
    BY <1>1, <2>1, SawType
  <2>3. crashes' \in 0..MaxCrashes
    BY <1>1, <1>4, BoundAssumption DEF Crash, TypeOK
  <2>4. handled' \in 0..MaxSent /\ inbox' \in Seq(Message)
        /\ UNCHANGED <<up, ready, list, losses, req, sent, torn>>
    BY <1>1, <1>4 DEF Crash, TypeOK, server
  <2>5. TypeOK'
    BY <1>1, <1>2, <1>4, <2>2, <2>3, <2>4 DEF Crash, TypeOK, Message
  <2> QED
    BY <1>4, <2>1, <2>5, ShowInv DEF Crash, server
<1>5. ASSUME NEW a \in Asset \union {None}, Show(a) PROVE AnswerInv'
  <2>1. CurrentId' = a /\ seen' = Saw(a)
    BY <1>5 DEF Show, CurrentId
  <2>2. seen' \in [Request -> SUBSET (Asset \union {None})]
    BY <1>1, <2>1, SawType
  <2>3. TypeOK'
    BY <1>1, <1>5, <2>2 DEF Show, TypeOK, redis, thread, server
  <2> QED
    BY <1>5, <2>1, <2>3, ShowInv DEF Show, redis, thread, server
<1> QED
  BY <1>3, <1>4, <1>5

LEMMA RedisInv == ASSUME AnswerInv, Outage \/ Recover \/ Drop PROVE AnswerInv'
<1>1. TypeOK
  BY DEF AnswerInv
<1>2. /\ UNCHANGED <<ready, list, thread, viewer, sent, seen, torn>>
      /\ link' \in BOOLEAN /\ up' \in BOOLEAN
  BY <1>1 DEF Outage, Recover, Drop, TypeOK, server
<1>3. losses' \in 0..MaxLosses
  BY <1>1, BoundAssumption DEF Outage, Recover, Drop, TypeOK
<1>4. \A q \in Request : \/ req'[q] = req[q]
                         \/ /\ req[q].pc = "waiting" /\ req'[q].pc = "failed"
                            /\ req'[q] \in Asking
  <2>1. CASE Outage
    <3> TAKE q \in Request
    <3>1. req[q] \in Asking
      BY <1>1 DEF TypeOK, Asking
    <3>2. req'[q] = IF req[q].pc = "waiting"
                      THEN [req[q] EXCEPT !.pc = "failed"] ELSE req[q]
      BY <2>1 DEF Outage
    <3> QED
      BY <3>1, <3>2 DEF Asking
  <2>2. CASE Recover \/ Drop
    BY <2>2 DEF Recover, Drop, server
  <2> QED
    BY <2>1, <2>2
<1>5. req' \in [Request -> Asking]
  <2>1. req \in [Request -> Asking]
    BY <1>1 DEF TypeOK, Asking
  <2>2. req' = [q \in Request |-> req'[q]]
    BY <2>1 DEF Outage, Recover, Drop, server
  <2>3. \A q \in Request : req'[q] \in Asking
    BY <1>4, <2>1
  <2> QED
    BY <2>2, <2>3
<1>6. TypeOK'
  <2>1. torn' \in SUBSET Request /\ list' \in [Request -> {Nothing} \union Reply]
    BY <1>1, <1>2 DEF TypeOK, Reply
  <2> QED
    BY <1>1, <1>2, <1>3, <1>5, <2>1, ServerType
<1>7. Settles
  <2>1. UNCHANGED <<inbox, sub, answer, list, seen>> /\ CurrentId' = CurrentId
    BY <1>2 DEF thread, viewer, CurrentId
  <2>2. \A r \in InFlight : CurrentId \in seen[r]
    BY DEF AnswerInv, Fresh
  <2> QED
    BY <1>4, <2>1, <2>2 DEF Settles, InFlight
<1> QED
  BY <1>6, <1>7, SettlesInv

LEMMA StepInv == AnswerInv /\ [Next]_vars => AnswerInv'
<1> SUFFICES ASSUME AnswerInv, [Next]_vars PROVE AnswerInv'
  OBVIOUS
<1>1. CASE UNCHANGED vars
  <2>1. /\ UNCHANGED <<redis, thread, viewer, server, seen, torn>>
    BY <1>1 DEF vars
  <2>2. /\ UNCHANGED <<req, list, seen, scheduler, current, sub, answer, inbox>>
    BY <2>1 DEF redis, thread, viewer, server
  <2>3. TypeOK'
    BY <2>1 DEF AnswerInv, TypeOK, redis, thread, viewer, server
  <2> QED
    BY <2>2, <2>3, QuietInv
<1>2. ASSUME NEW c \in Command, Control(c) PROVE AnswerInv'
  BY <1>2, PublishInv DEF Control
<1>3. CASE TaskReload
  BY <1>3, PublishInv DEF TaskReload
<1>4. ASSUME NEW q \in Request, Ask(q) \/ Collect(q) \/ TimeOut(q) \/ Vanish(q)
      PROVE  AnswerInv'
  BY <1>4, AskInv, CollectInv, TimeOutInv, VanishInv
<1>5. CASE Subscriber \/ Boot
  BY <1>5, ThreadInv, DispatchInv, PushInv, ExpireInv DEF Subscriber
<1>6. CASE CreateScheduler \/ Crash \/ (\E a \in Asset \union {None} : Show(a))
  BY <1>6, ViewerInv
<1>7. CASE Outage \/ Recover \/ Drop
  BY <1>7, RedisInv
<1> QED
  BY <1>1, <1>2, <1>3, <1>4, <1>5, <1>6, <1>7 DEF Next

LEMMA Invariance == Spec => []AnswerInv
  BY InitInv, StepInv, PTL DEF Spec

\* Every variable of redis, the server and the viewer keeps its type.
THEOREM TypeCorrect == Spec => []TypeOK
<1>1. AnswerInv => TypeOK
  BY DEF AnswerInv
<1> QED
  BY <1>1, Invariance, PTL

\* What a view is told was the current asset at some moment since it asked,
\* whatever redis loses, the viewer restarts and other requests leave behind.
THEOREM AnswersAreOfTheTime == Spec => []AnswerIsOfTheTime
<1>1. AnswerInv => AnswerIsOfTheTime
  BY DEF AnswerInv
<1> QED
  BY <1>1, Invariance, PTL

-----------------------------------------------------------------------------
(* The numbers in the buffer *)

\* All the refinement needs to know: the buffer is a sequence of numbered
\* messages.
Buffer ==
  /\ inbox \in Seq(Message) /\ sent \in Nat /\ handled \in Nat
  /\ sub \in {"push", "expire"} => inbox # <<>>

LEMMA BufferInvariant == Spec => []Buffer
<1>1. AnswerInv => Buffer
  BY BoundAssumption DEF AnswerInv, TypeOK, Sending, Buffer, Message
<1> QED
  BY <1>1, Invariance, PTL

Numbers(s) == [i \in DOMAIN s |-> s[i].n]

LEMMA NumberType == ASSUME NEW m \in Message PROVE m.n \in Nat
  BY DEF Message

LEMMA NumbersType ==
  ASSUME NEW s \in Seq(Message)
  PROVE  Numbers(s) \in Seq(Nat) /\ Len(Numbers(s)) = Len(s)
<1>1. DOMAIN s = 1..Len(s) /\ Len(s) \in Nat /\ \A i \in 1..Len(s) : s[i] \in Message
  OBVIOUS
<1>2. \A i \in 1..Len(s) : s[i].n \in Nat
  BY <1>1, NumberType
<1>3. Numbers(s) \in [1..Len(s) -> Nat]
  BY <1>1, <1>2 DEF Numbers
<1> QED
  BY <1>1, <1>3

LEMMA NumbersAppend ==
  ASSUME NEW s \in Seq(Message), NEW m \in Message
  PROVE  Numbers(Append(s, m)) = Append(Numbers(s), m.n)
<1>1. Numbers(s) \in Seq(Nat) /\ Len(Numbers(s)) = Len(s)
  BY NumbersType
<1>2. Append(s, m) \in Seq(Message) /\ Len(Append(s, m)) = Len(s) + 1
  OBVIOUS
<1>3. Numbers(Append(s, m)) \in Seq(Nat)
      /\ Len(Numbers(Append(s, m))) = Len(s) + 1
  BY <1>2, NumbersType
<1>4. m.n \in Nat
  BY NumberType
<1>5. Append(Numbers(s), m.n) \in Seq(Nat)
      /\ Len(Append(Numbers(s), m.n)) = Len(s) + 1
  BY <1>1, <1>4
<1>6. \A i \in 1..Len(s) + 1 :
        Numbers(Append(s, m))[i] = Append(Numbers(s), m.n)[i]
  <2> TAKE i \in 1..Len(s) + 1
  <2>1. Numbers(Append(s, m))[i] = Append(s, m)[i].n
    BY <1>2 DEF Numbers
  <2>2. CASE i = Len(s) + 1
    BY <2>1, <2>2, <1>1, <1>4
  <2>3. CASE i \in 1..Len(s)
    <3>1. Append(s, m)[i] = s[i] /\ Append(Numbers(s), m.n)[i] = Numbers(s)[i]
      BY <2>3, <1>1, <1>4
    <3>2. Numbers(s)[i] = s[i].n
      BY <2>3 DEF Numbers
    <3> QED
      BY <2>1, <3>1, <3>2
  <2>4. i = Len(s) + 1 \/ i \in 1..Len(s)
    OBVIOUS
  <2> QED
    BY <2>2, <2>3, <2>4, Zenon
<1> QED
  BY <1>3, <1>5, <1>6

LEMMA NumbersTail ==
  ASSUME NEW s \in Seq(Message), s # <<>>
  PROVE  /\ Numbers(Tail(s)) = Tail(Numbers(s))
         /\ Head(Numbers(s)) = Head(s).n
         /\ Numbers(s) # <<>>
<1>1. Numbers(s) \in Seq(Nat) /\ Len(Numbers(s)) = Len(s) /\ Len(s) > 0
  BY NumbersType
<1>2. Tail(s) \in Seq(Message) /\ Len(Tail(s)) = Len(s) - 1
  OBVIOUS
<1>3. Numbers(Tail(s)) \in Seq(Nat) /\ Len(Numbers(Tail(s))) = Len(s) - 1
  BY <1>2, NumbersType
<1>4. Tail(Numbers(s)) \in Seq(Nat) /\ Len(Tail(Numbers(s))) = Len(s) - 1
  BY <1>1
<1>5. \A i \in 1..Len(s) - 1 : Numbers(Tail(s))[i] = Tail(Numbers(s))[i]
  <2> TAKE i \in 1..Len(s) - 1
  <2>1. Numbers(Tail(s))[i] = Tail(s)[i].n
    BY <1>2 DEF Numbers
  <2>2. Tail(s)[i] = s[i + 1] /\ Tail(Numbers(s))[i] = Numbers(s)[i + 1]
    BY <1>1
  <2>3. Numbers(s)[i + 1] = s[i + 1].n
    BY <1>1 DEF Numbers
  <2> QED
    BY <2>1, <2>2, <2>3
<1>6. Head(Numbers(s)) = Head(s).n
  <2>1. Head(Numbers(s)) = Numbers(s)[1] /\ Head(s) = s[1] /\ 1 \in DOMAIN s
    BY <1>1
  <2> QED
    BY <2>1 DEF Numbers
<1>7. Numbers(Tail(s)) = Tail(Numbers(s))
  BY <1>3, <1>4, <1>5, SeqEqual
<1>8. Numbers(s) # <<>>
  BY <1>1
<1> QED
  BY <1>6, <1>7, <1>8

LEMMA NumbersEmpty == Numbers(<<>>) = <<>>
  BY DEF Numbers

-----------------------------------------------------------------------------
(* The four kinds of step the channel tells apart *)

\* What a step does to the three variables the abstract channel has.
Unread == UNCHANGED <<inbox, sent, handled>>

Delivers ==
  /\ sent' = sent + 1 /\ handled' = handled
  /\ \/ inbox' = inbox
     \/ \E m \in Message : m.n = sent + 1 /\ inbox' = Append(inbox, m)

Handles ==
  /\ inbox # <<>>
  /\ handled' = Head(inbox).n /\ inbox' = Tail(inbox) /\ sent' = sent

Drops == inbox' = <<>> /\ UNCHANGED <<sent, handled>>

LEMMA DeliverDelivers ==
  ASSUME Buffer, NEW t \in {"viewer", "reload"},
         NEW c \in Command \union {"current_asset_id", "none"},
         NEW q \in Request \union {Nothing}, Deliver(t, c, q),
         UNCHANGED handled
  PROVE  Delivers
<1>1. sent + 1 \in 1..MaxSent
  BY BoundAssumption DEF Buffer, Deliver
<1>2. [n |-> sent + 1, topic |-> t, command |-> c, request |-> q] \in Message
  BY <1>1 DEF Message
<1> QED
  BY <1>2 DEF Deliver, Delivers

\* Every step is one of four, seen from the channel.
LEMMA StepKinds ==
  ASSUME Buffer, [Next]_vars
  PROVE  Unread \/ Delivers \/ Handles \/ Drops
<1>1. CASE UNCHANGED vars
  BY <1>1 DEF vars, thread, server, Unread
<1>2. ASSUME NEW c \in Command, Control(c) PROVE Delivers
  BY <1>2, DeliverDelivers DEF Control
<1>3. CASE TaskReload
  BY <1>3, DeliverDelivers DEF TaskReload
<1>4. ASSUME NEW q \in Request, Ask(q) PROVE Unread \/ Delivers
  BY <1>4, DeliverDelivers DEF Ask, Unread
<1>5. ASSUME NEW q \in Request, Collect(q) \/ TimeOut(q) \/ Vanish(q)
      PROVE Unread
  BY <1>5 DEF Collect, TimeOut, Vanish, Unread, thread, server
<1>6. CASE Subscribe \/ Announce \/ Notice \/ Unready
  BY <1>6 DEF Subscribe, Announce, Notice, Unready, Unread, server
<1>7. CASE Dispatch
  <2>1. sent' = sent /\ inbox # <<>>
    BY <1>7 DEF Dispatch, server
  <2> QED
    BY <1>7, <2>1 DEF Dispatch, Done, Unread, Handles, Drops
<1>8. CASE Push
  <2>1. sent' = sent
    BY <1>8 DEF Push
  <2>2. UNCHANGED <<inbox, handled>>
    BY <1>8 DEF Push, Lost
  <2> QED
    BY <2>1, <2>2 DEF Unread
<1>9. CASE Expire
  <2>1. sent' = sent /\ inbox # <<>>
    BY <1>9 DEF Expire, server, Buffer
  <2> QED
    BY <1>9, <2>1 DEF Expire, Lost, Done, Unread, Handles
<1>10. CASE Wake
  BY <1>10 DEF Wake, server, Drops
<1>11. CASE Boot
  BY <1>11 DEF Boot, Unread, server
<1>12. CASE CreateScheduler
  BY <1>12 DEF CreateScheduler, Unread, thread, server
<1>13. CASE Crash
  BY <1>13 DEF Crash, Drops, server
<1>14. ASSUME NEW a \in Asset \union {None}, Show(a) PROVE Unread
  BY <1>14 DEF Show, Unread, thread, server
<1>15. CASE Outage \/ Recover \/ Drop
  BY <1>15 DEF Outage, Recover, Drop, Unread, thread, server
<1> QED
  BY <1>1, <1>2, <1>3, <1>4, <1>5, <1>6, <1>7, <1>8, <1>9, <1>10, <1>11,
     <1>12, <1>13, <1>14, <1>15 DEF Next, Subscriber

-----------------------------------------------------------------------------
(* The refinement *)

LEMMA ChannelInit == Init => Channel!Init
  BY NumbersEmpty DEF Init, Channel!Init, Numbers

LEMMA ChannelStep == Buffer /\ [Next]_vars => [Channel!Next]_Channel!vars
<1> SUFFICES ASSUME Buffer, [Next]_vars
             PROVE  Channel!Next \/ UNCHANGED Channel!vars
  OBVIOUS
<1>1. Unread \/ Delivers \/ Handles \/ Drops
  BY StepKinds
<1>2. CASE Unread
  BY <1>2 DEF Unread, Channel!vars
<1>3. CASE Delivers
  <2>1. CASE inbox' = inbox
    BY <1>3, <2>1 DEF Delivers, Channel!Next, Channel!Miss
  <2>2. ASSUME NEW m \in Message, m.n = sent + 1, inbox' = Append(inbox, m)
        PROVE  Channel!Accept
    <3>1. Numbers(inbox') = Append(Numbers(inbox), sent + 1)
      BY <2>2, NumbersAppend DEF Buffer
    <3> QED
      BY <1>3, <3>1 DEF Delivers, Channel!Accept, Numbers
  <2> QED
    BY <1>3, <2>1, <2>2 DEF Delivers, Channel!Next
<1>4. CASE Handles
  <2>1. /\ Numbers(inbox') = Tail(Numbers(inbox))
        /\ Head(Numbers(inbox)) = handled'
        /\ Numbers(inbox) # <<>>
    BY <1>4, NumbersTail DEF Handles, Buffer
  <2> QED
    BY <1>4, <2>1 DEF Handles, Channel!Next, Channel!Handle, Numbers
<1>5. CASE Drops
  <2>1. CASE inbox = <<>>
    BY <1>5, <2>1 DEF Drops, Channel!vars
  <2>2. CASE inbox # <<>>
    <3>1. Numbers(inbox) # <<>> /\ Numbers(inbox') = <<>>
      BY <1>5, <2>2, NumbersTail, NumbersEmpty DEF Drops, Buffer
    <3> QED
      BY <1>5, <3>1 DEF Drops, Channel!Next, Channel!Lose, Numbers
  <2> QED
    BY <2>1, <2>2
<1> QED
  BY <1>1, <1>2, <1>3, <1>4, <1>5

\* Every step of redis, of the server and of the viewer is a step of the
\* channel or none: a command is accepted or missed, handled whole and in its
\* turn, or lost with its connection.
THEOREM SubscriberIsChannel == Spec => Channel!Spec
  BY ChannelInit, ChannelStep, BufferInvariant, PTL DEF Spec, Channel!Spec

-----------------------------------------------------------------------------
(* The order the channel keeps *)

\* What waits is numbered upwards, above what was handled (h) and no higher
\* than what was sent (n).
Upwards(s, n, h) ==
  /\ h <= n
  /\ \A i \in 1..Len(s) : h < s[i] /\ s[i] <= n
  /\ \A i, j \in 1..Len(s) : i < j => s[i] < s[j]

LEMMA AcceptUpwards ==
  ASSUME NEW s \in Seq(Nat), NEW n \in Nat, NEW h \in Nat, Upwards(s, n, h)
  PROVE  Upwards(Append(s, n + 1), n + 1, h)
<1> DEFINE t == Append(s, n + 1)
<1>1. /\ Len(t) = Len(s) + 1 /\ Len(s) \in Nat /\ t[Len(s) + 1] = n + 1
      /\ \A i \in 1..Len(s) : t[i] = s[i] /\ s[i] \in Nat
  OBVIOUS
<1> HIDE DEF t
<1>2. h <= n + 1
  BY DEF Upwards
<1>3. \A i \in 1..Len(t) : h < t[i] /\ t[i] <= n + 1
  <2> TAKE i \in 1..Len(t)
  <2>1. CASE i = Len(s) + 1
    BY <1>1, <2>1 DEF Upwards
  <2>2. CASE i \in 1..Len(s)
    BY <1>1, <2>2 DEF Upwards
  <2> QED
    BY <1>1, <2>1, <2>2
<1>4. ASSUME NEW i \in 1..Len(t), NEW j \in 1..Len(t), i < j
      PROVE  t[i] < t[j]
  <2>1. i \in 1..Len(s)
    BY <1>1, <1>4
  <2>2. CASE j = Len(s) + 1
    BY <1>1, <2>1, <2>2 DEF Upwards
  <2>3. CASE j \in 1..Len(s)
    BY <1>1, <1>4, <2>1, <2>3 DEF Upwards
  <2> QED
    BY <1>1, <2>2, <2>3
<1> QED
  BY <1>2, <1>3, <1>4 DEF Upwards, t

LEMMA HandleUpwards ==
  ASSUME NEW s \in Seq(Nat), s # <<>>, NEW n \in Nat, NEW h \in Nat,
         Upwards(s, n, h)
  PROVE  Head(s) \in Nat /\ Head(s) > h /\ Upwards(Tail(s), n, Head(s))
<1> DEFINE t == Tail(s)
<1>1. /\ Len(t) = Len(s) - 1 /\ Len(s) \in Nat \ {0}
      /\ Head(s) = s[1] /\ s[1] \in Nat
      /\ \A i \in 1..Len(t) : t[i] = s[i + 1] /\ i + 1 \in 1..Len(s)
  OBVIOUS
<1> HIDE DEF t
<1>2. h < s[1] /\ s[1] <= n
  BY <1>1 DEF Upwards
<1>3. \A i \in 1..Len(t) : s[1] < t[i] /\ t[i] <= n
  <2> TAKE i \in 1..Len(t)
  <2>1. /\ t[i] = s[i + 1] /\ i + 1 \in 1..Len(s) /\ 1 < i + 1
        /\ 1 \in 1..Len(s)
    BY <1>1
  <2> QED
    BY <2>1 DEF Upwards
<1>4. ASSUME NEW i \in 1..Len(t), NEW j \in 1..Len(t), i < j
      PROVE  t[i] < t[j]
  <2>1. /\ i + 1 \in 1..Len(s) /\ j + 1 \in 1..Len(s) /\ i + 1 < j + 1
        /\ t[i] = s[i + 1] /\ t[j] = s[j + 1]
    BY <1>1, <1>4
  <2> QED
    BY <2>1 DEF Upwards
<1>5. Upwards(t, n, s[1])
  BY <1>2, <1>3, <1>4 DEF Upwards
<1> QED
  BY <1>1, <1>2, <1>5 DEF t

Ordered ==
  /\ sent \in Nat /\ handled \in Nat /\ Numbers(inbox) \in Seq(Nat)
  /\ Upwards(Numbers(inbox), sent, handled)

LEMMA InitOrdered == Channel!Init => Ordered
  BY DEF Channel!Init, Ordered, Upwards, Numbers

LEMMA StepOrdered ==
  Ordered /\ [Channel!Next]_Channel!vars
    => Ordered' /\ (handled' # handled => handled' > handled)
<1> SUFFICES ASSUME Ordered, [Channel!Next]_Channel!vars
             PROVE  Ordered' /\ (handled' # handled => handled' > handled)
  OBVIOUS
<1>1. CASE Channel!Accept
  <2>1. /\ Numbers(inbox)' = Append(Numbers(inbox), sent + 1)
        /\ sent' = sent + 1 /\ handled' = handled
    BY <1>1 DEF Channel!Accept, Numbers
  <2> QED
    BY <2>1, AcceptUpwards DEF Ordered
<1>2. CASE Channel!Miss
  <2>1. /\ Numbers(inbox)' = Numbers(inbox)
        /\ sent' = sent + 1 /\ handled' = handled
    BY <1>2 DEF Channel!Miss, Numbers
  <2> QED
    BY <2>1 DEF Ordered, Upwards
<1>3. CASE Channel!Handle
  <2>1. /\ Numbers(inbox) # <<>> /\ Numbers(inbox)' = Tail(Numbers(inbox))
        /\ sent' = sent /\ handled' = Head(Numbers(inbox))
    BY <1>3 DEF Channel!Handle, Numbers
  <2> QED
    BY <2>1, HandleUpwards DEF Ordered
<1>4. CASE Channel!Lose
  <2>1. Numbers(inbox)' = <<>> /\ UNCHANGED <<sent, handled>>
    BY <1>4 DEF Channel!Lose, Numbers
  <2> QED
    BY <2>1 DEF Ordered, Upwards
<1>5. CASE UNCHANGED Channel!vars
  <2>1. Numbers(inbox)' = Numbers(inbox) /\ UNCHANGED <<sent, handled>>
    BY <1>5 DEF Channel!vars, Numbers
  <2> QED
    BY <2>1 DEF Ordered
<1> QED
  BY <1>1, <1>2, <1>3, <1>4, <1>5 DEF Channel!Next

\* The channel hands commands on in the order in which they were published,
\* and none twice, however many are lost.
THEOREM ChannelInOrder == Channel!Spec => Channel!HandledInOrder
<1>1. Ordered /\ [Channel!Next]_Channel!vars
        => [handled' # handled => handled' > handled]_Channel!vars
  BY StepOrdered
<1> QED
  BY <1>1, InitOrdered, StepOrdered, PTL
     DEF Channel!Spec, Channel!HandledInOrder

\* What the channel promises holds of the subscriber: commands are handled in
\* the order of their publication, whatever is lost in between.
THEOREM SubscriberInOrder == Spec => HandledInOrder
<1>1. [handled' # handled => handled' > handled]_Channel!vars
        => [handled' # handled => handled' > handled]_vars
  BY DEF Channel!vars
<1> QED
  BY <1>1, SubscriberIsChannel, ChannelInOrder, PTL
     DEF HandledInOrder, Channel!HandledInOrder

=============================================================================
