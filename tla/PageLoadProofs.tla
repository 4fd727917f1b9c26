--------------------------- MODULE PageLoadProofs ----------------------------
(***************************************************************************)
(* Proofs about PageLoad, for any pages, images and videos, any faults and *)
(* any number of loads and crashes: what was overtaken never comes on      *)
(* screen, a video keeps the screen, and a page is loaded with the headers *)
(* of its own asset.                                                       *)
(***************************************************************************)
EXTENDS PageLoad, TLAPS


\* The View, with load generations of any number.
Views ==
  [gen : Nat, conn : Nat, pending : Page \cup {None}, watchdog : BOOLEAN,
   nav : Request, page : Page \cup {None}, ok : BOOLEAN, visible : BOOLEAN,
   image : Image \cup {None}, movie : Animated \cup {None},
   replies : SUBSET [gen : Nat, image : Image],
   video : Video \cup {None}, surface : BOOLEAN,
   staged : Header \cup {None}, scope : Request, interval : BOOLEAN,
   timer : BOOLEAN, last : Asset \cup {None}]

\* What the viewer shows at the call it has come to.
WantOf(l) == CASE l \in {"headers", "page", "interval"} -> Page
               [] l = "image" -> Image
               [] l \in {"play", "null", "stop"} -> Video
               [] OTHER -> Asset \cup {None}

Types ==
  /\ view \in Views
  /\ up \in BOOLEAN /\ retry \in BOOLEAN /\ crashes \in 0..MaxCrashes
  /\ pc \in {"idle", "headers", "page", "interval", "image", "play", "null",
             "stop"}
  /\ want \in [url : Asset \cup {None}, headers : Header \cup {None},
               refresh : BOOLEAN]
  /\ want.url \in WantOf(pc)
  /\ cache \in [url : Asset \cup {None, Null}, headers : Header \cup {None}]

\* A load that is still listened to is the last one, of the page that was asked
\* for last; what else the network may bring is what was on the screen, or has
\* a generation that is over.
Current(v) ==
  /\ v.pending \in {None, v.last} /\ (v.pending # None => v.gen > 0)
  /\ v.conn # 0 => /\ v.conn = v.gen /\ v.pending # None
                   /\ v.nav # None /\ v.nav.page = v.pending
  /\ v.conn = 0 /\ v.nav # None => v.nav.page = v.page
  /\ v.movie \in {None, v.last}
  /\ \A r \in v.replies : r.gen <= v.gen /\ (r.gen = v.gen => r.image = v.last)

Covered(v) == v.last \in Video => v.surface /\ ~v.visible /\ v.image = None

\* The headers that are staged as a page is about to be loaded are its own.
Staged == pc = "page" /\ up /\ ~retry => view.staged = want.headers

\* Who has waited for the call of a page, an image or a video has generations
\* left for it.
Bounded ==
  /\ pc \in {"headers", "page", "image", "play"} => view.gen < MaxLoads
  /\ pc # "idle" => 0 < MaxLoads
  /\ pc = "null" => view.gen <= MaxLoads
  /\ view.gen <= MaxLoads + 1
  /\ \A r \in view.replies : r.gen > 0

Good(v) == v \in Views /\ Current(v) /\ Covered(v)

Inv == Types /\ Current(view) /\ Covered(view) /\ Staged /\ Bounded

-----------------------------------------------------------------------------
(* The slots of View keep it good *)

LEMMA FreshGood == Good(Fresh)
BY AssetAssumption DEF Good, Views, Current, Covered, Fresh, Request, Asset

LEMMA NoRequest == None \in Request
BY DEF Request

LEMMA CancelPageType ==
  ASSUME NEW v \in Views
  PROVE  LET w == CancelPage(v) IN
           /\ w \in Views
           /\ w.gen = v.gen + 1 /\ w.conn = 0 /\ w.pending = None
           /\ w.nav = None /\ w.visible = FALSE /\ w.movie = None
           /\ w.image = v.image /\ w.replies = v.replies
           /\ w.surface = v.surface /\ w.last = v.last /\ w.page = v.page
<1> DEFINE g == v.gen + 1
           w == [v EXCEPT !.gen = g, !.conn = 0, !.watchdog = FALSE,
                          !.pending = None, !.timer = FALSE,
                          !.interval = FALSE, !.nav = None,
                          !.visible = FALSE, !.movie = None]
<1>1. g \in Nat
  BY DEF Views
<1>2. /\ w \in Views
      /\ w.gen = g /\ w.conn = 0 /\ w.pending = None
      /\ w.nav = None /\ w.visible = FALSE /\ w.movie = None
      /\ w.image = v.image /\ w.replies = v.replies
      /\ w.surface = v.surface /\ w.last = v.last /\ w.page = v.page
  <2> HIDE DEF g
  <2>1. w \in Views
    BY <1>1, NoRequest, ZenonT(120) DEF Views
  <2>2. /\ w.gen = g /\ w.conn = 0 /\ w.pending = None
        /\ w.nav = None /\ w.visible = FALSE /\ w.movie = None
    BY Zenon DEF Views
  <2>3. /\ w.image = v.image /\ w.replies = v.replies
        /\ w.surface = v.surface /\ w.last = v.last /\ w.page = v.page
    BY Zenon DEF Views
  <2> QED
    BY <2>1, <2>2, <2>3, Zenon
<1>3. CancelPage(v) = w
  BY DEF CancelPage
<1> QED
  BY <1>2, <1>3, Zenon

LEMMA HideVideoType ==
  ASSUME NEW v \in Views
  PROVE  LET w == HideVideo(v) IN
           /\ w \in Views
           /\ w.gen = v.gen /\ w.conn = v.conn /\ w.pending = v.pending
           /\ w.nav = v.nav /\ w.visible = v.visible /\ w.movie = v.movie
           /\ w.image = v.image /\ w.replies = v.replies
           /\ w.last = v.last /\ w.page = v.page /\ w.staged = v.staged
<1>1. CASE v.surface
  BY <1>1, ZenonT(120) DEF HideVideo, Views
<1>2. CASE ~v.surface
  BY <1>2 DEF HideVideo
<1> QED
  BY <1>1, <1>2

LEMMA StartPageLoadType ==
  ASSUME NEW v \in Views, NEW p \in Page, NEW g \in Nat
  PROVE  LET w == StartPageLoad(v, p, g) IN
           /\ w \in Views
           /\ w.gen = v.gen /\ w.conn = g /\ w.pending = p
           /\ w.nav = [page |-> p, headers |-> v.staged]
           /\ w.visible = v.visible /\ w.movie = v.movie
           /\ w.image = v.image /\ w.replies = v.replies
           /\ w.surface = v.surface /\ w.last = v.last /\ w.page = v.page
           /\ w.staged = v.staged
<1> DEFINE q == [page |-> p, headers |-> v.staged]
<1>1. q \in Request
  BY DEF Views, Request
<1> HIDE DEF q
<1>2. StartPageLoad(v, p, g) =
        [v EXCEPT !.conn = g, !.pending = p, !.watchdog = TRUE,
                  !.scope = q, !.nav = q]
  BY DEF StartPageLoad, q
<1> QED
  BY <1>1, <1>2, ZenonT(120) DEF Views, q

LEMMA LoadPageGood ==
  ASSUME NEW v \in Views, Good(v), NEW p \in Page
  PROVE  LET w == LoadPage(v, p) IN
           /\ Good(w)
           /\ w.nav = [page |-> p, headers |-> v.staged]
           /\ w.gen = v.gen + 1 /\ w.image = None
           /\ w.visible = v.visible /\ w.page = v.page
           /\ w.replies = v.replies
<1> DEFINE h == HideVideo(v)
           g == v.gen + 1
           u == [h EXCEPT !.gen = g, !.image = None, !.movie = None,
                          !.timer = FALSE, !.interval = FALSE, !.last = p]
           w == StartPageLoad(u, p, g)
<1>1. /\ h \in Views /\ h.gen = v.gen
      /\ h.visible = v.visible /\ h.replies = v.replies
      /\ h.page = v.page /\ h.staged = v.staged
  BY HideVideoType
<1>2. g \in Nat
  BY DEF Views
<1>3. LoadPage(v, p) = w
  <2>1. h.gen + 1 = g
    BY <1>1
  <2>2. LoadPage(v, p) =
          StartPageLoad(
            [h EXCEPT !.gen = h.gen + 1, !.image = None, !.movie = None,
                      !.timer = FALSE, !.interval = FALSE, !.last = p], p, g)
    BY DEF LoadPage
  <2> HIDE DEF h, g
  <2> QED
    BY <2>1, <2>2
<1>4. /\ u \in Views /\ u.gen = g /\ u.image = None /\ u.movie = None
      /\ u.last = p /\ u.visible = v.visible /\ u.replies = v.replies
      /\ u.page = v.page /\ u.staged = v.staged
  <2> HIDE DEF h, g
  <2>1. u \in Views
    <3>1. p \in Asset
      BY DEF Asset
    <3> QED
      BY <1>1, <1>2, <3>1, ZenonT(120) DEF Views
  <2>2. /\ u.gen = g /\ u.image = None /\ u.movie = None
        /\ u.last = p /\ u.visible = h.visible /\ u.replies = h.replies
        /\ u.page = h.page /\ u.staged = h.staged
    BY <1>1 DEF Views
  <2> QED
    BY <1>1, <2>1, <2>2, Zenon
<1>5. /\ w \in Views /\ w.gen = g /\ w.conn = g /\ w.pending = p
      /\ w.nav = [page |-> p, headers |-> v.staged]
      /\ w.visible = v.visible /\ w.movie = None /\ w.image = None
      /\ w.replies = v.replies /\ w.last = p /\ w.page = v.page
  <2> HIDE DEF u, g
  <2> QED
    BY <1>2, <1>4, StartPageLoadType
<1>6. w.nav # None /\ w.nav.page = p /\ p # None /\ p \notin Video
  <2>1. [page |-> p, headers |-> v.staged] \in
          [page : Page, headers : Header \cup {None}]
    BY DEF Views
  <2> HIDE DEF w
  <2> QED
    BY <1>5, <2>1, AssetAssumption
<1>7. Current(w) /\ Covered(w)
  <2> HIDE DEF w
  <2> QED
    BY <1>5, <1>6 DEF Good, Current, Covered, Views
<1> QED
  <2> HIDE DEF w
  <2> QED
    BY <1>3, <1>5, <1>7 DEF Good

LEMMA LoadImageGood ==
  ASSUME NEW v \in Views, Good(v), NEW i \in Image
  PROVE  LET w == LoadImage(v, i) IN
           /\ Good(w)
           /\ w.nav = None /\ w.gen = v.gen + 1 /\ w.image = v.image
           /\ w.visible = FALSE
           /\ w.replies = v.replies \cup {[gen |-> v.gen + 1, image |-> i]}
<1> DEFINE k == HideVideo(v)
           h == CancelPage(k)
           rs == v.replies \cup {[gen |-> v.gen + 1, image |-> i]}
           w == [h EXCEPT !.last = i, !.replies = rs]
<1>1. /\ h \in Views
      /\ h.gen = v.gen + 1 /\ h.conn = 0 /\ h.pending = None
      /\ h.nav = None /\ h.visible = FALSE /\ h.movie = None
      /\ h.image = v.image /\ h.replies = v.replies
  <2>1. /\ k \in Views /\ k.gen = v.gen /\ k.image = v.image
        /\ k.replies = v.replies
    BY HideVideoType
  <2> HIDE DEF k
  <2> QED
    BY <2>1, CancelPageType
<1>2. rs \in SUBSET [gen : Nat, image : Image]
  BY DEF Views
<1>3. LoadImage(v, i) = w
  BY <1>1 DEF LoadImage
<1>4. i \in Asset
  BY DEF Asset
<1>5. /\ w \in Views
      /\ w.gen = h.gen /\ w.conn = h.conn /\ w.pending = h.pending
      /\ w.nav = h.nav /\ w.visible = h.visible /\ w.movie = h.movie
      /\ w.image = h.image /\ w.replies = rs /\ w.last = i
  <2> HIDE DEF h, rs
  <2>1. w \in Views
    BY <1>1, <1>2, <1>4, ZenonT(120) DEF Views
  <2> QED
    BY <1>1, <2>1 DEF Views
<1>6. \A r \in rs : r.gen <= v.gen + 1 /\ (r.gen = v.gen + 1 => r.image = i)
  BY DEF Good, Current, Views
<1>7. Current(w) /\ Covered(w)
  <2> HIDE DEF w, h, rs
  <2> QED
    BY <1>1, <1>5, <1>6, AssetAssumption DEF Current, Covered
<1> QED
  <2> HIDE DEF w, h
  <2> QED
    BY <1>1, <1>3, <1>5, <1>7 DEF Good

LEMMA LoadNullGood ==
  ASSUME NEW v \in Views, Good(v)
  PROVE  LET w == LoadNull(v) IN
           /\ Good(w)
           /\ w.nav = None /\ w.gen = v.gen + 1 /\ w.image = None
           /\ w.visible = FALSE /\ w.replies = v.replies
<1> DEFINE h == CancelPage(v)
           l == IF v.surface THEN v.last ELSE None
           w == [h EXCEPT !.image = None, !.last = l]
<1>1. /\ h \in Views
      /\ h.gen = v.gen + 1 /\ h.conn = 0 /\ h.pending = None
      /\ h.nav = None /\ h.visible = FALSE /\ h.movie = None
      /\ h.replies = v.replies /\ h.surface = v.surface
  BY CancelPageType
<1>2. l \in Asset \cup {None}
  BY DEF Views
<1>3. LoadNull(v) = w
  BY DEF LoadNull
<1>4. /\ w \in Views
      /\ w.gen = h.gen /\ w.conn = h.conn /\ w.pending = h.pending
      /\ w.nav = h.nav /\ w.visible = h.visible /\ w.movie = h.movie
      /\ w.image = None /\ w.replies = h.replies /\ w.last = l
      /\ w.surface = h.surface
  <2> HIDE DEF h, l
  <2>1. w \in Views
    BY <1>1, <1>2, ZenonT(120) DEF Views
  <2> QED
    BY <1>1, <2>1 DEF Views
<1>5. l \in Video => v.surface
  BY AssetAssumption
<1>6. \A r \in v.replies : r.gen <= v.gen /\ r.gen \in Nat /\ v.gen \in Nat
  BY DEF Good, Current, Views
<1>7. Current(w) /\ Covered(w)
  <2> HIDE DEF w, h, l
  <2> QED
    BY <1>1, <1>4, <1>5, <1>6 DEF Current, Covered
<1> QED
  <2> HIDE DEF w, h
  <2> QED
    BY <1>1, <1>3, <1>4, <1>7 DEF Good

LEMMA PlayVideoGood ==
  ASSUME NEW v \in Views, Good(v), NEW a \in Video
  PROVE  LET w == PlayVideo(v, a) IN
           /\ Good(w)
           /\ w.nav = None /\ w.gen = v.gen + 1 /\ w.image = None
           /\ w.visible = FALSE /\ w.replies = v.replies
<1> DEFINE h == CancelPage(v)
           w == [h EXCEPT !.image = None, !.surface = TRUE, !.video = a,
                          !.last = a]
<1>1. /\ h \in Views
      /\ h.gen = v.gen + 1 /\ h.conn = 0 /\ h.pending = None
      /\ h.nav = None /\ h.visible = FALSE /\ h.movie = None
      /\ h.replies = v.replies
  BY CancelPageType
<1>2. a \in Asset
  BY DEF Asset
<1>3. PlayVideo(v, a) = w
  BY DEF PlayVideo
<1>4. /\ w \in Views
      /\ w.gen = h.gen /\ w.conn = h.conn /\ w.pending = h.pending
      /\ w.nav = h.nav /\ w.visible = h.visible /\ w.movie = h.movie
      /\ w.image = None /\ w.replies = h.replies /\ w.surface = TRUE
  <2> HIDE DEF h
  <2> QED
    BY <1>1, <1>2, ZenonT(120) DEF Views
<1>5. \A r \in v.replies : r.gen <= v.gen /\ r.gen \in Nat /\ v.gen \in Nat
  BY DEF Good, Current, Views
<1>6. Current(w) /\ Covered(w)
  <2> HIDE DEF w, h
  <2> QED
    BY <1>1, <1>4, <1>5 DEF Current, Covered
<1> QED
  <2> HIDE DEF w, h
  <2> QED
    BY <1>1, <1>3, <1>4, <1>6 DEF Good

LEMMA RevealType ==
  ASSUME NEW v \in Views, NEW t \in BOOLEAN
  PROVE  [v EXCEPT !.watchdog = FALSE, !.pending = None, !.visible = TRUE,
                   !.timer = t] \in Views
BY ZenonT(120) DEF Views

LEMMA FinishedGood ==
  ASSUME NEW v \in Views, Good(v), v.nav # None, NEW ok \in BOOLEAN
  PROVE  LET w == Finished(v, ok) IN
           /\ Good(w)
           /\ w.gen = v.gen /\ w.image = v.image /\ w.nav = None
           /\ w.replies = v.replies /\ w.staged = v.staged
           /\ w.visible /\ (~v.visible \/ w.page # v.page) => w.page = w.last
<1> DEFINE p == v.nav.page
           d == [v EXCEPT !.nav = None, !.page = p, !.ok = ok, !.conn = 0]
           t == v.interval
           w == [d EXCEPT !.watchdog = FALSE, !.pending = None,
                          !.visible = TRUE, !.timer = t]
<1>1. p \in Page \cup {None}
  BY DEF Views, Request
<1>2. /\ d \in Views
      /\ d.nav = None /\ d.page = p /\ d.conn = 0 /\ d.gen = v.gen
      /\ d.pending = v.pending /\ d.visible = v.visible
      /\ d.image = v.image /\ d.movie = v.movie /\ d.replies = v.replies
      /\ d.surface = v.surface /\ d.last = v.last /\ d.staged = v.staged
  <2> HIDE DEF p
  <2>1. d \in Views
    BY <1>1, NoRequest, ZenonT(120) DEF Views
  <2> QED
    BY <1>1, <2>1 DEF Views
<1>3. /\ w \in Views
      /\ w.nav = None /\ w.page = p /\ w.conn = 0 /\ w.gen = v.gen
      /\ w.pending = None /\ w.visible = TRUE
      /\ w.image = v.image /\ w.movie = v.movie /\ w.replies = v.replies
      /\ w.surface = v.surface /\ w.last = v.last /\ w.staged = v.staged
  <2>1. t \in BOOLEAN
    BY DEF Views
  <2> HIDE DEF d, t, p
  <2>2. w \in Views
    BY <1>2, <2>1, RevealType
  <2> QED
    BY <1>2, <2>2 DEF Views
<1>4. CASE v.conn # 0 /\ v.conn = v.gen /\ ok
  <2>1. Finished(v, ok) = w
    BY <1>4 DEF Finished
  <2>2. p = v.last /\ v.last \in Page
    BY <1>4 DEF Good, Current, Views
  <2>3. Current(w) /\ Covered(w)
    <3> HIDE DEF w, d, p, t
    <3> QED
      BY <1>3, <2>2, AssetAssumption DEF Good, Current, Covered
  <2> QED
    <3> HIDE DEF w, d, p
    <3> QED
      BY <1>3, <2>1, <2>2, <2>3 DEF Good
<1>5. CASE ~(v.conn # 0 /\ v.conn = v.gen /\ ok)
  <2>1. Finished(v, ok) = d
    BY <1>5 DEF Finished
  <2>2. p = v.page \/ p = v.last
    BY DEF Good, Current
  <2>3. Current(d) /\ Covered(d)
    <3> HIDE DEF d, p
    <3> QED
      BY <1>2 DEF Good, Current, Covered
  <2> QED
    <3> HIDE DEF d, p
    <3> QED
      BY <1>2, <2>1, <2>2, <2>3 DEF Good
<1> QED
  BY <1>4, <1>5

LEMMA ShowImageGood ==
  ASSUME NEW v \in Views, Good(v), NEW r \in v.replies
  PROVE  LET w == ShowImage([v EXCEPT !.replies = @ \ {r}], r) IN
           /\ Good(w) /\ w.gen = v.gen /\ w.nav = v.nav /\ w.page = v.page
           /\ w.replies \subseteq v.replies /\ w.staged = v.staged
           /\ w.visible => v.visible
           /\ w.image # v.image => w.image = w.last
<1> DEFINE rs == v.replies \ {r}
           d == [v EXCEPT !.replies = rs]
           m == IF r.image \in Animated THEN r.image ELSE None
           w == [d EXCEPT !.visible = FALSE, !.image = r.image, !.movie = m]
           Shown(u) == /\ Good(u) /\ u.gen = v.gen /\ u.nav = v.nav
                       /\ u.page = v.page
                       /\ u.replies \subseteq v.replies
                       /\ u.staged = v.staged
                       /\ u.visible => v.visible
                       /\ u.image # v.image => u.image = u.last
<1>1. rs \in SUBSET [gen : Nat, image : Image] /\ rs \subseteq v.replies
  BY DEF Views
<1>2. /\ d \in Views /\ d.replies = rs
      /\ d.nav = v.nav /\ d.page = v.page /\ d.conn = v.conn
      /\ d.gen = v.gen /\ d.pending = v.pending /\ d.visible = v.visible
      /\ d.image = v.image /\ d.movie = v.movie /\ d.surface = v.surface
      /\ d.last = v.last /\ d.staged = v.staged
  <2> HIDE DEF rs
  <2>1. d \in Views
    BY <1>1 DEF Views
  <2> QED
    BY <1>1, <2>1 DEF Views
<1>3. Current(d) /\ Covered(d)
  <2> HIDE DEF d, rs
  <2> QED
    BY <1>1, <1>2 DEF Good, Current, Covered
<1>4. ASSUME r.gen # d.gen PROVE Shown(ShowImage(d, r))
  <2>1. ShowImage(d, r) = d
    BY <1>4 DEF ShowImage
  <2> QED
    <3> HIDE DEF d
    <3> QED
      BY <1>1, <1>2, <1>3, <2>1 DEF Good
<1>5. ASSUME r.gen = d.gen PROVE Shown(ShowImage(d, r))
  <2>1. ShowImage(d, r) = w
    BY <1>5 DEF ShowImage
  <2>2. r.image \in Image /\ m \in Animated \cup {None} /\ m \in {None, r.image}
    BY DEF Views
  <2>3. r.image = v.last
    <3> HIDE DEF d
    <3> QED
      BY <1>2, <1>5 DEF Good, Current
  <2>4. /\ w \in Views /\ w.replies = rs
        /\ w.nav = v.nav /\ w.page = v.page /\ w.conn = v.conn
        /\ w.gen = v.gen /\ w.pending = v.pending /\ w.visible = FALSE
        /\ w.image = r.image /\ w.movie = m /\ w.surface = v.surface
        /\ w.last = v.last /\ w.staged = v.staged
    <3> HIDE DEF d, m, rs
    <3>1. w \in Views
      BY <1>2, <2>2, ZenonT(120) DEF Views
    <3> QED
      BY <1>2, <3>1 DEF Views
  <2>5. Current(w) /\ Covered(w)
    <3> HIDE DEF w, d, m, rs
    <3> QED
      BY <1>1, <2>2, <2>3, <2>4, AssetAssumption DEF Good, Current, Covered
  <2> QED
    <3> HIDE DEF w, d, rs
    <3> QED
      BY <1>1, <2>1, <2>3, <2>4, <2>5 DEF Good
<1> QED
  BY <1>4, <1>5

LEMMA RetryGood ==
  ASSUME NEW v \in Views, Good(v), v.pending # None
  PROVE  LET w == StartPageLoad(v, v.pending, v.gen) IN
           /\ Good(w) /\ w.gen = v.gen /\ w.page = v.page
           /\ w.visible = v.visible /\ w.image = v.image
           /\ w.replies = v.replies /\ w.staged = v.staged
<1> DEFINE p == v.pending
           q == [page |-> p, headers |-> v.staged]
           w == StartPageLoad(v, p, v.gen)
<1>1. p \in Page /\ v.gen \in Nat /\ p = v.last
  BY DEF Good, Current, Views
<1>2. /\ w \in Views
      /\ w.gen = v.gen /\ w.conn = v.gen /\ w.pending = p
      /\ w.nav = q
      /\ w.visible = v.visible /\ w.movie = v.movie
      /\ w.image = v.image /\ w.replies = v.replies
      /\ w.surface = v.surface /\ w.last = v.last /\ w.page = v.page
      /\ w.staged = v.staged
  <2> HIDE DEF p
  <2> QED
    BY <1>1, StartPageLoadType
<1>3. q.page = p /\ q # None
  <2>1. q \in [page : Page, headers : Header \cup {None}]
    BY <1>1 DEF Views
  <2> QED
    BY <2>1, AssetAssumption
<1>4. Current(w) /\ Covered(w)
  <2> HIDE DEF w, p, q
  <2> QED
    BY <1>1, <1>2, <1>3, AssetAssumption DEF Good, Current, Covered
<1> QED
  BY <1>2, <1>4, Zenon DEF Good

-----------------------------------------------------------------------------
(* Every step keeps the invariant *)

\* What a step does to what is on the screen, and what it requests.
Painted ==
  /\ view'.image \notin {view.image, None} => view'.image = view'.last
  /\ view'.visible /\ (~view.visible \/ view'.page # view.page)
       => view'.page = view'.last

Requested ==
  view'.gen = view.gen + 1 /\ view'.nav # None /\ ~retry
    => view'.nav = [page |-> want.url, headers |-> want.headers]

\* What holds of the View after an action of the process or a call.
Kept == Good(view') /\ Painted /\ Requested

LEMMA InitInv == Init => Inv
<1> SUFFICES ASSUME Init PROVE Inv
  OBVIOUS
<1>1. Good(view)
  BY FreshGood DEF Init
<1>2. Types
  <2>1. want \in [url : Asset \cup {None}, headers : Header \cup {None},
                  refresh : BOOLEAN]
    BY DEF Init
  <2>2. cache \in [url : Asset \cup {None, Null},
                   headers : Header \cup {None}]
    BY DEF Init, Uncached
  <2>3. want.url \in WantOf(pc)
    BY DEF Init, WantOf
  <2>4. up \in BOOLEAN /\ retry \in BOOLEAN /\ pc = "idle"
    BY DEF Init
  <2>6. crashes \in 0..MaxCrashes
    BY BoundAssumption DEF Init
  <2>5. view \in Views
    BY <1>1 DEF Good
  <2> QED
    BY <2>1, <2>2, <2>3, <2>4, <2>5, <2>6 DEF Types
<1>3. Staged /\ Bounded
  BY BoundAssumption DEF Init, Staged, Bounded, Fresh
<1> QED
  BY <1>1, <1>2, <1>3 DEF Inv, Good

\* Replies keep a positive generation, and generations only grow by one.
LEMMA SameGood ==
  ASSUME Good(view), view' = view
  PROVE  Kept
BY DEF Kept, Painted, Requested, Good, Views

\* An event of the process leaves the viewer where it is.
LEMMA QuietInv ==
  ASSUME Inv, UNCHANGED <<up, pc, want, cache, retry, crashes>>, Good(view'),
         view'.gen = view.gen, view'.replies \subseteq view.replies,
         view'.staged = view.staged
  PROVE  Inv'
<1>1. Types'
  BY DEF Inv, Types, Good, WantOf
<1>2. Staged' /\ Bounded'
  BY DEF Inv, Staged, Bounded
<1> QED
  BY <1>1, <1>2 DEF Inv, Good

LEMMA EndsStep ==
  ASSUME Inv, NEW ok \in BOOLEAN, NavigationEnds(ok)
  PROVE  Inv' /\ Kept
<1>1. /\ view \in Views /\ Good(view) /\ view.nav # None
      /\ view' = Finished(view, ok) /\ view.gen \in Nat
      /\ UNCHANGED <<up, pc, want, cache, retry, crashes>>
  BY DEF Inv, Types, Good, NavigationEnds, Views
<1>2. /\ Good(view') /\ view'.gen = view.gen
      /\ view'.replies = view.replies /\ view'.staged = view.staged
      /\ view'.image = view.image
      /\ view'.visible /\ (~view.visible \/ view'.page # view.page)
           => view'.page = view'.last
  BY <1>1, FinishedGood
<1>3. Kept
  BY <1>1, <1>2 DEF Kept, Painted, Requested
<1> QED
  BY <1>1, <1>2, <1>3, QuietInv

LEMMA ArrivesStep ==
  ASSUME Inv, NEW r \in view.replies, ReplyArrives(r)
  PROVE  Inv' /\ Kept
<1>1. /\ view \in Views /\ Good(view) /\ view.gen \in Nat
      /\ view' = ShowImage([view EXCEPT !.replies = @ \ {r}], r)
      /\ UNCHANGED <<up, pc, want, cache, retry, crashes>>
  BY DEF Inv, Types, Good, ReplyArrives, Views
<1>2. /\ Good(view') /\ view'.gen = view.gen /\ view'.page = view.page
      /\ view'.replies \subseteq view.replies
      /\ view'.staged = view.staged
      /\ view'.visible => view.visible
      /\ view'.image # view.image => view'.image = view'.last
  BY <1>1, ShowImageGood
<1>3. Kept
  BY <1>1, <1>2 DEF Kept, Painted, Requested
<1> QED
  BY <1>1, <1>2, <1>3, QuietInv

LEMMA FailsStep ==
  ASSUME Inv, NEW r \in view.replies, ReplyFails(r)
  PROVE  Inv' /\ Kept
<1> DEFINE rs == view.replies \ {r}
<1>1. /\ view \in Views /\ Good(view) /\ view.gen \in Nat
      /\ view' = [view EXCEPT !.replies = rs]
      /\ UNCHANGED <<up, pc, want, cache, retry, crashes>>
  BY DEF Inv, Types, Good, ReplyFails, Views
<1>2. rs \in SUBSET [gen : Nat, image : Image] /\ rs \subseteq view.replies
  BY <1>1 DEF Views
<1>3. /\ view' \in Views /\ view'.gen = view.gen /\ view'.page = view.page
      /\ view'.replies = rs /\ view'.staged = view.staged
      /\ view'.visible = view.visible /\ view'.image = view.image
      /\ view'.conn = view.conn /\ view'.pending = view.pending
      /\ view'.nav = view.nav /\ view'.movie = view.movie
      /\ view'.surface = view.surface /\ view'.last = view.last
  <2> HIDE DEF rs
  <2>1. view' \in Views
    BY <1>1, <1>2 DEF Views
  <2> QED
    BY <1>1, <2>1 DEF Views
<1>4. Good(view')
  <2> HIDE DEF rs
  <2> QED
    BY <1>1, <1>2, <1>3 DEF Good, Current, Covered
<1>5. Kept
  BY <1>1, <1>3, <1>4 DEF Kept, Painted, Requested
<1> QED
  BY <1>1, <1>2, <1>3, <1>4, <1>5, QuietInv

LEMMA WatchdogStep ==
  ASSUME Inv, Watchdog
  PROVE  Inv' /\ Kept
<1>1. /\ view \in Views /\ Good(view) /\ view.gen \in Nat
      /\ UNCHANGED <<up, pc, want, cache, retry, crashes>>
  BY DEF Inv, Types, Good, Watchdog, Views
<1>2. CASE view.pending = None
  <2>1. view' = [view EXCEPT !.watchdog = FALSE]
    BY <1>2 DEF Watchdog
  <2>2. /\ view' \in Views
        /\ view'.gen = view.gen /\ view'.page = view.page
        /\ view'.replies = view.replies /\ view'.staged = view.staged
        /\ view'.visible = view.visible /\ view'.image = view.image
        /\ view'.conn = view.conn /\ view'.pending = view.pending
        /\ view'.nav = view.nav /\ view'.movie = view.movie
        /\ view'.surface = view.surface /\ view'.last = view.last
    BY <1>1, <2>1 DEF Views
  <2>3. Good(view')
    BY <1>1, <2>2 DEF Good, Current, Covered
  <2>4. Kept
    BY <1>1, <2>2, <2>3 DEF Kept, Painted, Requested
  <2> QED
    BY <1>1, <2>2, <2>3, <2>4, QuietInv
<1>3. CASE view.pending # None
  <2>1. /\ Good(view') /\ view'.gen = view.gen /\ view'.page = view.page
        /\ view'.replies = view.replies /\ view'.staged = view.staged
        /\ view'.visible = view.visible /\ view'.image = view.image
    BY <1>1, <1>3, RetryGood DEF Watchdog
  <2>2. Kept
    BY <1>1, <2>1 DEF Kept, Painted, Requested
  <2> QED
    BY <1>1, <2>1, <2>2, QuietInv
<1> QED
  BY <1>2, <1>3

LEMMA ReloadStep ==
  ASSUME Inv, Reload
  PROVE  Inv' /\ Kept
<1> DEFINE h == IF view.scope # None /\ view.scope.page = view.page
                THEN view.scope.headers ELSE None
           q == [page |-> view.page, headers |-> h]
<1>1. /\ view \in Views /\ Good(view) /\ view.gen \in Nat
      /\ view.page \in Page
      /\ UNCHANGED <<up, pc, want, cache, retry, crashes>>
  BY DEF Inv, Types, Good, Reload, Views
<1>2. h \in Header \cup {None}
  BY <1>1 DEF Views, Request
<1>3. q \in Request /\ q.page = view.page
  <2> HIDE DEF h
  <2> QED
    BY <1>1, <1>2 DEF Request
<1>4. view' = [[view EXCEPT !.conn = 0] EXCEPT !.nav = q]
  BY DEF Reload
<1>5. /\ view' \in Views /\ view'.nav = q /\ view'.conn = 0
      /\ view'.gen = view.gen /\ view'.page = view.page
      /\ view'.replies = view.replies /\ view'.staged = view.staged
      /\ view'.visible = view.visible /\ view'.image = view.image
      /\ view'.pending = view.pending /\ view'.movie = view.movie
      /\ view'.surface = view.surface /\ view'.last = view.last
  <2> HIDE DEF q
  <2>1. view' \in Views
    BY <1>1, <1>3, <1>4 DEF Views
  <2> QED
    BY <1>1, <1>4, <2>1 DEF Views
<1>6. Good(view')
  <2> HIDE DEF q
  <2> QED
    BY <1>1, <1>3, <1>5 DEF Good, Current, Covered
<1>7. Kept
  BY <1>1, <1>5, <1>6 DEF Kept, Painted, Requested
<1> QED
  BY <1>1, <1>5, <1>6, <1>7, QuietInv

LEMMA FrameStep ==
  ASSUME Inv, Frame
  PROVE  Inv' /\ Kept
<1>1. /\ view \in Views /\ Good(view) /\ view.gen \in Nat
      /\ view' = [view EXCEPT !.image = view.movie] /\ view.movie # None
      /\ UNCHANGED <<up, pc, want, cache, retry, crashes>>
  BY DEF Inv, Types, Good, Frame, Views
<1>2. view.movie \in Image /\ view.movie = view.last /\ view.last \notin Video
  BY <1>1, AssetAssumption DEF Good, Current, Views
<1>3. /\ view' \in Views
      /\ view'.gen = view.gen /\ view'.page = view.page
      /\ view'.replies = view.replies /\ view'.staged = view.staged
      /\ view'.visible = view.visible /\ view'.image = view.movie
      /\ view'.conn = view.conn /\ view'.pending = view.pending
      /\ view'.nav = view.nav /\ view'.movie = view.movie
      /\ view'.surface = view.surface /\ view'.last = view.last
  BY <1>1, <1>2 DEF Views
<1>4. Good(view')
  BY <1>1, <1>2, <1>3 DEF Good, Current, Covered
<1>5. Kept
  BY <1>1, <1>2, <1>3, <1>4 DEF Kept, Painted, Requested
<1> QED
  BY <1>1, <1>3, <1>4, <1>5, QuietInv

\* A fresh process has nothing on the screen and nothing under way.
LEMMA FreshKept ==
  ASSUME Inv, view' = Fresh
  PROVE  Kept /\ view'.gen = 0 /\ view'.replies = {} /\ Good(view')
<1>1. Good(view')
  BY FreshGood
<1>2. /\ view'.gen = 0 /\ view'.replies = {} /\ view'.image = None
      /\ view'.visible = FALSE
  BY DEF Fresh
<1>3. view.gen \in Nat
  BY DEF Inv, Types, Views
<1> QED
  BY <1>1, <1>2, <1>3 DEF Kept, Painted, Requested

LEMMA CrashStep ==
  ASSUME Inv, Crash
  PROVE  Inv' /\ Kept
<1>1. Kept /\ view'.gen = 0 /\ view'.replies = {} /\ Good(view')
  BY FreshKept DEF Crash
<1>2. up' = FALSE /\ UNCHANGED <<pc, want, cache, retry>>
  BY DEF Crash
<1>3. crashes' \in 0..MaxCrashes
  BY BoundAssumption DEF Crash, Inv, Types
<1>4. Types'
  BY <1>1, <1>2, <1>3 DEF Inv, Types, Good, WantOf
<1>5. Staged' /\ Bounded'
  BY <1>1, <1>2, BoundAssumption DEF Inv, Staged, Bounded
<1> QED
  BY <1>1, <1>4, <1>5 DEF Inv, Good

-----------------------------------------------------------------------------
(* The calls of the viewer *)

LEMMA UncachedType ==
  Uncached \in [url : Asset \cup {None, Null}, headers : Header \cup {None}]
BY DEF Uncached

\* A process that is found dead is replaced, and the call made again.
LEMMA RetriedStep ==
  ASSUME Inv, Retried, pc # "idle"
  PROVE  Inv' /\ Kept
<1>1. Kept /\ view'.gen = 0 /\ view'.replies = {} /\ Good(view')
  BY FreshKept DEF Retried, Respawn
<1>2. up' = TRUE /\ retry' = TRUE /\ cache' = Uncached
  BY DEF Retried, Respawn
<1>3. UNCHANGED <<pc, want, crashes>>
  BY DEF Retried
<1>4. Types'
  BY <1>1, <1>2, <1>3, UncachedType DEF Inv, Types, Good, WantOf
<1>5. Staged' /\ Bounded'
  BY <1>1, <1>2, <1>3, BoundAssumption DEF Inv, Staged, Bounded
<1> QED
  BY <1>1, <1>4, <1>5 DEF Inv, Good

LEMMA RaisedStep ==
  ASSUME Inv, Raised
  PROVE  Inv' /\ Kept
<1>1. Kept /\ view'.gen = 0 /\ view'.replies = {} /\ Good(view')
  BY FreshKept DEF Raised, Respawn
<1>2. up' = TRUE /\ retry' = FALSE /\ cache' = Uncached /\ pc' = "idle"
  BY DEF Raised, Respawn
<1>3. UNCHANGED <<want, crashes>>
  BY DEF Raised
<1>4. want'.url \in WantOf(pc')
  BY <1>2, <1>3 DEF Inv, Types, WantOf
<1>5. Types'
  BY <1>1, <1>2, <1>3, <1>4, UncachedType DEF Inv, Types, Good
<1>6. Staged' /\ Bounded'
  BY <1>1, <1>2, <1>3, BoundAssumption DEF Inv, Staged, Bounded
<1> QED
  BY <1>1, <1>5, <1>6 DEF Inv, Good

\* The viewer begins with an asset.
LEMMA BeginStep ==
  ASSUME Inv,
         NEW l \in {"headers", "image", "play"}, NEW w, Begin(l, w),
         w \in [url : Asset \cup {None}, headers : Header \cup {None},
                refresh : BOOLEAN],
         w.url \in WantOf(l),
         UNCHANGED <<up, view, cache>> \/ Respawn
  PROVE  Inv' /\ Kept
<1>1. pc' = l /\ want' = w /\ retry' = FALSE /\ crashes' = crashes
      /\ view.gen < MaxLoads
  BY DEF Begin
<1>2. CASE UNCHANGED <<up, view, cache>>
  <2>1. Kept /\ Good(view')
    BY <1>2, SameGood DEF Inv, Types, Good
  <2>2. Types'
    BY <1>1, <1>2 DEF Inv, Types
  <2>3. Staged' /\ Bounded'
    BY <1>1, <1>2, BoundAssumption DEF Inv, Types, Views, Staged, Bounded
  <2> QED
    BY <2>1, <2>2, <2>3 DEF Inv, Good
<1>3. CASE Respawn
  <2>1. Kept /\ view'.gen = 0 /\ view'.replies = {} /\ Good(view')
    BY <1>3, FreshKept DEF Respawn
  <2>2. up' = TRUE /\ cache' = Uncached
    BY <1>3 DEF Respawn
  <2>3. Types'
    BY <1>1, <2>1, <2>2, UncachedType DEF Inv, Types, Good
  <2>4. 0 < MaxLoads
    BY <1>1, BoundAssumption DEF Inv, Types, Views
  <2>5. Staged' /\ Bounded'
    BY <1>1, <2>1, <2>4, BoundAssumption DEF Inv, Staged, Bounded
  <2> QED
    BY <2>1, <2>3, <2>5 DEF Inv, Good
<1> QED
  BY <1>2, <1>3

LEMMA BeginsStep ==
  ASSUME Inv
  PROVE  /\ \A p \in Page, h \in Header \cup {None}, r \in BOOLEAN :
               ViewWebpage(p, h, r) => Inv' /\ Kept
         /\ \A i \in Image : ViewImage(i) => Inv' /\ Kept
         /\ \A a \in Video : ViewVideo(a) => Inv' /\ Kept
<1>1. CheckAlive => UNCHANGED <<up, view, cache>> \/ Respawn
  BY DEF CheckAlive
<1>2. ASSUME NEW p \in Page, NEW h \in Header \cup {None}, NEW r \in BOOLEAN,
             ViewWebpage(p, h, r)
      PROVE  Inv' /\ Kept
  <2> DEFINE w == [url |-> p, headers |-> h, refresh |-> r]
  <2>1. /\ w \in [url : Asset \cup {None}, headers : Header \cup {None},
                  refresh : BOOLEAN]
        /\ w.url \in WantOf("headers")
    BY DEF Asset, WantOf
  <2>2. Begin("headers", w) /\ (UNCHANGED <<up, view, cache>> \/ Respawn)
    BY <1>1, <1>2 DEF ViewWebpage
  <2> HIDE DEF w
  <2> QED
    BY <2>1, <2>2, BeginStep
<1>3. ASSUME NEW i \in Image, ViewImage(i) PROVE Inv' /\ Kept
  <2> DEFINE w == [url |-> i, headers |-> None, refresh |-> FALSE]
  <2>1. /\ w \in [url : Asset \cup {None}, headers : Header \cup {None},
                  refresh : BOOLEAN]
        /\ w.url \in WantOf("image")
    BY DEF Asset, WantOf
  <2>2. Begin("image", w) /\ (UNCHANGED <<up, view, cache>> \/ Respawn)
    BY <1>1, <1>3 DEF ViewImage
  <2> HIDE DEF w
  <2> QED
    BY <2>1, <2>2, BeginStep
<1>4. ASSUME NEW a \in Video, ViewVideo(a) PROVE Inv' /\ Kept
  <2> DEFINE w == [url |-> a, headers |-> None, refresh |-> FALSE]
  <2>1. /\ w \in [url : Asset \cup {None}, headers : Header \cup {None},
                  refresh : BOOLEAN]
        /\ w.url \in WantOf("play")
    BY DEF Asset, WantOf
  <2>2. Begin("play", w) /\ UNCHANGED <<up, view, cache>>
    BY <1>4 DEF ViewVideo
  <2> HIDE DEF w
  <2> QED
    BY <2>1, <2>2, BeginStep
<1> QED
  BY <1>2, <1>3, <1>4

LEMMA HeadersStep ==
  ASSUME Inv, SendHeaders
  PROVE  Inv' /\ Kept
<1>1. /\ view \in Views /\ Good(view) /\ view.gen \in Nat /\ pc = "headers"
      /\ want.headers \in Header \cup {None}
      /\ view.gen < MaxLoads
      /\ UNCHANGED <<up, want, cache, retry, crashes>>
  BY DEF Inv, Types, Good, SendHeaders, Views, Bounded
<1>2. CASE view' = SetRequestHeaders(view, want.headers) /\ pc' = AfterHeaders(TRUE)
  <2>1. view' = [view EXCEPT !.staged = want.headers]
    BY <1>2 DEF SetRequestHeaders
  <2>2. /\ view' \in Views
        /\ view'.gen = view.gen /\ view'.page = view.page
        /\ view'.replies = view.replies /\ view'.staged = want.headers
        /\ view'.visible = view.visible /\ view'.image = view.image
        /\ view'.conn = view.conn /\ view'.pending = view.pending
        /\ view'.nav = view.nav /\ view'.movie = view.movie
        /\ view'.surface = view.surface /\ view'.last = view.last
    BY <1>1, <2>1 DEF Views
  <2>3. Good(view')
    BY <1>1, <2>2 DEF Good, Current, Covered
  <2>4. Kept
    BY <1>1, <2>2, <2>3 DEF Kept, Painted, Requested
  <2>5. pc' \in {"page", "interval"}
    BY <1>2 DEF AfterHeaders
  <2>6. Types'
    BY <1>1, <2>2, <2>5 DEF Inv, Types, WantOf
  <2>7. Staged' /\ Bounded'
    BY <1>1, <2>2, <2>5 DEF Inv, Staged, Bounded
  <2> QED
    BY <2>3, <2>4, <2>6, <2>7 DEF Inv, Good
<1>3. CASE view' = view /\ pc' = AfterHeaders(FALSE)
  <2>1. Good(view') /\ Kept
    BY <1>1, <1>3, SameGood
  <2>2. pc' = "interval"
    BY <1>3 DEF AfterHeaders
  <2>3. Types'
    BY <1>1, <1>3, <2>2 DEF Inv, Types, WantOf
  <2>4. Staged' /\ Bounded'
    BY <1>1, <1>3, <2>2 DEF Inv, Staged, Bounded
  <2> QED
    BY <2>1, <2>3, <2>4 DEF Inv, Good
<1> QED
  BY <1>2, <1>3 DEF SendHeaders

LEMMA PageStep ==
  ASSUME Inv, SendPage
  PROVE  Inv' /\ Kept
<1>1. /\ view \in Views /\ Good(view) /\ view.gen \in Nat /\ pc = "page"
      /\ want.headers \in Header \cup {None} /\ want.url \in Page
      /\ view.gen < MaxLoads
  BY DEF Inv, Types, Good, SendPage, Views, Bounded, WantOf
<1>2. CASE Retried
  BY <1>1, <1>2, RetriedStep
<1>3. CASE Raised
  BY <1>3, RaisedStep
<1>4. CASE Answered(LoadPage(view, want.url), "interval")
           /\ cache' = [url |-> want.url, headers |-> want.headers]
           /\ UNCHANGED <<up, want, crashes>>
  <2>1. /\ Good(view')
        /\ view'.nav = [page |-> want.url, headers |-> view.staged]
        /\ view'.gen = view.gen + 1 /\ view'.image = None
        /\ view'.visible = view.visible /\ view'.page = view.page
        /\ view'.replies = view.replies
    BY <1>1, <1>4, LoadPageGood DEF Answered
  <2>2. ~retry => view.staged = want.headers
    BY <1>1, <1>4 DEF Inv, Staged, Answered
  <2>3. Kept
    BY <1>1, <2>1, <2>2 DEF Kept, Painted, Requested
  <2>4. pc' = "interval" /\ retry' = FALSE /\ up' = up
    BY <1>4 DEF Answered
  <2>5. cache' \in [url : Asset \cup {None, Null}, headers : Header \cup {None}]
    BY <1>1, <1>4 DEF Asset
  <2>6. Types'
    BY <1>1, <1>4, <2>1, <2>4, <2>5 DEF Inv, Types, Good, WantOf
  <2>7. Staged' /\ Bounded'
    BY <1>1, <2>1, <2>4, BoundAssumption DEF Inv, Staged, Bounded
  <2> QED
    BY <2>1, <2>3, <2>6, <2>7 DEF Inv, Good
<1> QED
  BY <1>2, <1>3, <1>4 DEF SendPage

LEMMA IntervalStep ==
  ASSUME Inv, SendInterval
  PROVE  Inv' /\ Kept
<1>1. /\ view \in Views /\ Good(view) /\ view.gen \in Nat
      /\ pc = "interval" /\ pc' = "idle" /\ want.refresh \in BOOLEAN
      /\ UNCHANGED <<up, want, cache, retry, crashes>>
  BY DEF Inv, Types, Good, SendInterval, Views
<1>2. /\ Good(view') /\ Kept /\ view'.gen = view.gen
      /\ view'.replies = view.replies
  <2>1. CASE ~up
    BY <1>1, <2>1, SameGood DEF SendInterval
  <2>2. CASE up
    <3> DEFINE t == want.refresh /\ view.conn = 0
    <3>1. t \in BOOLEAN
      OBVIOUS
    <3>2. view' = [view EXCEPT !.interval = want.refresh, !.timer = t]
      BY <2>2 DEF SendInterval, SetReloadInterval
    <3>3. /\ view' \in Views
          /\ view'.gen = view.gen /\ view'.page = view.page
          /\ view'.replies = view.replies
          /\ view'.visible = view.visible /\ view'.image = view.image
          /\ view'.conn = view.conn /\ view'.pending = view.pending
          /\ view'.nav = view.nav /\ view'.movie = view.movie
          /\ view'.surface = view.surface /\ view'.last = view.last
      <4> HIDE DEF t
      <4> QED
        BY <1>1, <3>1, <3>2 DEF Views
    <3>4. Good(view')
      BY <1>1, <3>3 DEF Good, Current, Covered
    <3> QED
      BY <1>1, <3>3, <3>4 DEF Kept, Painted, Requested
  <2> QED
    BY <2>1, <2>2
<1>3. Types'
  BY <1>1, <1>2 DEF Inv, Types, Good, WantOf, Asset
<1>4. Staged' /\ Bounded'
  BY <1>1, <1>2 DEF Inv, Staged, Bounded
<1> QED
  BY <1>2, <1>3, <1>4 DEF Inv, Good

\* A call that is not made, or is given up, leaves the View alone.
LEMMA SkipStep ==
  ASSUME Inv, pc # "idle", NEW l \in {"idle", "null", "stop"},
         pc' = l, view' = view, retry' = FALSE,
         UNCHANGED <<up, want, cache, crashes>>,
         l = "idle" \/ (pc \in {"play", "null"})
  PROVE  Inv' /\ Kept
<1>1. view \in Views /\ Good(view) /\ view.gen \in Nat
  BY DEF Inv, Types, Good, Views
<1>2. Kept /\ Good(view')
  BY <1>1, SameGood
<1>3. want.url \in WantOf(l)
  BY DEF Inv, Types, WantOf
<1>4. Types'
  BY <1>1, <1>3 DEF Inv, Types
<1>5. Staged' /\ Bounded'
  BY <1>1, BoundAssumption DEF Inv, Staged, Bounded
<1> QED
  BY <1>2, <1>4, <1>5 DEF Inv, Good

LEMMA ImageStep ==
  ASSUME Inv, SendImage
  PROVE  Inv' /\ Kept
<1>1. /\ view \in Views /\ Good(view) /\ view.gen \in Nat /\ pc = "image"
      /\ want.url \in Image /\ view.gen < MaxLoads
  BY DEF Inv, Types, Good, SendImage, Views, Bounded, WantOf
<1>2. CASE /\ pc' = "idle" /\ retry' = FALSE
           /\ UNCHANGED <<view, up, want, cache, crashes>>
  BY <1>1, <1>2, SkipStep
<1>3. CASE Retried
  BY <1>1, <1>3, RetriedStep
<1>4. CASE Raised
  BY <1>4, RaisedStep
<1>5. CASE Answered(LoadImage(view, want.url), "idle")
           /\ cache' = [cache EXCEPT !.url = want.url]
           /\ UNCHANGED <<up, want, crashes>>
  <2>1. /\ Good(view') /\ view'.nav = None /\ view'.gen = view.gen + 1
        /\ view'.image = view.image /\ view'.visible = FALSE
        /\ view'.replies = view.replies
             \cup {[gen |-> view.gen + 1, image |-> want.url]}
    BY <1>1, <1>5, LoadImageGood DEF Answered
  <2>2. Kept
    BY <1>1, <2>1 DEF Kept, Painted, Requested
  <2>3. pc' = "idle" /\ retry' = FALSE /\ up' = up
    BY <1>5 DEF Answered
  <2>4. cache' \in [url : Asset \cup {None, Null}, headers : Header \cup {None}]
    BY <1>1, <1>5 DEF Inv, Types, Asset
  <2>5. want'.url \in WantOf(pc')
    BY <1>1, <1>5, <2>3 DEF WantOf, Asset
  <2>6. Types'
    BY <1>1, <1>5, <2>1, <2>3, <2>4, <2>5 DEF Inv, Types, Good
  <2>7. Staged' /\ Bounded'
    BY <1>1, <2>1, <2>3, BoundAssumption DEF Inv, Staged, Bounded
  <2> QED
    BY <2>1, <2>2, <2>6, <2>7 DEF Inv, Good
<1> QED
  BY <1>2, <1>3, <1>4, <1>5 DEF SendImage

LEMMA PlayStep ==
  ASSUME Inv, SendPlay
  PROVE  Inv' /\ Kept
<1>1. /\ view \in Views /\ Good(view) /\ view.gen \in Nat /\ pc = "play"
      /\ want.url \in Video /\ view.gen < MaxLoads
  BY DEF Inv, Types, Good, SendPlay, Views, Bounded, WantOf
<1>2. CASE /\ pc' = "null" /\ retry' = FALSE
           /\ UNCHANGED <<view, up, want, cache, crashes>>
  BY <1>1, <1>2, SkipStep
<1>3. CASE Retried
  BY <1>1, <1>3, RetriedStep
<1>4. CASE Answered(PlayVideo(view, want.url), "null")
           /\ UNCHANGED <<up, want, cache, crashes>>
  <2>1. /\ Good(view') /\ view'.nav = None /\ view'.gen = view.gen + 1
        /\ view'.image = None /\ view'.visible = FALSE
        /\ view'.replies = view.replies
    BY <1>1, <1>4, PlayVideoGood DEF Answered
  <2>2. Kept
    BY <1>1, <2>1 DEF Kept, Painted, Requested
  <2>3. pc' = "null" /\ retry' = FALSE /\ up' = up
    BY <1>4 DEF Answered
  <2>4. Types'
    BY <1>1, <1>4, <2>1, <2>3 DEF Inv, Types, Good, WantOf
  <2>5. Staged' /\ Bounded'
    BY <1>1, <2>1, <2>3, BoundAssumption DEF Inv, Staged, Bounded
  <2> QED
    BY <2>1, <2>2, <2>4, <2>5 DEF Inv, Good
<1> QED
  BY <1>2, <1>3, <1>4 DEF SendPlay

LEMMA NullStep ==
  ASSUME Inv, SendNull
  PROVE  Inv' /\ Kept
<1>1. /\ view \in Views /\ Good(view) /\ view.gen \in Nat /\ pc = "null"
      /\ want.url \in Video /\ view.gen <= MaxLoads
  BY DEF Inv, Types, Good, SendNull, Views, Bounded, WantOf
<1>2. CASE /\ pc' = "stop" /\ retry' = FALSE
           /\ UNCHANGED <<view, up, want, cache, crashes>>
  BY <1>1, <1>2, SkipStep
<1>3. CASE Retried
  BY <1>1, <1>3, RetriedStep
<1>4. CASE Raised
  BY <1>4, RaisedStep
<1>5. CASE Answered(LoadNull(view), "stop")
           /\ cache' = [cache EXCEPT !.url = Null]
           /\ UNCHANGED <<up, want, crashes>>
  <2>1. /\ Good(view') /\ view'.nav = None /\ view'.gen = view.gen + 1
        /\ view'.image = None /\ view'.visible = FALSE
        /\ view'.replies = view.replies
    BY <1>1, <1>5, LoadNullGood DEF Answered
  <2>2. Kept
    BY <1>1, <2>1 DEF Kept, Painted, Requested
  <2>3. pc' = "stop" /\ retry' = FALSE /\ up' = up
    BY <1>5 DEF Answered
  <2>4. cache' \in [url : Asset \cup {None, Null}, headers : Header \cup {None}]
    BY <1>5 DEF Inv, Types
  <2>5. Types'
    BY <1>1, <1>5, <2>1, <2>3, <2>4 DEF Inv, Types, Good, WantOf
  <2>6. Staged' /\ Bounded'
    BY <1>1, <2>1, <2>3, BoundAssumption DEF Inv, Staged, Bounded
  <2> QED
    BY <2>1, <2>2, <2>5, <2>6 DEF Inv, Good
<1> QED
  BY <1>2, <1>3, <1>4, <1>5 DEF SendNull

LEMMA StopStep ==
  ASSUME Inv, SendStop
  PROVE  Inv' /\ Kept
<1>1. /\ view \in Views /\ Good(view) /\ view.gen \in Nat /\ pc = "stop"
  BY DEF Inv, Types, Good, SendStop, Views
<1>2. CASE /\ pc' = "idle" /\ retry' = FALSE
           /\ UNCHANGED <<view, up, want, cache, crashes>>
  BY <1>1, <1>2, SkipStep
<1>3. CASE Retried
  BY <1>1, <1>3, RetriedStep
<1>4. CASE Answered(StopVideo(view), "idle")
           /\ UNCHANGED <<up, want, cache, crashes>>
  <2>1. view' = [view EXCEPT !.video = None]
    BY <1>4 DEF Answered, StopVideo
  <2>2. /\ view' \in Views
        /\ view'.gen = view.gen /\ view'.page = view.page
        /\ view'.replies = view.replies
        /\ view'.visible = view.visible /\ view'.image = view.image
        /\ view'.conn = view.conn /\ view'.pending = view.pending
        /\ view'.nav = view.nav /\ view'.movie = view.movie
        /\ view'.surface = view.surface /\ view'.last = view.last
    BY <1>1, <2>1 DEF Views
  <2>3. Good(view')
    BY <1>1, <2>2 DEF Good, Current, Covered
  <2>4. Kept
    BY <1>1, <2>2, <2>3 DEF Kept, Painted, Requested
  <2>5. pc' = "idle" /\ retry' = FALSE
    BY <1>4 DEF Answered
  <2>6. want'.url \in WantOf(pc')
    BY <1>4, <2>5 DEF Inv, Types, WantOf
  <2>7. Types'
    BY <1>4, <2>2, <2>5, <2>6 DEF Inv, Types
  <2>8. Staged' /\ Bounded'
    BY <1>1, <2>2, <2>5 DEF Inv, Staged, Bounded
  <2> QED
    BY <2>3, <2>4, <2>7, <2>8 DEF Inv, Good
<1> QED
  BY <1>2, <1>3, <1>4 DEF SendStop

LEMMA StepInv == Inv /\ [Next]_vars => Inv' /\ Kept
<1> SUFFICES ASSUME Inv, [Next]_vars PROVE Inv' /\ Kept
  OBVIOUS
<1>1. CASE UNCHANGED vars
  <2>1. Inv'
    BY <1>1 DEF vars, Inv, Types, Current, Covered, Staged, Bounded
  <2>2. Kept
    BY <1>1, SameGood DEF vars, Inv, Types, Good
  <2> QED
    BY <2>1, <2>2
<1>2. CASE Call
  BY <1>2, HeadersStep, PageStep, IntervalStep, ImageStep, PlayStep, NullStep,
     StopStep DEF Call
<1>3. CASE \E ok \in BOOLEAN : NavigationEnds(ok)
  BY <1>3, EndsStep
<1>4. CASE \E r \in view.replies : ReplyArrives(r) \/ ReplyFails(r)
  BY <1>4, ArrivesStep, FailsStep
<1>5. CASE Watchdog \/ Reload \/ Frame \/ Crash
  BY <1>5, WatchdogStep, ReloadStep, FrameStep, CrashStep
<1> QED
  BY <1>1, <1>2, <1>3, <1>4, <1>5, BeginsStep DEF Next

-----------------------------------------------------------------------------
(* The theorems *)

LEMMA InvType == Inv => TypeOK
<1> SUFFICES ASSUME Inv PROVE TypeOK
  OBVIOUS
<1>1. view.gen \in 0..MaxLoads + 1 /\ view.conn \in 0..MaxLoads + 1
  BY BoundAssumption DEF Inv, Types, Views, Current, Bounded
<1>2. view.replies \in SUBSET [gen : 1..MaxLoads + 1, image : Image]
  BY BoundAssumption DEF Inv, Types, Views, Current, Bounded
<1> QED
  BY <1>1, <1>2 DEF Inv, Types, Views, TypeOK

\* Every variable has its type: the generations of a process stay within the
\* bound, whatever fails.
THEOREM TypeCorrect == Spec => []TypeOK
BY InitInv, StepInv, InvType, PTL DEF Spec

\* Neither the 'null' image that follows a video nor a late page, image or
\* frame of an animation covers it.
THEOREM VideoStays == Spec => []VideoKeepsScreen
<1>1. Inv => VideoKeepsScreen
  BY DEF Inv, Covered, VideoKeepsScreen
<1> QED
  BY <1>1, InitInv, StepInv, PTL DEF Spec

\* Whatever comes on the screen was asked for last.
THEOREM LatestOnly == Spec => OnlyLatestIsPainted
<1>1. Inv /\ [Next]_vars =>
        [ /\ view'.image \notin {view.image, None} => view'.image = view'.last
          /\ view'.visible /\ (~view.visible \/ view'.page # view.page)
               => view'.page = view'.last ]_view
  BY StepInv DEF Kept, Painted
<1> QED
  BY <1>1, InitInv, StepInv, PTL DEF Spec, OnlyLatestIsPainted

\* A page is requested with the headers of its own asset.
THEOREM OwnHeaders == Spec => LoadsOwnHeaders
<1>1. Inv /\ [Next]_vars =>
        [ view'.gen = view.gen + 1 /\ view'.nav # None /\ ~retry
            => view'.nav = [page |-> want.url, headers |-> want.headers] ]_vars
  BY StepInv DEF Kept, Requested
<1> QED
  BY <1>1, InitInv, StepInv, PTL DEF Spec, LoadsOwnHeaders

=============================================================================
