---------------------------- MODULE SettingsFile ----------------------------
(***************************************************************************)
(* The settings file (anthias.conf) and those who read and write it:       *)
(* AnthiasSettings of src/anthias_server/settings.py, the requests that    *)
(* change settings (DeviceSettingsViewV2.patch, settings_save, the         *)
(* dismissal of the review nudge), those that only read them, the account  *)
(* of the operator (apply_auth_settings), and the viewer, which reads the  *)
(* file again on every `reload`.                                           *)
(* The requests run on threads of one server process and share its         *)
(* settings object. Settings are kept in groups: "early" and "late" stand  *)
(* for those a request assigns before and after it deals with the default  *)
(* assets, whose functions load the file again in between.                 *)
(***************************************************************************)
EXTENDS Naturals, FiniteSets

CONSTANTS
  Requests,     \* threads, each of which serves one request
  Forms,        \* what they may ask for: a subset of AllForms
  Loaders,      \* threads of the viewer that load the file at any time (the
                \* main one, as a video starts): {} or {Main}
  Faults,       \* "full" (the disk, as the file is written), "crash" (the
                \* server restarts), "nudge" (reload commands from elsewhere)
  Subscriber,   \* the thread of the viewer that handles reload
  Bad,          \* a value that ConfigParser does not store ('%')
  Torn,         \* the file between open(..., 'w') and the write
  Keep          \* a setting that a PATCH does not name

ASSUME FaultAssumption == Faults \subseteq {"full", "crash", "nudge"}
ASSUME ThreadAssumption == Subscriber \notin Loaders /\ IsFiniteSet(Requests)

Values == {0, 1}
Settings == [auth : BOOLEAN, early : Values \union {Bad}, assets : BOOLEAN,
             late : Values, dismissed : BOOLEAN]
Defaults == [auth |-> FALSE, early |-> 0, assets |-> FALSE, late |-> 0,
             dismissed |-> FALSE]
ASSUME SentinelAssumption ==
  /\ Torn \notin Settings
  /\ Bad \notin Values
  /\ Keep \notin Values /\ Keep \notin BOOLEAN /\ Keep # Bad

\* What a request asks for; `proof` says whether the passwords it carries are
\* right.
Patch == [kind : {"patch"}, auth : {Keep, TRUE, FALSE}, early : {Keep, 1, Bad},
          assets : {Keep, TRUE, FALSE}, late : {Keep, 1}, proof : BOOLEAN]
Form == [kind : {"form"}, auth : BOOLEAN, early : {0, 1, Bad}, assets : BOOLEAN,
         late : Values, proof : BOOLEAN]
Other(kind) == [kind |-> kind, auth |-> Keep, early |-> Keep, assets |-> Keep,
                late |-> Keep, proof |-> FALSE]
AllForms == Patch \union Form \union {Other("dismiss"), Other("page")}
ASSUME FormAssumption == Forms \subseteq AllForms

Points == {"idle", "read", "assign", "auth", "early", "late", "dismiss",
           "snapshot", "open", "write", "publish", "saved", "refused", "failed",
           "served"}
Ended == {"saved", "refused", "failed", "served"}

VARIABLES
  file,       \* anthias.conf
  mem,        \* `settings` of the server process
  pc,         \* where each request is
  then,       \* where its load() returns to
  form,       \* what it asks for
  conf,       \* the ConfigParser of its load() or save(), while it has one
  operator,   \* a User row exists
  rows,       \* copies of the default assets in the table
  viewer,     \* `settings` of the viewer
  reading,    \* what its threads have read and not assigned yet
  reloads,    \* reload commands under way
  crashed,    \* history: the server has restarted
  alone,      \* history: the requests that have met no other one
  before      \* history: the settings on disk when each began

request == <<pc, then, form, conf>>
display == <<viewer, reading, reloads>>
history == <<crashed, alone, before>>
vars == <<file, mem, request, operator, rows, display, history>>

\* load() of an empty file finds no section and takes every default.
Loaded(f) == IF f = Torn THEN Defaults ELSE f

MaxRows == 2
Readers == {Subscriber} \union Loaders

TypeOK ==
  /\ file \in Settings \union {Torn}
  /\ mem \in Settings /\ viewer \in Settings
  /\ pc \in [Requests -> Points]
  /\ then \in [Requests -> Points]
  /\ form \in [Requests -> AllForms]
  /\ conf \in [Requests -> Settings] /\ before \in [Requests -> Settings]
  /\ operator \in BOOLEAN /\ crashed \in BOOLEAN
  /\ rows \in 0..MaxRows /\ reloads \in 0..(Cardinality(Requests) + 1)
  /\ reading \in [Readers -> Settings \union {Torn}]
  /\ alone \subseteq Requests

\* A device as it comes, or one that somebody has set up.
Customised == [auth |-> TRUE, early |-> 1, assets |-> TRUE, late |-> 1,
               dismissed |-> FALSE]

Init ==
  /\ file \in {Defaults, Customised}
  /\ mem = file /\ viewer = file
  /\ pc = [r \in Requests |-> "idle"] /\ then = pc
  /\ form = [r \in Requests |-> Other("page")]
  /\ conf = [r \in Requests |-> Defaults] /\ before = conf
  /\ operator \in BOOLEAN /\ (file.auth => operator)
  /\ rows = IF file.assets THEN 1 ELSE 0
  /\ reading = [t \in Readers |-> Torn] /\ reloads = 0
  /\ crashed = FALSE /\ alone = {}

-----------------------------------------------------------------------------
(* A request *)

Active(r) == pc[r] \notin Ended \union {"idle"}

Goto(r, p) == pc' = [pc EXCEPT ![r] = p]

\* settings.load(), which returns to p
Call(r, p) == Goto(r, "read") /\ then' = [then EXCEPT ![r] = p]

\* Mutant: a handler takes the settings object as it finds it.
BeginUnread(r, kind) ==
  /\ Goto(r, CASE kind = "dismiss" -> "dismiss"
               [] kind = "page" -> "served"
               [] OTHER -> "auth")
  /\ UNCHANGED then

\* Every handler begins with settings.load(): the settings object may hold what
\* another process has replaced, or what a save that failed has left in it.
Begin(r, kind) ==
  Call(r, CASE kind = "dismiss" -> "dismiss"
            [] kind = "page" -> "served"
            [] OTHER -> "auth")

Start(r) ==
  /\ pc[r] = "idle"
  /\ \E f \in Forms : form' = [form EXCEPT ![r] = f] /\ Begin(r, f.kind)
  /\ before' = [before EXCEPT ![r] = Loaded(file)]
  /\ alone' = IF \E s \in Requests : Active(s)
                THEN alone \ {s \in Requests : Active(s)}
                ELSE alone \union {r}
  /\ UNCHANGED <<file, mem, conf, operator, rows, display, crashed>>

\* load(): the file is read, ...
Read(r) ==
  /\ pc[r] = "read"
  /\ conf' = [conf EXCEPT ![r] = Loaded(file)]
  /\ Goto(r, "assign")
  /\ UNCHANGED <<file, mem, then, form, operator, rows, display, history>>

\* ... and every field of the shared object assigned. After the load inside
\* add_default_assets() and remove_default_assets() these write the rows.
Assign(r) ==
  /\ pc[r] = "assign"
  /\ mem' = conf[r]
  /\ Goto(r, then[r])
  /\ rows' = IF then[r] # "late" THEN rows
             ELSE IF form[r].assets THEN IF rows < MaxRows THEN rows + 1 ELSE rows
             ELSE 0
  /\ conf' = [conf EXCEPT ![r] = Defaults]
  /\ UNCHANGED <<file, then, form, operator, display, history>>

\* The value a request gives a setting that has this one now
Asked(f, now) == IF f = Keep THEN now ELSE f

\* Mutant: the account is not asked for when there is none.
AcceptedWithoutAccount(f, wanted, now) == wanted = now \/ ~operator \/ f.proof

\* apply_auth_settings(): a change of the backend needs the password of the
\* operator there is; the first operator needs credentials that pass.
Accepted(f, wanted, now) ==
  /\ (operator /\ wanted # now) => f.proof
  /\ (~operator /\ wanted) => f.proof

Authenticate(r) ==
  /\ pc[r] = "auth"
  /\ LET wanted == Asked(form[r].auth, mem.auth) IN
       IF Accepted(form[r], wanted, mem.auth)
         THEN /\ operator' = (operator \/ (wanted /\ form[r].proof))
              /\ form' = [form EXCEPT ![r].auth = wanted]
              /\ Goto(r, "early")
         ELSE /\ Goto(r, "refused")
              /\ UNCHANGED <<operator, form>>
  /\ UNCHANGED <<file, mem, then, conf, rows, display, history>>

\* The assignments up to the default assets. A change of those goes through
\* add_default_assets() or remove_default_assets().
SetEarly(r) ==
  /\ pc[r] = "early"
  /\ mem' = [mem EXCEPT !.auth = form[r].auth, !.early = Asked(form[r].early, @)]
  /\ IF Asked(form[r].assets, mem.assets) # mem.assets
       THEN Call(r, "late")
       ELSE Goto(r, "late") /\ UNCHANGED then
  /\ UNCHANGED <<file, form, conf, operator, rows, display, history>>

SetLate(r) ==
  /\ pc[r] = "late"
  /\ mem' = [mem EXCEPT !.assets = Asked(form[r].assets, @),
                        !.late = Asked(form[r].late, @)]
  /\ Goto(r, "snapshot")
  /\ UNCHANGED <<file, then, form, conf, operator, rows, display, history>>

\* review_cta_dismiss()
Dismiss(r) ==
  /\ pc[r] = "dismiss"
  /\ mem' = [mem EXCEPT !.dismissed = TRUE]
  /\ Goto(r, "snapshot")
  /\ UNCHANGED <<file, then, form, conf, operator, rows, display, history>>

\* save(): the ConfigParser is filled from the object, and refuses a value that
\* it could not read back; ...
Snapshot(r) ==
  /\ pc[r] = "snapshot"
  /\ IF mem.early = Bad
       THEN Goto(r, "failed") /\ UNCHANGED conf
       ELSE Goto(r, "open") /\ conf' = [conf EXCEPT ![r] = mem]
  /\ UNCHANGED <<file, mem, then, form, operator, rows, display, history>>

\* ... open(conf_file, 'w') empties the file, ...
Open(r) ==
  /\ pc[r] = "open"
  /\ file' = Torn
  /\ Goto(r, "write")
  /\ UNCHANGED <<mem, then, form, conf, operator, rows, display, history>>

\* Mutant: a form tells nobody either.
AfterSaveSilent(f) == IF f.kind \in {"dismiss", "form"} THEN "served" ELSE "publish"

\* A dismissal tells nobody.
AfterSave(f) == IF f.kind = "dismiss" THEN "served" ELSE "publish"

\* ... the text is written, and loaded again.
Write(r) ==
  /\ pc[r] = "write"
  /\ file' = conf[r]
  /\ conf' = [conf EXCEPT ![r] = Defaults]
  /\ Call(r, AfterSave(form[r]))
  /\ UNCHANGED <<mem, form, operator, rows, display, history>>

DiskFull(r) ==
  /\ "full" \in Faults
  /\ pc[r] = "write"
  /\ Goto(r, "failed")
  /\ UNCHANGED <<file, mem, then, form, conf, operator, rows, display, history>>

\* send_to_viewer('reload')
Publish(r) ==
  /\ pc[r] = "publish"
  /\ reloads' = reloads + 1
  /\ Goto(r, "saved")
  /\ UNCHANGED <<file, mem, then, form, conf, operator, rows, viewer, reading,
                 history>>

Serve(r) ==
  \/ Start(r) \/ Read(r) \/ Assign(r) \/ Authenticate(r) \/ SetEarly(r)
  \/ SetLate(r) \/ Dismiss(r) \/ Snapshot(r) \/ Open(r) \/ Write(r)
  \/ DiskFull(r) \/ Publish(r)

-----------------------------------------------------------------------------
(* The server restarts, the viewer reads *)

\* The requests under way are gone. A file without a secret key gets one from
\* django_project/settings.py, and with it every default.
Restart ==
  /\ "crash" \in Faults /\ ~crashed
  /\ crashed' = TRUE
  /\ file' = Loaded(file) /\ mem' = Loaded(file)
  /\ pc' = [r \in Requests |-> IF Active(r) THEN "failed" ELSE pc[r]]
  /\ UNCHANGED <<then, form, conf, operator, rows, display, alone, before>>

\* A change of an asset publishes reload, too.
Nudge ==
  /\ "nudge" \in Faults /\ reloads = 0
  /\ reloads' = 1
  /\ UNCHANGED <<file, mem, request, operator, rows, viewer, reading, history>>

\* settings.load() of the viewer, for a reload or, on the main thread, as a
\* video starts: first half ...
ViewerRead(t) ==
  /\ reading[t] = Torn
  /\ t = Subscriber => reloads > 0
  /\ reloads' = IF t = Subscriber THEN reloads - 1 ELSE reloads
  /\ reading' = [reading EXCEPT ![t] = Loaded(file)]
  /\ UNCHANGED <<file, mem, request, operator, rows, viewer, history>>

\* ... and second
ViewerAssign(t) ==
  /\ reading[t] # Torn
  /\ viewer' = reading[t]
  /\ reading' = [reading EXCEPT ![t] = Torn]
  /\ UNCHANGED <<file, mem, request, operator, rows, reloads, history>>

Next ==
  \/ \E r \in Requests : Serve(r)
  \/ Restart \/ Nudge
  \/ \E t \in Readers : ViewerRead(t) \/ ViewerAssign(t)

Spec == Init /\ [][Next]_vars

\* Threads of the server go on once they have begun, the subscriber handles the
\* commands it has, and a thread that has read assigns.
FairSpec ==
  /\ Spec
  /\ \A r \in Requests : WF_vars(Serve(r))
  /\ WF_vars(ViewerRead(Subscriber))
  /\ \A t \in Readers : WF_vars(ViewerAssign(t))

-----------------------------------------------------------------------------
(* Properties *)

\* The device never asks for a login that nobody can pass: neither on disk nor
\* in memory is authentication on without an account, whatever requests
\* overlap, are refused, fail half-way or are cut off by a restart.
NobodyIsLockedOut ==
  (mem.auth \/ (file # Torn /\ file.auth)) => operator

\* The settings a request leaves on disk, given those it found
Expected(r) ==
  LET f == form[r] IN
    IF f.kind = "dismiss" THEN [before[r] EXCEPT !.dismissed = TRUE]
    ELSE [before[r] EXCEPT !.auth = f.auth, !.early = Asked(f.early, @),
                           !.assets = Asked(f.assets, @), !.late = Asked(f.late, @)]

\* The request switches the default assets.
Switches(r) == Asked(form[r].assets, before[r].assets) # before[r].assets

\* When a request that meets no other one reports success, the file and the
\* memory hold what it asked for and otherwise exactly what was on disk before:
\* nothing of an earlier request that was refused, failed or was cut off. (Not
\* so if it switches the default assets: SavedAsAsked.)
LoneSaveIsExact ==
  \A r \in alone :
    (pc[r] = "publish" /\ ~Switches(r)) => file = Expected(r) /\ mem = file

\* "Settings were successfully saved.", for every request that meets no other.
SavedAsAsked ==
  \A r \in alone : pc[r] = "publish" => file = Expected(r)

\* The viewer has the settings that are on disk (those it uses).
ViewerIsCurrent == viewer.early = file.early /\ viewer.late = file.late

Dismissing == \E r \in Requests : form[r].kind = "dismiss"

\* The viewer ends up with what is on disk, although it may read the file while
\* it is empty, before it is written, or for another request. Excepted are a
\* restart of the server between the write and the command, a file that a full
\* disk left empty, and a dismissal, which empties the file and tells nobody.
ViewerCatchesUp ==
  <>[](crashed \/ file = Torn \/ Dismissing \/ ViewerIsCurrent)

\* Without the exception for dismissals
ViewerIsTold == <>[](crashed \/ file = Torn \/ ViewerIsCurrent)

\* views.py: dismissing "permanently silences the nudge".
DismissalIsKept == [][(file # Torn /\ file.dismissed /\ file' # Torn) => file'.dismissed]_vars

=============================================================================
