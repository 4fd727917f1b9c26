------------------------------ MODULE Scheduler ------------------------------
(***************************************************************************)
(* The viewer's playlist scheduler: class Scheduler of                     *)
(* src/anthias_viewer/scheduling.py, one get_next_asset() call at a time,  *)
(* on the main thread, against three concurrent actors:                    *)
(*   - the server, whose commits change the asset table and bump the mtime *)
(*     of the database files;                                              *)
(*   - the subscriber thread, whose `asset` and `previous` commands write  *)
(*     scheduler.extra_asset and scheduler.reverse without a lock;         *)
(*   - the wall clock.                                                     *)
(* get_next_asset() is split where one of them can get in between two      *)
(* reads or writes; everything else of a call is one step.                 *)
(***************************************************************************)
EXTENDS Integers, Sequences, FiniteSets, Functions, SequencesExt

CONSTANTS
  Asset,          \* the asset ids of the table
  None,           \* Python's None
  Row,            \* the rows the server may commit, see RowOK
  Windowed,       \* assets with a play_days or play_time window
  OpenAt,         \* OpenAt[a]: the times at which a's window is open
  Cap,            \* WINDOWED_DEADLINE_CAP_SECONDS
  ReshuffleAfter, \* the 5 of `counter >= 5`
  MaxTime,        \* bound: the clock stops here
  MaxEdits,       \* bound: commits of the server
  MaxCommands     \* bound: commands of the operator

RowType == [enabled : BOOLEAN, start : Nat, end : Nat, order : Nat,
            processing : BOOLEAN]

ASSUME AssetAssumption == IsFiniteSet(Asset)
ASSUME NoneAssumption == None \notin Asset \cup Row \cup Nat
ASSUME RowAssumption == Row \subseteq RowType
ASSUME WindowAssumption ==
  /\ Windowed \subseteq Asset
  /\ OpenAt \in [Asset -> SUBSET Nat]
ASSUME BoundAssumption ==
  /\ Cap \in Nat \ {0}
  /\ ReshuffleAfter \in Nat \ {0}
  /\ MaxTime \in Nat \ {0}
  /\ MaxEdits \in Nat
  /\ MaxCommands \in Nat

VARIABLES
  now,          \* timezone.now()
  db,           \* the assets table: a row for each asset, None if absent
  mtime,        \* newest mtime of the database file and its WAL sidecars
  shuffle,      \* settings['shuffle_playlist']
  assets,       \* self.assets
  index,        \* self.index
  counter,      \* self.counter, saturated at ReshuffleAfter
  deadline,     \* self.deadline
  lastMtime,    \* self.last_update_db_mtime
  currentId,    \* self.current_asset_id
  extra,        \* self.extra_asset
  reverse,      \* self.reverse
  pc,           \* where the main thread is in get_next_asset()
  found,        \* the row get_specific_asset() returned, with its id
  reshuffling,  \* the allow_reshuffle argument of update_playlist()
  built,        \* the constructor has returned: `scheduler` is not None
  shown,        \* history: the entry the last call returned, and the ids of
                \* the list it was picked from (<<>> for a jump)
  genTime,      \* history: `now` of the last generate_asset_list()
  edits,        \* commits made so far
  cmds          \* commands sent so far

envVars == <<now, db, mtime, shuffle, edits>>
listVars == <<assets, deadline, lastMtime, genTime>>
posVars == <<index, counter>>
cmdVars == <<extra, reverse, cmds>>
callVars == <<pc, found, reshuffling, built>>
outVars == <<currentId, shown>>
vars == <<envVars, listVars, posVars, cmdVars, callVars, outVars>>

-----------------------------------------------------------------------------
(* Asset rows *)

Entry(a) == [id |-> a, row |-> db[a]]
EntryType == [id : Asset, row : Row]
Ids(s) == {s[i].id : i \in DOMAIN s}
IdSeq(s) == [i \in DOMAIN s |-> s[i].id]

\* Rows the `.filter()` of generate_asset_list() keeps.
Candidates == {a \in Asset : db[a] # None /\ db[a].enabled}

InRange(row, t) == row.start < t /\ t < row.end

WindowOpen(a, t) == a \in Windowed => t \in OpenAt[a]

\* Asset.is_active(now=t)
IsActive(a, t) ==
  /\ a \in Candidates
  /\ InRange(db[a], t)
  /\ WindowOpen(a, t)

ActiveSet(t) == {a \in Asset : IsActive(a, t)}

\* Every order generate_asset_list() can return the active rows in: any
\* order after a shuffle, else by play_order with ties in an order the
\* query does not fix.
Playlists(t) ==
  {[i \in DOMAIN ids |-> Entry(ids[i])] :
     ids \in {s \in SetToSeqs(ActiveSet(t)) :
                shuffle \/ \A i, j \in DOMAIN s :
                             i < j => db[s[i]].order <= db[s[j]].order}}

\* Mutant: the day and time windows are not polled.
BoundariesNoPoll(t) ==
  {b \in {IF IsActive(a, t) THEN db[a].end ELSE db[a].start :
            a \in Candidates} : b > t}

\* Mutant: only active assets have a boundary.
BoundariesOfActive(t) ==
  {b \in {db[a].end : a \in ActiveSet(t)} : b > t}

\* The future boundary of each candidate, and the poll of windowed ones.
Boundaries(t) ==
  {b \in {IF IsActive(a, t) THEN db[a].end ELSE db[a].start :
            a \in Candidates} : b > t}
  \cup (IF \E a \in Candidates \cap Windowed : InRange(db[a], t)
        THEN {t + Cap} ELSE {})

\* The soonest of them, as the set of the one value it can be.
ComputeDeadline(t) ==
  IF Boundaries(t) = {} THEN {None}
  ELSE {b \in Boundaries(t) : \A c \in Boundaries(t) : b <= c}

-----------------------------------------------------------------------------
(* The main thread *)

\* get_next_asset(): `if self.extra_asset is not None`
Call ==
  /\ pc = "idle"
  /\ pc' = IF extra # None THEN "lookup" ELSE "refresh"
  /\ UNCHANGED <<envVars, listVars, posVars, cmdVars, outVars, found,
                 reshuffling, built>>

\* get_specific_asset(self.extra_asset), and the test of what it returned
Lookup ==
  /\ pc = "lookup"
  /\ IF db[extra] # None /\ ~db[extra].processing
     THEN pc' = "adopt" /\ found' = Entry(extra)
     ELSE pc' = "reject" /\ UNCHANGED found
  /\ UNCHANGED <<envVars, listVars, posVars, cmdVars, outVars, reshuffling,
                 built>>

\* self.current_asset_id = self.extra_asset, which is read again
Adopt ==
  /\ pc = "adopt"
  /\ currentId' = extra
  /\ pc' = "return"
  /\ UNCHANGED <<envVars, listVars, posVars, cmdVars, shown, found,
                 reshuffling, built>>

\* self.extra_asset = None; return asset
ReturnExtra ==
  /\ pc = "return"
  /\ extra' = None
  /\ shown' = [entry |-> found, ids |-> <<>>]
  /\ found' = None
  /\ pc' = "idle"
  /\ UNCHANGED <<envVars, listVars, posVars, reverse, cmds, currentId,
                 reshuffling, built>>

\* The requested asset is gone or still processing: back to the playlist.
Reject ==
  /\ pc = "reject"
  /\ extra' = None
  /\ pc' = "refresh"
  /\ UNCHANGED <<envVars, listVars, posVars, reverse, cmds, outVars, found,
                 reshuffling, built>>

DeadlinePassed == deadline # None /\ deadline <= now
CycleOver == shuffle /\ counter >= ReshuffleAfter

\* refresh_playlist()
Refresh ==
  /\ pc = "refresh"
  /\ pc' = IF mtime > lastMtime \/ CycleOver \/ DeadlinePassed
           THEN "stamp" ELSE "pick"
  /\ reshuffling' = (~(mtime > lastMtime) /\ CycleOver)
  /\ UNCHANGED <<envVars, listVars, posVars, cmdVars, outVars, found, built>>

\* update_playlist(): self.last_update_db_mtime = self.get_db_mtime()
Stamp ==
  /\ pc = "stamp"
  /\ lastMtime' = mtime
  /\ pc' = "build"
  /\ UNCHANGED <<envVars, assets, deadline, genTime, posVars, cmdVars,
                 outVars, found, reshuffling, built>>

\* Mutant: the order is kept, and so are the outdated rows.
KeepOrderAndRows(new) == assets

KeepOrder(new) ==
  [i \in DOMAIN assets |->
     CHOOSE e \in Range(new) : e.id = assets[i].id]

\* Mutant: the position is not brought back into the new list.
ReplaceKeepingIndex(new, dl) ==
  /\ assets' = new
  /\ deadline' = dl
  /\ counter' = 0
  /\ UNCHANGED index

Replace(new, dl) ==
  /\ assets' = new
  /\ deadline' = dl
  /\ counter' = 0
  /\ index' = IF new = <<>> THEN 0 ELSE index % Len(new)

\* The branches of update_playlist() once the list is generated
Install(new, dl) ==
  IF shuffle /\ ~reshuffling
  THEN IF Ids(assets) = Ids(new)
       THEN /\ assets' = KeepOrder(new)
            /\ deadline' = dl
            /\ UNCHANGED posVars
       ELSE Replace(new, dl)
  ELSE IF new = assets /\ dl = deadline
       THEN UNCHANGED <<assets, deadline, posVars>>
       ELSE Replace(new, dl)

\* generate_asset_list() and the rest of update_playlist(). The first run
\* is the constructor's, and no get_next_asset() is under way.
Build ==
  /\ pc = "build"
  /\ \E new \in Playlists(now), dl \in ComputeDeadline(now) : Install(new, dl)
  /\ genTime' = now
  /\ reshuffling' = FALSE
  /\ built' = TRUE
  /\ pc' = IF built THEN "pick" ELSE "idle"
  /\ UNCHANGED <<envVars, lastMtime, cmdVars, outVars, found>>

\* The position served and the next value of self.index
Serve(i, next) ==
  /\ index' = next
  /\ counter' = IF shuffle /\ next = 0 /\ counter < ReshuffleAfter
                THEN counter + 1 ELSE counter
  /\ currentId' = assets[i + 1].id
  /\ shown' = [entry |-> assets[i + 1], ids |-> IdSeq(assets)]

PickNone ==
  /\ pc = "pick"
  /\ assets = <<>>
  /\ currentId' = None
  /\ shown' = None
  /\ pc' = "idle"
  /\ UNCHANGED <<envVars, listVars, posVars, cmdVars, found, reshuffling,
                 built>>

PickNext ==
  /\ pc = "pick"
  /\ assets # <<>>
  /\ ~reverse
  /\ Serve(index, (index + 1) % Len(assets))
  /\ pc' = "idle"
  /\ UNCHANGED <<envVars, listVars, cmdVars, found, reshuffling, built>>

\* Mutant: one step back from the next position is the asset on screen.
PickPreviousOffByOne ==
  /\ pc = "pick"
  /\ assets # <<>>
  /\ reverse
  /\ Serve((index - 1) % Len(assets), index)
  /\ reverse' = FALSE
  /\ pc' = "idle"
  /\ UNCHANGED <<envVars, listVars, extra, cmds, found, reshuffling, built>>

PickPrevious ==
  /\ pc = "pick"
  /\ assets # <<>>
  /\ reverse
  /\ Serve((index - 2) % Len(assets), (index - 1) % Len(assets))
  /\ reverse' = FALSE
  /\ pc' = "idle"
  /\ UNCHANGED <<envVars, listVars, extra, cmds, found, reshuffling, built>>

Main ==
  \/ Call \/ Lookup \/ Adopt \/ ReturnExtra \/ Reject
  \/ Refresh \/ Stamp \/ Build \/ PickNone \/ PickNext \/ PickPrevious

-----------------------------------------------------------------------------
(* The subscriber thread: playback.py, called once `scheduler` is set *)

CanCommand == built /\ cmds < MaxCommands

\* skip_asset(scheduler, back=True)
Previous ==
  /\ CanCommand
  /\ reverse' = TRUE
  /\ cmds' = cmds + 1
  /\ UNCHANGED <<envVars, listVars, posVars, callVars, outVars, extra>>

\* navigate_to_asset(scheduler, a)
Navigate(a) ==
  /\ CanCommand
  /\ extra' = a
  /\ cmds' = cmds + 1
  /\ UNCHANGED <<envVars, listVars, posVars, callVars, outVars, reverse>>

-----------------------------------------------------------------------------
(* The server and the clock *)

CanEdit == edits < MaxEdits

\* A commit writes one row (or deletes it) and bumps the newest mtime.
Commit(a, row) ==
  /\ CanEdit
  /\ db[a] # row
  /\ db' = [db EXCEPT ![a] = row]
  /\ mtime' = mtime + 1
  /\ edits' = edits + 1
  /\ UNCHANGED <<now, shuffle, listVars, posVars, cmdVars, callVars, outVars>>

\* `reload` re-reads anthias.conf; nothing of the scheduler is touched.
ToggleShuffle ==
  /\ CanEdit
  /\ shuffle' = ~shuffle
  /\ edits' = edits + 1
  /\ UNCHANGED <<now, db, mtime, listVars, posVars, cmdVars, callVars,
                 outVars>>

Tick ==
  /\ now < MaxTime
  /\ now' = now + 1
  /\ UNCHANGED <<db, mtime, shuffle, edits, listVars, posVars, cmdVars,
                 callVars, outVars>>

Environment ==
  \/ Tick
  \/ ToggleShuffle
  \/ \E a \in Asset, row \in Row \cup {None} : Commit(a, row)

-----------------------------------------------------------------------------

\* Scheduler.__init__ up to its call of update_playlist()
Init ==
  /\ now = 1
  /\ db \in [Asset -> Row \cup {None}]
  /\ mtime = 1
  /\ shuffle \in BOOLEAN
  /\ assets = <<>>
  /\ index = 0
  /\ counter = 0
  /\ deadline = None
  /\ lastMtime = 0
  /\ currentId = None
  /\ extra = None
  /\ reverse = FALSE
  /\ pc = "stamp"
  /\ found = None
  /\ reshuffling = FALSE
  /\ built = FALSE
  /\ shown = None
  /\ genTime = 1
  /\ edits = 0
  /\ cmds = 0

Next ==
  \/ Main
  \/ Previous
  \/ \E a \in Asset : Navigate(a)
  \/ Environment

Spec == Init /\ [][Next]_vars

\* The asset loop keeps asking for the next asset; commands, commits and
\* the clock are never owed.
FairSpec == Spec /\ WF_vars(Main)

-----------------------------------------------------------------------------
(* Properties *)

CallPoints == {"idle", "lookup", "adopt", "return", "reject", "refresh",
               "stamp", "build", "pick"}

\* Every variable has its type.
TypeOK ==
  /\ now \in 1..MaxTime
  /\ db \in [Asset -> Row \cup {None}]
  /\ mtime \in Nat
  /\ shuffle \in BOOLEAN
  /\ assets \in Seq(EntryType)
  /\ index \in Nat
  /\ counter \in 0..ReshuffleAfter
  /\ deadline \in Nat \cup {None}
  /\ lastMtime \in Nat
  /\ currentId \in Asset \cup {None}
  /\ extra \in Asset \cup {None}
  /\ reverse \in BOOLEAN
  /\ pc \in CallPoints
  /\ found \in EntryType \cup {None}
  /\ reshuffling \in BOOLEAN
  /\ built \in BOOLEAN
  /\ shown \in [entry : EntryType, ids : Seq(Asset)] \cup {None}
  /\ genTime \in 1..MaxTime
  /\ edits \in 0..MaxEdits
  /\ cmds \in 0..MaxCommands

\* The position is inside the playlist whatever refreshes, shrinking lists
\* and `previous` commands came before: get_next_asset() indexes self.assets
\* with it and an out-of-range index would take the viewer down.
IndexInRange == index = 0 \/ index < Len(assets)

\* No lost update: once the scheduler has recorded the newest mtime, its
\* list holds exactly the rows that were active when it was generated, with
\* their committed contents. update_playlist() stats the files before it
\* queries the table, so a commit in between only causes one more refresh.
ListIsCommitted ==
  pc # "build" /\ lastMtime = mtime =>
    Range(assets) = {Entry(a) : a \in ActiveSet(genTime)}

NotOverdue == pc # "build" /\ lastMtime = mtime /\ ~DeadlinePassed

\* The deadline is early enough: while it has not passed and nothing was
\* committed, the cached list is the set of active assets, and an asset with
\* a day or time window was evaluated less than Cap ago. The instant
\* start_date = now of a generation is left out, see DeadlineCoversStart.
DeadlineCoversBoundaries ==
  NotOverdue =>
    \A a \in Candidates :
      db[a].start # genTime =>
        IF a \in Windowed
        THEN InRange(db[a], now) => now < genTime + Cap
        ELSE IsActive(a, now) <=> a \in Ids(assets)

\* What the docstring of generate_asset_list() says of the deadline, the
\* soonest of "any inactive asset's start_date": an asset inactive at the
\* generation has become active only if the deadline has passed.
DeadlineCoversStart ==
  NotOverdue =>
    \A a \in Candidates \ Windowed : IsActive(a, now) => a \in Ids(assets)

\* `previous` shows the asset before the one on screen: when the playlist
\* has the order it had at the last pick, the position served is the cyclic
\* predecessor of the position last served.
PreviousShowsPredecessor ==
  [][pc = "pick" /\ reverse /\ ~reverse' /\ shown # None
       /\ shown.ids = IdSeq(assets) /\ assets # <<>>
     => \E i \in DOMAIN assets :
          /\ shown.entry.id = assets[i].id
          /\ shown'.entry.id =
               assets[IF i = 1 THEN Len(assets) ELSE i - 1].id]_vars

\* Comment in refresh_playlist(): at the end-of-cycle reshuffle "the current
\* play-through is over", the next position is the first one.
ReshuffleAtCycleEnd ==
  [][reshuffling /\ assets' # assets => index = 0]_vars

\* Comments of the upload serializers and of processing.py: a row that is
\* still processing is skipped during rotation.
ProcessingNeverShown == shown # None => ~shown.entry.row.processing

\* _skip_if_current_asset_inactive() checks "the asset we're displaying" by
\* its current_asset_id: between two calls it is the asset last returned.
CurrentIsShown ==
  pc = "idle" => currentId = IF shown = None THEN None ELSE shown.entry.id

\* No starvation: an unwindowed asset that is active from some time on is
\* shown again and again, shuffled or not, once commands and commits stop.
ActiveAssetsShown ==
  \A a \in Asset \ Windowed :
    <>[](IsActive(a, now) /\ db[a].start # genTime)
      => []<>(shown # None /\ shown.entry.id = a)

=============================================================================
