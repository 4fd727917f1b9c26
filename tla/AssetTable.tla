----------------------------- MODULE AssetTable -----------------------------
(***************************************************************************)
(* The requests that create, edit, order, enable and delete assets (API v1 *)
(* to v2 and the home page in src/anthias_server), served in parallel, one *)
(* statement of the database a step: there is no transaction around them.  *)
(* The table is kept in the order in which sqlite scans it, that of        *)
(* insertion. An upload of module ChunkedUpload becomes an asset here.     *)
(***************************************************************************)
EXTENDS ChunkedUpload

CONSTANTS
  Threads,     \* requests served at the same time
  Kinds,       \* which of them an instance has, see Program
  Old, New,    \* ids of the assets of the beginning, and of those created
  Positions,   \* values of play_order that a client may send
  MaxRequests, \* bound: requests
  MaxFlips,    \* bound: times that a window opens or closes
  None

Ids == Old \union New

ASSUME IdAssumption == IsFiniteSet(Old) /\ Old \intersect New = {} /\ None \notin Ids
ASSUME PositionAssumption == Positions \subseteq Int
ASSUME KindAssumption ==
  Kinds \subseteq {"create", "createUpload", "createV12", "createV1", "createForm",
                   "createApp", "update", "updateV12", "updateV1", "form", "order",
                   "orderApi", "bulk", "bulkUpdate", "delete"}

VARIABLES
  table,     \* the rows, in the order of insertion
  window,    \* the assets whose dates and play window contain this moment
  request,   \* what each thread does
  untold,    \* history: assets gone from rotation since the last reload
  count,     \* how many requests there were
  flips      \* how many times a window has opened or closed

rows == <<table, window, untold>>
vars == <<uploads, rows, request, count, flips>>

\* inode: its file, or 0 for an asset that is elsewhere or lost its file; of: what was uploaded,
\* if the upload was sound.
Row == [id : Ids, enabled : BOOLEAN, order : Int, inode : Inodes \union {0},
        of : Files \union {NoFile}]

\* The steps of each kind of request
CreateV2 == <<"list", "insert", "refresh", "save", "exists">>
CreateV12 == <<"list", "insert", "splice", "save", "exists">>
CreateV1 == <<"insert">>
CreateForm == <<"count", "insert">>
CreateApp == CreateForm
UpdateV2 == <<"load", "write", "list", "refresh", "save", "exists", "publish">>
UpdateV12 == UpdateV2
UpdateV1 == <<"load", "write", "exists", "publish">>
EditForm == <<"load", "write", "publish">>
OrderForm == <<"save", "publish">>
OrderApi == <<"save">>
BulkFlag == <<"flag", "publish">>
BulkUpdate == <<"dates", "publish">>
BulkDelete == <<"select", "unlink", "delete", "publish">>

Program(kind) ==
  CASE kind = "create"       -> CreateV2
    [] kind = "createUpload" -> <<"rename">> \o CreateV2
    [] kind = "createV12"    -> CreateV12
    [] kind = "createV1"     -> CreateV1
    [] kind = "createForm"   -> CreateForm
    [] kind = "createApp"    -> CreateApp
    [] kind = "update"       -> UpdateV2
    [] kind = "updateV12"    -> UpdateV12
    [] kind = "updateV1"     -> UpdateV1
    [] kind = "form"         -> EditForm
    [] kind = "order"        -> OrderForm
    [] kind = "orderApi"     -> OrderApi
    [] kind = "bulk"         -> BulkFlag
    [] kind = "bulkUpdate"   -> BulkUpdate
    [] kind = "delete"       -> BulkDelete

Blank == [id |-> None, enabled |-> FALSE, order |-> 0, inode |-> 0, of |-> NoFile]
RowOf(id, on, at) == [Blank EXCEPT !.id = id, !.enabled = on, !.order = at]
Waiting == [kind |-> "none", rest |-> <<>>, row |-> Blank, ids |-> <<>>, next |-> 0,
            doomed |-> <<>>, before |-> <<>>, alone |-> FALSE]

IdsOf(t) == [i \in DOMAIN t |-> t[i].id]
Present(id) == \E i \in DOMAIN table : table[i].id = id
At(id) == CHOOSE i \in DOMAIN table : table[i].id = id
IsActive(r) == r.enabled /\ r.id \in window
ActiveSet == {table[i].id : i \in {j \in DOMAIN table : IsActive(table[j])}}

TypeOK ==
  /\ UploadTypeOK
  /\ table \in Seq(Row) /\ IsInjective(IdsOf(table))
  /\ window \subseteq Ids /\ untold \subseteq Ids
  /\ \A r \in Threads : request[r].row.id \in Ids \union {None}
  /\ count \in 0..MaxRequests /\ flips \in 0..MaxFlips

Init ==
  /\ UploadInit
  /\ \E ids \in SetToSeqs(Old), at \in SetToSeqs(0..(Cardinality(Old) - 1)) :
       table = [i \in 1..Cardinality(Old) |-> RowOf(ids[i], TRUE, at[i])]
  /\ window = Ids
  /\ request = [r \in Threads |-> Waiting]
  /\ untold = {} /\ count = 0 /\ flips = 0

-----------------------------------------------------------------------------
(* Requests *)

\* The step that a request takes next
Due(r, step) == request[r].rest # <<>> /\ Head(request[r].rest) = step

\* What became of a request: on to its next step, or answered.
Onward(r, q) ==
  request' = [request EXCEPT ![r] =
    IF Tail(q.rest) = <<>> THEN Waiting ELSE [q EXCEPT !.rest = Tail(@)]]
Fail(r) == request' = [request EXCEPT ![r] = Waiting]

\* The rows that prepare_asset() makes of a request: a position that is not sent is 0.
Prepared(ids, on, at) == {RowOf(id, e, p) : id \in ids, e \in on, p \in at}

\* What a request of each kind may ask for. (An id is new with every create.)
Asked(kind) ==
  LET fresh == {id \in New : ~Present(id) /\ \A r \in Threads : request[r].row.id # id} IN
  CASE kind \in {"create", "createUpload", "createV12", "createV1"} ->
         Prepared(fresh, BOOLEAN, Positions)
    [] kind \in {"createForm", "createApp"} -> Prepared(fresh, {TRUE}, {0})
    [] kind \in {"update", "updateV12", "updateV1"} -> Prepared(Ids, BOOLEAN, Positions)
    [] kind = "form" -> Prepared(Ids, BOOLEAN, {0})
    [] kind \in {"bulk", "bulkUpdate"} -> Prepared({None}, BOOLEAN, {0})
    [] kind \in {"delete", "order", "orderApi"} -> {Blank}

\* Others are served at the same time: no history is kept of this one.
Disturbed(q) == [q EXCEPT !.alone = FALSE, !.before = <<>>]

\* A request arrives: for an asset, with what it is to be, or with an order.
Arrive(r, kind) ==
  /\ request[r] = Waiting
  /\ count < MaxRequests /\ count' = count + 1
  /\ \E row \in Asked(kind),
        ids \in (IF kind \in {"order", "orderApi"} THEN SetToSeqs(Old) ELSE {<<>>}) :
       LET q == [Waiting EXCEPT !.kind = kind, !.rest = Program(kind), !.row = row,
                                !.ids = ids, !.before = table, !.alone = TRUE]
           busy == \E other \in Threads : request[other] # Waiting IN
       request' = [other \in Threads |->
         IF other # r THEN Disturbed(request[other]) ELSE IF busy THEN Disturbed(q) ELSE q]
  /\ UNCHANGED <<uploads, rows, flips>>

\* prepare_asset(): the staged file is renamed before the rest of the request is
\* looked at; without the file the request fails. (Module ChunkedUpload: the
\* client creates the asset once it has all its answers.)
Rename(r) ==
  /\ Due(r, "rename")
  /\ \E s \in Sessions :
       /\ Done(s)
       /\ IF staged[s] = 0 THEN Fail(r) /\ UNCHANGED staged
          ELSE /\ Onward(r, [request[r] EXCEPT !.row.inode = staged[s],
                      !.row.of = IF wiped[s] THEN NoFile ELSE client[s].file])
               /\ staged' = [staged EXCEPT ![s] = 0]
       /\ client' = [client EXCEPT ![s].file = NoFile, ![s].acked = {}]
  /\ UNCHANGED <<data, chunk, wiped, sends, rows, count, flips>>

\* The rest of it is refused: a 400, and the file stays where it is.
Refuse(r) ==
  /\ request[r].kind = "createUpload" /\ Due(r, "list")
  /\ Fail(r)
  /\ UNCHANGED <<uploads, rows, count, flips>>

\* get_active_asset_ids(): no order is asked of the database, which gives that of
\* its scan.
Scanned(ids) == \A i, j \in DOMAIN ids : i < j => At(ids[i]) < At(ids[j])

List(r) ==
  /\ Due(r, "list")
  /\ \E ids \in SetToSeqs(ActiveSet) :
       Scanned(ids) /\ Onward(r, [request[r] EXCEPT !.ids = ids])
  /\ UNCHANGED <<uploads, rows, count, flips>>

\* assets_create(): the position is the number of enabled assets.
Count(r) ==
  /\ Due(r, "count")
  /\ Onward(r, [request[r] EXCEPT !.row.order =
       Cardinality({i \in DOMAIN table : table[i].enabled})])
  /\ UNCHANGED <<uploads, rows, count, flips>>

Insert(r) ==
  /\ Due(r, "insert")
  /\ table' = Append(table, request[r].row)
  /\ Onward(r, request[r])
  /\ UNCHANGED <<uploads, window, untold, count, flips>>

\* get_object_or_404(): of a create that is the row itself.
Load(r) ==
  LET id == request[r].row.id IN
  /\ Due(r, "load")
  /\ IF ~Present(id) THEN Fail(r)
     ELSE Onward(r, [request[r] EXCEPT !.row =
            [table[At(id)] EXCEPT
               !.enabled = request[r].row.enabled,
               !.order = IF request[r].kind = "form" THEN @ ELSE request[r].row.order]])
  /\ UNCHANGED <<uploads, rows, count, flips>>

Gone(t, t2) ==
  LET active(u) == {u[i].id : i \in {j \in DOMAIN u : IsActive(u[j])}}
  IN  active(t) \ active(t2)

\* asset.save(): every column, and a row of its own if it was deleted meanwhile.
WriteRow(r) ==
  LET row == request[r].row IN
  /\ Due(r, "write")
  /\ table' = IF Present(row.id) THEN [table EXCEPT ![At(row.id)] = row]
              ELSE Append(table, row)
  /\ untold' = untold \union Gone(table, table')
  /\ Onward(r, request[r])
  /\ UNCHANGED <<uploads, window, count, flips>>

\* Mutant: the asset is not taken out of the list that it goes back into.
SplicedTwice(ids, row) ==
  LET p == IF row.order < 0 THEN 0 ELSE IF row.order > Len(ids) THEN Len(ids)
           ELSE row.order
  IN  IF IsActive(row) THEN InsertAt(ids, p + 1, row.id) ELSE ids

\* finalize_asset_update(): out of the list, and back at its position if it is
\* active. list.insert() counts a negative position from the end, and takes one
\* past an end for that end.
Spliced(ids, row) ==
  LET others == RemoveFirst(ids, row.id)
      n == Len(others)
      p == IF row.order < 0 THEN IF n + row.order < 0 THEN 0 ELSE n + row.order
           ELSE IF row.order > n THEN n ELSE row.order
  IN  IF IsActive(row) THEN InsertAt(others, p + 1, row.id) ELSE others

\* refresh_from_db(), and the place of the asset in the list
Refresh(r) ==
  LET id == request[r].row.id IN
  /\ Due(r, "refresh")
  /\ IF ~Present(id) THEN Fail(r)
     ELSE Onward(r, [request[r] EXCEPT !.row = table[At(id)],
                                       !.ids = Spliced(@, table[At(id)])])
  /\ UNCHANGED <<uploads, rows, count, flips>>

\* API v1.2 takes the row that it has created for the one in the table.
Splice(r) ==
  LET q == request[r] IN
  /\ Due(r, "splice")
  /\ Onward(r, [q EXCEPT !.ids = Spliced(@, q.row)])
  /\ UNCHANGED <<uploads, rows, count, flips>>

\* save_active_assets_ordering(): one UPDATE for each id of the list.
Save(r) ==
  LET q == request[r] IN
  /\ Due(r, "save")
  /\ IF q.ids = <<>> THEN Onward(r, q) /\ UNCHANGED table
     ELSE /\ table' = [i \in DOMAIN table |->
               IF table[i].id = Head(q.ids) THEN [table[i] EXCEPT !.order = q.next]
               ELSE table[i]]
          /\ request' = [request EXCEPT ![r].ids = Tail(@), ![r].next = @ + 1]
  /\ UNCHANGED <<uploads, window, untold, count, flips>>

\* The last refresh_from_db()
Exists(r) ==
  /\ Due(r, "exists")
  /\ IF Present(request[r].row.id) THEN Onward(r, request[r]) ELSE Fail(r)
  /\ UNCHANGED <<uploads, rows, count, flips>>

\* The rows of the table that a request about several selects.
Selected(ids) == {table[i] : i \in {j \in DOMAIN table : table[j].id \in ids}}

\* assets_bulk_action(): one UPDATE of the whole selection.
Flag(r) ==
  /\ Due(r, "flag")
  /\ \E ids \in SUBSET Ids :
       IF Selected(ids) = {} THEN Fail(r) /\ UNCHANGED table
       ELSE /\ table' = [i \in DOMAIN table |->
                 IF table[i].id \in ids THEN [table[i] EXCEPT !.enabled = request[r].row.enabled]
                 ELSE table[i]]
            /\ Onward(r, request[r])
  /\ untold' = untold \union Gone(table, table')
  /\ UNCHANGED <<uploads, window, count, flips>>

\* assets_bulk_update(): dates and play windows, likewise.
Dates(r) ==
  /\ Due(r, "dates")
  /\ \E ids \in SUBSET Ids :
       IF Selected(ids) = {} THEN Fail(r) /\ UNCHANGED <<window, untold>>
       ELSE /\ window' = IF request[r].row.enabled THEN window \union ids ELSE window \ ids
            /\ untold' = untold \union (ActiveSet \ window')
            /\ Onward(r, request[r])
  /\ UNCHANGED <<uploads, table, count, flips>>

\* One asset, or several of them, to be deleted, in whatever order they come
Select(r) ==
  /\ Due(r, "select")
  /\ \E ids \in SUBSET Ids :
       IF Selected(ids) = {} THEN Fail(r)
       ELSE \E doomed \in SetToSeqs(Selected(ids)) :
              Onward(r, [request[r] EXCEPT !.doomed = doomed])
  /\ UNCHANGED <<uploads, rows, count, flips>>

\* A row whose file is gone
Without(i, row) ==
  IF i # 0 /\ row.inode = i THEN [row EXCEPT !.inode = 0, !.of = NoFile] ELSE row

\* delete_asset_with_file(): the file that the row read named, ...
Unlink(r) ==
  LET i == Head(request[r].doomed).inode IN
  /\ Due(r, "unlink")
  /\ table' = [j \in DOMAIN table |-> Without(i, table[j])]
  /\ request' = [other \in Threads |->
       IF other = r THEN [request[r] EXCEPT !.rest = Tail(@)]
       ELSE [request[other] EXCEPT !.row = Without(i, @)]]
  /\ UNCHANGED <<uploads, window, untold, count, flips>>

\* ... and the row; and so on with the next one.
Delete(r) ==
  LET q == request[r]
      id == Head(q.doomed).id IN
  /\ Due(r, "delete")
  /\ table' = IF Present(id) THEN RemoveAt(table, At(id)) ELSE table
  /\ untold' = untold \union Gone(table, table')
  /\ IF Len(q.doomed) = 1 THEN Onward(r, [q EXCEPT !.doomed = <<>>])
     ELSE request' = [request EXCEPT ![r].doomed = Tail(@),
                                     ![r].rest = <<"unlink">> \o @]
  /\ UNCHANGED <<uploads, window, count, flips>>

\* Mutant: a delete leaves the viewer to itself.
ToldUnlessDelete(r) == IF request[r].kind = "delete" THEN untold ELSE {}

Told(r) == {}

\* send_to_viewer('reload')
Publish(r) ==
  /\ Due(r, "publish")
  /\ untold' = Told(r)
  /\ Onward(r, request[r])
  /\ UNCHANGED <<uploads, table, window, count, flips>>

\* A window opens or closes. (The viewer has a deadline for that.)
Flip(id) ==
  /\ flips < MaxFlips /\ flips' = flips + 1
  /\ window' = IF id \in window THEN window \ {id} ELSE window \union {id}
  /\ untold' = untold \ {id}
  /\ request' = [r \in Threads |-> Disturbed(request[r])]
  /\ UNCHANGED <<uploads, table, count>>

\* The server dies. (Whom the viewer has not been told of, it finds out itself:
\* module Scheduler.)
ServerDies ==
  /\ "crash" \in Faults
  /\ (\E t \in Slots : chunk[t] # Free) \/ \E r \in Threads : request[r] # Waiting
  /\ UploadsDie
  /\ request' = [r \in Threads |-> Waiting]
  /\ untold' = {}
  /\ UNCHANGED <<table, window, count, flips>>

\* The inodes of assets, of those about to be, and of those not yet gone.
Kept == {table[i].inode : i \in DOMAIN table}
          \union {request[r].row.inode : r \in Threads}
          \union UNION {{row.inode : row \in ToSet(request[r].doomed)} : r \in Threads}

Upload == UploadStep(Kept) /\ UNCHANGED <<rows, request, count, flips>>

Step(r) ==
  \/ \E kind \in Kinds : Arrive(r, kind)
  \/ Rename(r) \/ Refuse(r) \/ List(r) \/ Count(r) \/ Insert(r) \/ Load(r)
  \/ WriteRow(r) \/ Refresh(r) \/ Splice(r) \/ Save(r) \/ Exists(r) \/ Flag(r)
  \/ Dates(r) \/ Select(r) \/ Unlink(r) \/ Delete(r) \/ Publish(r)

Next == Upload \/ ServerDies \/ (\E r \in Threads : Step(r)) \/ \E id \in Ids : Flip(id)

Spec == Init /\ [][Next]_vars

-----------------------------------------------------------------------------
(* Properties *)

\* The file of an asset is what its client uploaded, whatever is still written to
\* its inode after the rename, and whatever else is uploaded.
AssetIsWhole ==
  \A i \in DOMAIN table : LET row == table[i] IN
    row.of # NoFile /\ row.inode # 0 => data[row.inode] = Whole(row.of)

\* A request that had the table to itself leaves the active assets on 0, 1, 2, ...,
\* its own where it was asked to be (Python's list.insert, from either end).
PlacedAsAsked ==
  \A r \in Threads : LET q == request[r] IN
    Due(r, "exists") /\ q.alone /\ q.kind # "updateV1" /\ q.row.id \in ActiveSet =>
      LET n == Cardinality(ActiveSet)
          order(id) == table[At(id)].order
          asked == q.row.order IN
      /\ {order(id) : id \in ActiveSet} = 0..(n - 1)
      /\ order(q.row.id) = IF asked >= n THEN n - 1
                           ELSE IF asked >= 0 THEN asked
                           ELSE IF n - 1 + asked >= 0 THEN n - 1 + asked ELSE 0

\* Whatever is taken out of rotation, by whichever requests in whichever order: once
\* they are over the viewer has been told after the last of it.
ViewerIsTold == (\A r \in Threads : request[r] = Waiting) => untold = {}

\* "splice the row into the active play ordering": a request about one asset, with
\* the table to itself, leaves the others in the order they had.
OthersKeepOrder ==
  \A r \in Threads : LET q == request[r] IN
    Due(r, "exists") /\ q.alone /\ q.kind # "updateV1" =>
      \A i, j \in DOMAIN q.before :
        LET a == q.before[i]  b == q.before[j] IN
        /\ q.row.id \notin {a.id, b.id} /\ {a.id, b.id} \subseteq ActiveSet
        /\ a.order < b.order
        => table[At(a.id)].order < table[At(b.id)].order

\* "New assets land at the end of the active playlist" (assets_create).
NewIsLast ==
  [][\A r \in Threads : Due(r, "insert") /\ request[r].kind \in {"createForm", "createApp"}
       /\ request[r].alone /\ request'[r] = Waiting =>
       \A i \in DOMAIN table : table[i].enabled =>
         table[i].order < table'[Len(table')].order]_vars

=============================================================================
