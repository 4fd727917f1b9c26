---------------------------- MODULE ContentImport ----------------------------
(***************************************************************************)
(* Media copied from an account on another signage platform: the listing   *)
(* of the account, page by page while its owner goes on working in it, and *)
(* the import of one item after the other, as the wizard asks for them or  *)
(* the command import_content does. An import looks for an asset that      *)
(* carries the source of the item, and at the very end writes that source  *)
(* into the metadata of the asset it made. In between there is no lock:    *)
(* other imports, the celery task that was queued for the new asset (which *)
(* writes the metadata it read when it began) and deletes come at any      *)
(* point, a file may refuse to be removed, and a process may die.          *)
(***************************************************************************)
EXTENDS Naturals, Sequences, FiniteSets, SequencesExt

CONSTANTS
  Platforms,  \* the providers of an instance, see Platform
  Item,       \* media of the account
  Nature,     \* of every item, see Natures
  Session,    \* runs of an import
  Commands,   \* those that are runs of import_content, the others of the wizard
  PageSize,   \* of a listing
  MaxRetries  \* bound: retries of its failed items that a wizard is asked for

Platform == {"yodeck", "screencloud", "xibo", "pisignage"}

\* "plain": an image that is shown as it came; "media": a file that a task
\* converts or probes; "page": a web page; "closed": listed, and found to be
\* useless here (an app of the platform, a file it does not hand out);
\* "other": listed as not importable.
Natures == {"plain", "media", "page", "closed", "other"}

ASSUME ImportAssumption ==
  /\ Platforms \subseteq Platform
  /\ Nature \in [Item -> Natures]
  /\ Commands \subseteq Session
  /\ PageSize \in Nat \ {0} /\ MaxRetries \in Nat

VARIABLES
  platform,  \* the provider
  unpaged,   \* a CMS that answers every page with its whole library
  library,   \* the shelves of the account, each in the order it is listed
  known,     \* the items that were ever in it
  at,        \* what each session does
  shelf,     \* the shelf it lists
  place,     \* how far: an offset, or where the cursor of the platform stands
  listed,    \* the items it was given
  shifted,   \* (history) an offset no longer stood where its session left it
  late,      \* (history) items added to a shelf it had begun
  todo,      \* the items it has yet to import
  item,      \* the one it imports
  failed,    \* those it failed to
  tries,     \* how often it was asked to retry
  temp,      \* the downloads in assetdir
  asset,     \* the rows of imported assets
  disk,      \* their files
  task,      \* the task of each
  deleting,  \* the delete of each that is under way, and the file it read of
  excused,   \* (history) items of which imports overlapped, or one was cut off
  lost,      \* (history) items whose source a task has taken back
  litter     \* (history) assets of which a file may have been left behind

listing == <<platform, unpaged, library, known, shelf, place, listed, shifted, late>>
store == <<temp, asset, disk, task, deleting>>
progress == <<todo, item, failed, tries>>
history == <<excused, lost, litter>>
importVars == <<listing, at, progress, store, history>>

Shelves == 1..2
Row == Session \X Item \X (0..MaxRetries)
Uri == {"orig", "made"}
File == Row \X Uri

Making == {"detail", "fetch", "fetching", "prepare", "create", "dispatch",
           "order", "stamp"}
Unstamped == {"dispatch", "order", "stamp"}
Tasks == {"none", "queued", "convert", "unlink", "probed", "converted", "error",
          "reject"}
Deletes == {"none", "file", "row"}
Steps == {"idle", "list", "choose", "pick", "find", "done", "ended"} \cup Making

\* `stamped` is metadata.import_source.
NoAsset == [live |-> FALSE, stamped |-> FALSE, processing |-> FALSE, uri |-> "orig"]
NewAsset(r) == [NoAsset EXCEPT !.live = TRUE, !.processing = Nature[r[2]] = "media"]

\* What a task has read of the metadata, and how far it is.
NoTask == [at |-> "none", stamped |-> FALSE]
NoDelete == [at |-> "none", uri |-> "orig"]

\* The row that the import under way makes.
Mine(s) == <<s, item[s], tries[s]>>

\* Imports of an item that have looked for it and have not stamped theirs.
MakersOf(i) == {s \in Session : at[s] \in Making /\ item[s] = i}

\* Yodeck is asked for each type of media, the pages after the files.
YodeckShelf(i) == IF Nature[i] \in {"plain", "media"} THEN 1 ELSE 2

\* ScreenCloud has links (of which some are its own content) and files.
ScreenCloudShelf(i) == IF Nature[i] \in {"page", "closed"} THEN 2 ELSE 1

ShelfOf(i) ==
  CASE platform = "yodeck" -> YodeckShelf(i)
    [] platform = "screencloud" -> ScreenCloudShelf(i)
    [] OTHER -> 1

LastShelf == IF platform \in {"yodeck", "screencloud"} THEN 2 ELSE 1

\* Xibo and piSignage list images and videos as importable, and no more.
XiboImportable(i) == Nature[i] \notin {"page", "other"}
PiSignageImportable(i) == Nature[i] \notin {"page", "other"}

Importable(i) ==
  CASE platform = "xibo" -> XiboImportable(i)
    [] platform = "pisignage" -> PiSignageImportable(i)
    [] OTHER -> Nature[i] # "other"

-----------------------------------------------------------------------------
(* The account, which its owner may change while it is listed *)

Begun(s, b) ==
  /\ at[s] # "idle"
  /\ shelf[s] > b \/ (shelf[s] = b /\ (place[s] > 0 \/ at[s] # "list"))

Reading(s, b) == at[s] = "list" /\ shelf[s] = b /\ place[s] > 0

\* A cursor stands on an item; an offset is a number.
Keyset == platform = "screencloud"

\* A new item, in front of the others or behind them.
Add ==
  \E i \in Item \ known, front \in BOOLEAN :
    LET b == ShelfOf(i) IN
    /\ known' = known \cup {i}
    /\ library' = [library EXCEPT ![b] = IF front THEN <<i>> \o @ ELSE Append(@, i)]
    /\ late' = [s \in Session |-> IF Begun(s, b) THEN late[s] \cup {i} ELSE late[s]]
    /\ place' = [s \in Session |->
         IF Keyset /\ front /\ Reading(s, b) THEN place[s] + 1 ELSE place[s]]
    /\ shifted' = [s \in Session |->
         shifted[s] \/ (platform = "xibo" /\ front /\ Reading(s, b))]
    /\ UNCHANGED <<platform, unpaged, shelf, listed, at, progress, store, history>>

Discard ==
  \E b \in Shelves : \E k \in DOMAIN library[b] :
    LET before(s) == Reading(s, b) /\ k <= place[s] IN
    /\ library' = [library EXCEPT ![b] = RemoveAt(@, k)]
    /\ place' = [s \in Session |->
         IF Keyset /\ before(s) THEN place[s] - 1 ELSE place[s]]
    /\ shifted' = [s \in Session |-> shifted[s] \/ (~Keyset /\ before(s))]
    /\ UNCHANGED <<platform, unpaged, known, shelf, listed, late, at, progress,
                   store, history>>

-----------------------------------------------------------------------------
(* The listing *)

Go(s, step) == at' = [at EXCEPT ![s] = step]

\* validate_token(): accepted, or refused or out of reach.
Validate(s) ==
  /\ at[s] = "idle"
  /\ Go(s, "list") \/ Go(s, "ended")
  /\ UNCHANGED <<listing, progress, store, history>>

\* The places of the next page: the platform's answer to _paginate().
Page(s) ==
  LET q == library[shelf[s]] IN
  IF platform = "pisignage" \/ unpaged THEN DOMAIN q
  ELSE {k \in DOMAIN q : place[s] < k /\ k <= place[s] + PageSize}

Batch(s) == {library[shelf[s]][k] : k \in Page(s)}

\* Yodeck tells whether there is more, and is asked from the number of items
\* it has listed.
YodeckLast(s) == place[s] + PageSize >= Len(library[shelf[s]])

\* ScreenCloud tells it too, and from which item.
ScreenCloudLast(s) == place[s] + PageSize >= Len(library[shelf[s]])

\* Mutant: Xibo is asked until it has less than a page.
XiboLastShort(s) == Cardinality(Page(s)) < PageSize

\* Xibo is asked until it has nothing new, or less than a page.
XiboLast(s) == Batch(s) \subseteq listed[s] \/ Cardinality(Page(s)) < PageSize

LastPage(s) ==
  CASE platform = "pisignage" -> TRUE
    [] platform = "xibo" -> XiboLast(s)
    [] platform = "yodeck" -> YodeckLast(s)
    [] platform = "screencloud" -> ScreenCloudLast(s)

\* Mutant: the offset is one too far.
AdvanceTooFar(s) == PageSize + 1

Advance(s) == IF platform = "xibo" THEN PageSize ELSE Cardinality(Page(s))

\* A CMS that does not page takes no notice of the offset, of which two values
\* are enough then.
Onward(s) ==
  IF ~unpaged THEN place[s] + Advance(s)
  ELSE IF place[s] = PageSize THEN 2 * PageSize ELSE PageSize

\* One request. A failed one gives up the whole listing.
List(s) ==
  /\ at[s] = "list"
  /\ \/ /\ listed' = [listed EXCEPT ![s] = @ \cup Batch(s)]
        /\ IF ~LastPage(s)
           THEN /\ place' = [place EXCEPT ![s] = Onward(s)]
                /\ UNCHANGED <<shelf, at>>
           ELSE IF shelf[s] < LastShelf
           THEN /\ shelf' = [shelf EXCEPT ![s] = @ + 1]
                /\ place' = [place EXCEPT ![s] = 0]
                /\ UNCHANGED at
           ELSE Go(s, "choose") /\ UNCHANGED <<shelf, place>>
     \/ Go(s, "ended") /\ UNCHANGED <<shelf, place, listed>>
  /\ UNCHANGED <<platform, unpaged, library, known, shifted, late, progress,
                 store, history>>

\* The command imports all it can, the wizard what is ticked.
Choose(s) ==
  /\ at[s] = "choose"
  /\ LET all == {i \in listed[s] : Importable(i)} IN
     IF s \in Commands THEN todo' = [todo EXCEPT ![s] = all]
     ELSE \E some \in SUBSET all : todo' = [todo EXCEPT ![s] = some]
  /\ Go(s, "pick")
  /\ UNCHANGED <<listing, item, failed, tries, store, history>>

-----------------------------------------------------------------------------
(* The import of an item *)

\* An exception that import_item() expects: the next item's turn.
Fail(s) ==
  /\ failed' = [failed EXCEPT ![s] = @ \cup {item[s]}]
  /\ Go(s, "pick")

\* Any other ends the command; the wizard is answered 500, and goes on.
Raise(s) ==
  /\ failed' = [failed EXCEPT ![s] = @ \cup {item[s]}]
  /\ Go(s, IF s \in Commands THEN "ended" ELSE "pick")

Pick(s) ==
  /\ at[s] = "pick"
  /\ IF todo[s] = {} THEN Go(s, "done") /\ UNCHANGED <<todo, item>>
     ELSE \E i \in todo[s] :
            /\ todo' = [todo EXCEPT ![s] = @ \ {i}]
            /\ item' = [item EXCEPT ![s] = i]
            /\ Go(s, "find")
  /\ UNCHANGED <<listing, failed, tries, store, history>>

\* find_imported_asset()
Imported(i) == \E r \in Row : r[2] = i /\ asset[r].live /\ asset[r].stamped

Find(s) ==
  /\ at[s] = "find"
  /\ IF Imported(item[s]) THEN Go(s, "pick") /\ UNCHANGED excused
     ELSE /\ Go(s, "detail")
          /\ excused' = IF MakersOf(item[s]) = {} THEN excused
                        ELSE excused \cup {item[s]}
  /\ UNCHANGED <<listing, progress, store, lost, litter>>

\* The platform is asked for the item: it may be gone, or the platform out of
\* reach, or the credentials no longer be good.
Present(i) == \E b \in Shelves : i \in Range(library[b])

\* A page of Yodeck's own, and a file it does not hand out, are skipped.
YodeckItem(s) ==
  /\ platform = "yodeck" /\ Present(item[s])
  /\ Go(s, CASE Nature[item[s]] = "page" -> "prepare"
             [] Nature[item[s]] = "closed" -> "pick"
             [] OTHER -> "fetch")

\* Links of ScreenCloud's own, and those without an address, are skipped.
ScreenCloudLink(s) ==
  /\ platform = "screencloud" /\ Present(item[s])
  /\ Nature[item[s]] \in {"page", "closed"}
  /\ Go(s, IF Nature[item[s]] = "page" THEN "prepare" ELSE "pick")

ScreenCloudFile(s) ==
  /\ platform = "screencloud" /\ Present(item[s])
  /\ Nature[item[s]] \notin {"page", "closed"}
  /\ Go(s, "fetch")

\* The download has the address of the item; what has become of another type
\* is skipped.
XiboItem(s) ==
  /\ platform = "xibo" /\ Present(item[s])
  /\ Go(s, IF Nature[item[s]] = "closed" THEN "pick" ELSE "fetch")

\* A file of which piSignage does not tell the path is skipped.
PiSignageItem(s) ==
  /\ platform = "pisignage" /\ Present(item[s])
  /\ Go(s, IF Nature[item[s]] = "closed" THEN "pick" ELSE "fetch")

Detail(s) ==
  /\ at[s] = "detail"
  /\ \/ /\ \/ YodeckItem(s) \/ ScreenCloudLink(s) \/ ScreenCloudFile(s)
           \/ XiboItem(s) \/ PiSignageItem(s)
        /\ UNCHANGED failed
     \/ Fail(s)
  /\ UNCHANGED <<listing, todo, item, tries, store, history>>

\* _download_to_assetdir(), to a name of its own that ends in .part
Fetch(s) ==
  /\ at[s] = "fetch"
  /\ temp' = temp \cup {<<Mine(s), "part">>}
  /\ Go(s, "fetching")
  /\ UNCHANGED <<listing, progress, asset, disk, task, deleting, history>>

\* Mutant: only the .part is removed.
UnlinkedPart(s) == temp \ {<<Mine(s), "part">>}

\* _safe_unlink() of both names
Unlinked(s) == temp \ {<<Mine(s), name>> : name \in {"part", "staged"}}

\* The whole of it takes its name; else (an answer, a size, a transport error:
\* Fail; a full disk: Raise) both names are removed.
Fetched(s) ==
  /\ at[s] = "fetching"
  /\ \/ /\ temp' = Unlinked(s) \cup {<<Mine(s), "staged">>}
        /\ Go(s, "prepare")
        /\ UNCHANGED failed
     \/ /\ temp' = Unlinked(s)
        /\ Fail(s) \/ Raise(s)
  /\ UNCHANGED <<listing, todo, item, tries, asset, disk, task, deleting, history>>

\* is_valid(), which gives the file the name of the asset; what is refused is
\* removed. A web page has no file.
Prepare(s) ==
  /\ at[s] = "prepare"
  /\ temp' = Unlinked(s)
  /\ \/ /\ disk' = IF Nature[item[s]] = "page" THEN disk
                   ELSE disk \cup {<<Mine(s), "orig">>}
        /\ Go(s, "create")
        /\ UNCHANGED failed
     \/ /\ Fail(s) \/ Raise(s)
        /\ UNCHANGED disk
  /\ UNCHANGED <<listing, todo, item, tries, asset, task, deleting, history>>

\* persist_new_asset(). If the database refuses the row, the file has its
\* final name already, and stays for the hourly cleanup.
Create(s) ==
  /\ at[s] = "create"
  /\ \/ /\ asset' = [asset EXCEPT ![Mine(s)] = NewAsset(Mine(s))]
        /\ Go(s, "dispatch")
        /\ UNCHANGED <<failed, litter>>
     \/ /\ Raise(s)
        /\ litter' = litter \cup {Mine(s)}
        /\ UNCHANGED asset
  /\ UNCHANGED <<listing, todo, item, tries, temp, disk, task, deleting, excused,
                 lost>>

\* What an import that ends here leaves unstamped
Left(s) == IF at[s] \in Unstamped THEN {item[s]} ELSE {}

\* The task of a file is queued, unless the broker is away.
Dispatch(s) ==
  /\ at[s] = "dispatch"
  /\ \/ /\ task' = IF Nature[item[s]] = "media"
                   THEN [task EXCEPT ![Mine(s)].at = "queued"] ELSE task
        /\ Go(s, "order")
        /\ UNCHANGED <<failed, excused>>
     \/ /\ Nature[item[s]] = "media"
        /\ Raise(s)
        /\ excused' = excused \cup Left(s)
        /\ UNCHANGED task
  /\ UNCHANGED <<listing, todo, item, tries, temp, asset, disk, deleting, lost,
                 litter>>

\* The play order, which is in AssetTable, then the row as it is now; it may
\* have been deleted.
Order(s) ==
  /\ at[s] = "order"
  /\ IF asset[Mine(s)].live THEN Go(s, "stamp") /\ UNCHANGED failed ELSE Raise(s)
  /\ UNCHANGED <<listing, todo, item, tries, store, history>>

\* Mutant: web pages are not stamped.
SourcedFiles(s) == [asset EXCEPT ![Mine(s)].stamped = Nature[item[s]] # "page"]

\* The metadata as read, and the source
Sourced(s) == [asset EXCEPT ![Mine(s)].stamped = TRUE]

\* _stamp_import_source()
Stamp(s) ==
  /\ at[s] = "stamp"
  /\ IF asset[Mine(s)].live
     THEN asset' = Sourced(s) /\ Go(s, "pick") /\ UNCHANGED failed
     ELSE Raise(s) /\ UNCHANGED asset
  /\ UNCHANGED <<listing, todo, item, tries, temp, disk, task, deleting, history>>

\* The process that serves the import dies.
Die(s) ==
  /\ at[s] \in Making \cup {"find"}
  /\ Raise(s)
  /\ excused' = excused \cup Left(s)
  /\ litter' = litter \cup {Mine(s)}
  /\ UNCHANGED <<listing, todo, item, tries, store, lost>>

\* retryFailed() of the wizard
Retry(s) ==
  /\ at[s] = "done" /\ s \notin Commands
  /\ failed[s] # {} /\ tries[s] < MaxRetries
  /\ todo' = [todo EXCEPT ![s] = failed[s]]
  /\ failed' = [failed EXCEPT ![s] = {}]
  /\ tries' = [tries EXCEPT ![s] = @ + 1]
  /\ Go(s, "pick")
  /\ UNCHANGED <<listing, item, store, history>>

-----------------------------------------------------------------------------
(* The task of a new asset, whose retries are in AssetPipeline, and the      *)
(* requests that delete it, one at a time                                    *)

Step(r, step) == task' = [task EXCEPT ![r].at = step]

Take(r) ==
  /\ task[r].at = "queued"
  /\ task' = [task EXCEPT ![r] =
       IF asset[r].live /\ asset[r].processing
       THEN [at |-> "convert", stamped |-> asset[r].stamped] ELSE NoTask]
  /\ UNCHANGED <<listing, at, progress, temp, asset, disk, deleting, history>>

\* A video is only probed; an image gets another name, and loses its first
\* before the row has the new one. What is gone, or cannot be decoded, fails.
Convert(r) ==
  /\ task[r].at = "convert"
  /\ \/ /\ <<r, "orig">> \in disk
        /\ <<r, "made">> \notin disk
        /\ Step(r, "probed")
        /\ UNCHANGED <<disk, litter>>
     \/ /\ <<r, "orig">> \in disk
        /\ disk' = disk \cup {<<r, "made">>}
        /\ litter' = IF asset[r].live THEN litter ELSE litter \cup {r}
        /\ Step(r, "unlink")
     \/ Step(r, "error") /\ UNCHANGED <<disk, litter>>
  /\ UNCHANGED <<listing, at, progress, temp, asset, deleting, excused, lost>>

\* remove(), of which an OSError is logged and no more
Removal(f) ==
  \/ disk' = disk \ {f} /\ UNCHANGED litter
  \/ f \in disk /\ litter' = litter \cup {f[1]} /\ UNCHANGED disk

Unlink(r) ==
  /\ task[r].at = "unlink"
  /\ Removal(<<r, "orig">>)
  /\ Step(r, "converted")
  /\ UNCHANGED <<listing, at, progress, temp, asset, deleting, excused, lost>>

\* A source that was written since a task read the metadata which it now writes
TakenBack(r) ==
  lost' = IF asset[r].stamped /\ ~task[r].stamped THEN lost \cup {r[2]} ELSE lost

\* The metadata that is written is that of the beginning.
Commit(r) ==
  /\ task[r].at \in {"probed", "converted"}
  /\ asset' = IF ~asset[r].live THEN asset
       ELSE [asset EXCEPT ![r] =
               [live |-> TRUE, stamped |-> task[r].stamped, processing |-> FALSE,
                uri |-> IF task[r].at = "probed" THEN "orig" ELSE "made"]]
  /\ TakenBack(r)
  /\ task' = [task EXCEPT ![r] = NoTask]
  /\ UNCHANGED <<listing, at, progress, temp, disk, deleting, excused, litter>>

\* _set_processing_error() reads the row anew,
RejectRead(r) ==
  /\ task[r].at = "error"
  /\ task' = [task EXCEPT ![r] =
       IF asset[r].live THEN [at |-> "reject", stamped |-> asset[r].stamped]
       ELSE NoTask]
  /\ UNCHANGED <<listing, at, progress, temp, asset, disk, deleting, history>>

\* and in a second statement writes all of its metadata.
RejectWrite(r) ==
  /\ task[r].at = "reject"
  /\ asset' = IF ~asset[r].live THEN asset
       ELSE [asset EXCEPT ![r] = [@ EXCEPT !.processing = FALSE,
                                           !.stamped = task[r].stamped]]
  /\ TakenBack(r)
  /\ task' = [task EXCEPT ![r] = NoTask]
  /\ UNCHANGED <<listing, at, progress, temp, disk, deleting, excused, litter>>

\* The worker is killed, or the message was lost.
TaskDies(r) ==
  /\ task[r].at # "none"
  /\ task' = [task EXCEPT ![r] = NoTask]
  /\ litter' = IF task[r].at \in {"unlink", "converted"} THEN litter \cup {r} ELSE litter
  /\ UNCHANGED <<listing, at, progress, temp, asset, disk, deleting, excused, lost>>

\* The reconciler queues the task again, long after an import that is still
\* alive has stamped the row.
Requeue(r) ==
  /\ asset[r].live /\ asset[r].processing /\ task[r].at = "none"
  /\ \A s \in Session : at[s] \in Unstamped => Mine(s) # r
  /\ Step(r, "queued")
  /\ UNCHANGED <<listing, at, progress, temp, asset, disk, deleting, history>>

\* A request to delete an asset reads its row,
DeleteLoad(r) ==
  /\ asset[r].live /\ deleting[r].at = "none"
  /\ deleting' = [deleting EXCEPT ![r] = [at |-> "file", uri |-> asset[r].uri]]
  /\ UNCHANGED <<listing, at, progress, temp, asset, disk, task, history>>

\* removes the file that this names (the address of a page names none),
DeleteFile(r) ==
  /\ deleting[r].at = "file"
  /\ Removal(<<r, deleting[r].uri>>)
  /\ deleting' = [deleting EXCEPT ![r].at = "row"]
  /\ UNCHANGED <<listing, at, progress, temp, asset, task, excused, lost>>

\* and then the row, which may have another file by now, or be about to.
DeleteRow(r) ==
  /\ deleting[r].at = "row"
  /\ asset' = [asset EXCEPT ![r] = NoAsset]
  /\ litter' = IF \/ task[r].at \in {"unlink", "converted"}
                  \/ asset[r].uri # deleting[r].uri
               THEN litter \cup {r} ELSE litter
  /\ deleting' = [deleting EXCEPT ![r] = NoDelete]
  /\ UNCHANGED <<listing, at, progress, temp, disk, task, excused, lost>>

\* The process that serves the request dies.
DeleteDies(r) ==
  /\ deleting[r].at # "none"
  /\ deleting' = [deleting EXCEPT ![r] = NoDelete]
  /\ UNCHANGED <<listing, at, progress, temp, asset, disk, task, history>>

-----------------------------------------------------------------------------
Init ==
  /\ platform \in Platforms
  /\ unpaged \in {FALSE, platform = "xibo"}
  /\ library = [b \in Shelves |-> <<>>]
  /\ known = {}
  /\ at = [s \in Session |-> "idle"]
  /\ shelf = [s \in Session |-> 1]
  /\ place = [s \in Session |-> 0]
  /\ listed = [s \in Session |-> {}]
  /\ shifted = [s \in Session |-> FALSE]
  /\ late = [s \in Session |-> {}]
  /\ todo = [s \in Session |-> {}]
  /\ item \in [Session -> Item]
  /\ failed = [s \in Session |-> {}]
  /\ tries = [s \in Session |-> 0]
  /\ temp = {}
  /\ asset = [r \in Row |-> NoAsset]
  /\ disk = {}
  /\ task = [r \in Row |-> NoTask]
  /\ deleting = [r \in Row |-> NoDelete]
  /\ excused = {} /\ lost = {}
  /\ litter = {}

\* What an import does next, in one request or one statement
Continue(s) ==
  \/ List(s) \/ Choose(s) \/ Pick(s) \/ Find(s) \/ Detail(s) \/ Fetch(s)
  \/ Fetched(s) \/ Prepare(s) \/ Create(s) \/ Dispatch(s) \/ Order(s) \/ Stamp(s)

Account == Add \/ Discard
Import(s) == Validate(s) \/ Continue(s) \/ Die(s) \/ Retry(s)
Task(r) == \/ Take(r) \/ Convert(r) \/ Unlink(r) \/ Commit(r) \/ RejectRead(r)
           \/ RejectWrite(r) \/ TaskDies(r) \/ Requeue(r)
Delete(r) == DeleteLoad(r) \/ DeleteFile(r) \/ DeleteRow(r) \/ DeleteDies(r)
Others(r) == Task(r) \/ Delete(r)

ImportNext ==
  \/ Account
  \/ \E s \in Session : Import(s)
  \/ \E r \in Row : Others(r)

ImportSpec == Init /\ [][ImportNext]_importVars

-----------------------------------------------------------------------------
TempOf(s) ==
  CASE at[s] = "fetching" -> {<<Mine(s), "part">>}
    [] at[s] = "prepare" /\ Nature[item[s]] # "page" -> {<<Mine(s), "staged">>}
    [] OTHER -> {}

ImportTypeOK ==
  /\ platform \in Platforms /\ unpaged \in BOOLEAN
  /\ library \in [Shelves -> Seq(Item)] /\ known \in SUBSET Item
  /\ at \in [Session -> Steps] /\ shelf \in [Session -> Shelves]
  /\ place \in [Session -> Nat]
  /\ listed \in [Session -> SUBSET Item] /\ late \in [Session -> SUBSET Item]
  /\ shifted \in [Session -> BOOLEAN]
  /\ todo \in [Session -> SUBSET Item] /\ item \in [Session -> Item]
  /\ failed \in [Session -> SUBSET Item] /\ tries \in [Session -> 0..MaxRetries]
  /\ temp \in SUBSET (Row \X {"part", "staged"})
  /\ asset \in [Row -> [live : BOOLEAN, stamped : BOOLEAN, processing : BOOLEAN, uri : Uri]]
  /\ disk \in SUBSET File
  /\ task \in [Row -> [at : Tasks, stamped : BOOLEAN]]
  /\ deleting \in [Row -> [at : Deletes, uri : Uri]]
  /\ excused \in SUBSET Item /\ lost \in SUBSET Item /\ litter \in SUBSET Row

\* find_imported_asset(): an item is imported once, however often imports run,
\* fail and are repeated. The exceptions: two imports of it overlapped, one
\* ended between its row and its stamp, or the task wrote metadata that it had
\* read before the stamp.
NoTwins ==
  \A r, q \in Row :
    r[2] = q[2] /\ asset[r].live /\ asset[q].live => r = q \/ r[2] \in excused \cup lost

\* A listing that ended well names all that is in the account, but what was
\* added behind its back, or slipped past an offset that no longer stood where
\* the page before it had ended.
NothingMissed ==
  \A s \in Session : \A b \in Shelves :
    at[s] \notin {"idle", "list", "ended"} /\ ~shifted[s]
      => Range(library[b]) \subseteq listed[s] \cup late[s]

\* create_file_asset() and _download_to_assetdir(): in assetdir there is no
\* download but that of an import under way, and no file without its row,
\* unless a process died, the database refused the row, a file refused to be
\* removed (delete_asset_with_file() then deletes the row all the same), or the
\* asset was deleted while its task had two files of it, or gave it another one
\* after the delete had read its row.
NothingLeftOver ==
  /\ \A f \in temp : f[1] \in litter \/ \E s \in Session : f \in TempOf(s)
  /\ \A f \in disk : f[1] \in litter \/ asset[f[1]].live
                     \/ \E s \in Session : at[s] = "create" /\ f[1] = Mine(s)

\* An import that was begun comes to its end: every page and every item gets
\* its answer, also from a CMS that does not page and an account that grows.
SessionEnds ==
  \A s \in Session : at[s] = "list" ~> at[s] \in {"done", "ended"}

=============================================================================
