# Formal models of the Anthias player

This directory holds TLA+ models of the parts of this repository (Anthias, a
digital signage player) whose correctness depends on the order in which things
happen: threads of the viewer that share variables without a lock, a browser
process that dies at any time, commands and answers that get lost or come late,
requests of the server that overlap, background tasks that are killed and run
again. The models are translated from the source under `src/`, checked by TLC
on small instances, and every safety property that the runs check is also
proved with TLAPS for every value of the constants that satisfies the stated
hypotheses (a pool of one process for the asset pipeline, no torn write for the
watchdog).

Contents: [the system](#the-system) ·
[modules](#the-modules-and-the-code) ·
[runs](#the-runs-and-what-they-show) ·
[bounds](#the-bounds-and-why-they-are-enough) ·
[fairness](#fairness) ·
[where the code and its docs disagree](#where-the-code-and-its-docs-disagree) ·
[proofs](#what-is-proved) ·
[what is not modelled](#what-is-not-modelled) ·
[plan](#plan)

To check a run: `tlc -workers 2 -config Scheduler.cfg MCScheduler`. To check
the proofs: `tlapm SchedulerProofs.tla`. `PROJECT.json` lists the runs, the
source lines of every definition, the hazards and, for every property of a
run, a mutant of the code model that the property catches.

## The system

Four processes run on a device:

    browser ──HTTP──> server (Django) ──> assets table (SQLite), assetdir
                         │      │                 ^           ^
                         │      └─task─> celery ──┴───────────┘
                         │ redis pub/sub           (worker pool and beat)
                         v
       viewer (Python): subscriber thread ─┐ shared variables, no lock
                        main thread ───────┴─D-Bus─> AnthiasViewer (Qt)
                                     └─ spawns ──> GStreamer / mpv / VLC

| component | state it keeps | operations | interacts with | what is hard | what makes it correct |
|---|---|---|---|---|---|
| Scheduler (`anthias_viewer/scheduling.py`) | the cached playlist, position, counter, deadline, database mtime, `extra_asset`, `reverse`, `current_asset_id` | `get_next_asset`, `refresh_playlist`, `update_playlist`, `get_specific_asset` | reads the table the server commits to; two fields are written by the subscriber thread | a commit between the `stat` and the query; a list that shrinks under the position; a boundary that passes between check and use | the position is in the list, no commit is lost, the deadline fires before the list is wrong, every active asset gets its turn |
| Asset loop and playback commands (`anthias_viewer/__init__.py`, `playback.py`) | `loop_is_stopped`, `display_blanked`, `skip_event`, `_rotation_bounce_pending`, the latched launch settings, `current_browser_url`, the webview process | `asset_loop`, `view_*`, `load_browser`, `_send_to_webview`; the handlers of `blank`, `unblank`, `stop`, `play`, `next`, `previous`, `asset`, `reload` | both threads; the webview | every statement of a handler can fall between two statements of the loop; the webview dies anywhere | the unchanged-URL shortcut never hides a wrong screen, a blanked display goes dark, a deactivated asset leaves, no settings change is lost |
| Page and image loading (`anthias_webview/src/view.cpp`) | load generation, pending page, watchdog, reload timer, staged headers, pending network replies, what is painted | the D-Bus slots `loadPage`, `loadImage`, `playVideo`, `stopVideo`, `setRequestHeaders`, `setReloadInterval`; ends of loads, replies, timers | called by the viewer, several calls for one asset | results of an overtaken load; a load that never ends; headers staged by one call and used by another | only the latest asset is painted, no page is given up, headers and timers belong to the page |
| linuxfb media player (`anthias_viewer/media_player.py`) | `MediaPlayerProxy.INSTANCE`, `_proc` | `get_instance`, `play`, `stop`, `is_playing`, `reset` | main thread and, on a rotation change, subscriber thread | `reset()` overlaps `play()` and `stop()` | no GStreamer process keeps the framebuffer |
| Compositor watchdog (`anthias_viewer/__init__.py`) | `_headless_wedge_since`, a file with boot id and number of restarts | one check for every turn of the loop; restart of the container | the compositor, the kernel's connectors | crash between the write and the exit; a failing probe or write; a display replaced in between | restarts are bounded, a good display is bound in the end |
| Asset processing (`anthias_server/processing.py`, `celery_tasks.py`, upload, edit and delete views) | the row (`is_processing`, `processing_started_at`, `uri`, error, `is_enabled`), the files, the broker queue | upload, `download_*`, `normalize_*`, retry and `on_failure`, `reconcile_stuck_processing`, `cleanup`, edit, delete | the server and all processes of the pool | tasks killed between two writes; a task duplicated; a save of a stale row; a sweep over a file about to be used | what leaves processing is playable, nothing stays in processing, no file is lost or leaked |
| Viewer subscriber (`anthias_viewer/messaging.py`, `settings.py`) | connection, readiness key, back-off | subscribe, announce, dispatch by topic, reconnect | redis; calls the handlers above | messages published while nobody listens; a handler that raises; an outage in the middle of anything | in order, at most once, and the subscription comes back |
| Request and reply (`settings.py`, `api/views/v1.py`) | one redis list for each request, expiring after 30 s | send, collect with timeout | server and viewer | late replies, requests in parallel | a reply reaches its own request or none, and goes away |
| Webview video surface (`anthias_webview/src/videoview.cpp`) | session, gate, mailbox, shared frame, pipelines | play, stop, frames, paints, bus messages | View, Qt, GStreamer with its streaming thread | frames overtaken by stops; a queued stop; failures of each pipeline | nothing stopped returns, the newest frame is painted, clips loop |
| Settings file (`settings.py`, `app/views.py`, `api/views/v2.py`, `lib/auth.py`) | one ini file, one object for all threads of the server, the viewer's copy | load, save, every request that saves | server threads, viewer, account of the operator | a file that is empty while it is written; loads in the middle of a save; a full disk | nobody is locked out, a save is exact, the viewer catches up |
| Reachability sweep and recheck (`celery_tasks.py`) | redis keys with a TTL, `is_reachable` | sweep, recheck one asset, release a lock by its token | beat, requests, processes of the pool | a sweep that is killed or outlives its lock; keys that are lost | one sweep at a time, no release of another's lock, verdicts in the end |
| Resumable uploads (`api/views/mixins.py`) | one staged file for each upload id | write a chunk in place, truncate, rename into an asset | browser, asset table | chunks reordered, repeated, in parallel; a restart with a shorter file | the file of an asset is what was uploaded |
| Asset table (`api/views/*.py`, `api/helpers.py`, `app/views.py`) | the rows | create, edit, order, bulk actions, delete | dashboard, API, viewer | requests interleaved statement by statement, without transactions | the asked order, and a viewer that hears of every removal |
| Play windows (`app/models.py`) | none | `is_active`, `has_window_filter`, validation | scheduler, API | windows over midnight and the turn of a week | the window is open exactly in the intervals it says |
| Content importers (`lib/content_import/*.py`, `import_content`, the wizard) | how far a listing is, the items yet to import, the downloads, `metadata.import_source` of the assets | list an account, look for an imported asset, download, create, stamp, retry | another platform's API, asset table, celery tasks | listing by offset while the account changes; the look for an imported asset and its stamp are far apart; a task writes back the metadata it read before | nothing is imported twice, missed or left over, and an import ends |
| Backup and restore (`lib/backup_helper.py`, the views of both) | the archive, a pipe between a thread and a generator, the upload | stream a backup; stop the viewer, store the upload, unpack, play | browser, assetdir, database, importers | files that go while they are listed; the pipe is closed before the error is handed over; the client leaves | a backup that ends well is whole, every backup ends, a restore lets the viewer go |
| Webview launcher (`load_browser`, `_spawn_webview_once`) | the process handle and its startup output | spawn, wait for readiness, back off | D-Bus, Qt | a process that starts but never registers | either a ready process or a retry |
| mpv and VLC players | the process or the D-Bus video | `play`, `stop` | webview | process lifetime | as the linuxfb player |
| Display resolution publisher | one redis key | write periodically | server | none of its own | – |
| Rotation, main window | widgets | rotate once, register on D-Bus | view | – | – |
| Power, display, telemetry tasks | none | external commands | CEC, host agent | retries | – |
| REST API and serializers | none | validate, format, publish | table, redis | five versions of one format | – |
| Dashboard | none | render, forms, WebSocket nudge | table, redis | best-effort refresh | – |
| Authentication, CSRF, internal token | sessions | check one request | every view | – | – |
| Diagnostics, telemetry, GitHub, time zone | caches | reads | system, HTTP | – | – |
| Export to Screenly | none | one upload for each asset | another service | – | – |
| Migrations, `create_backup()` of the API | archives | sequential file work | table, assetdir | – | – |
| Host agent | none | one host command per message | redis | – | – |
| Common helpers | none | pure functions, probes | all | – | – |
| Installer, images, website | – | shell, Docker | – | – | – |

The rows above the webview launcher are modelled, of the asset pipeline and of
backup and restore the greater part; the account of the operator is modelled with the settings. The status of every component, with the reason for those left
out, is in `PROJECT.json`.

## The modules and the code

Each component has one module; the instances for TLC are in `MC...` modules, one
for each component, but for two that hold the instances of two components
side by side: `MCDisplay` (`GstPlayer` and `WaylandWatchdog`, which are on different
boards) and `MCTransfers` (`ContentImport` and `Archive`).
The proofs are in eight modules: `SchedulerProofs` (with those of `PlayWindow`),
`PlaybackProofs`, `PageLoadProofs`, `DisplayProofs` (`GstPlayer`,
`WaylandWatchdog` and `VideoSurface`), `StorageProofs`
(`SettingsFile` and `AssetPipeline`), `ViewerCommandsProofs` (with `CommandChannel`),
`ServerProofs` (`Reachability`, and `AssetTable` with `ChunkedUpload`) and
`TransferProofs` (`ContentImport` and `Archive`).
Components that share a module with another one prefix the names that the other one
has too (`GstSpec`, `WatchdogSpec`, `PipelineSpec`, `ReachSpec`, `ImportSpec`,
`ArchiveSpec`). Four modules are composed:
`AssetTable` extends `ChunkedUpload`, whose uploads become its assets;
`Archive` extends `ContentImport`, whose assets and files a backup reads while
they change; `ViewerCommands` implements `CommandChannel`, its abstract specification; and
`MCScheduler` takes the windows of its assets from `PlayWindow`. The others meet
at values that the one produces and the other takes as any value, as said
below. An action stands for everything the code does between two points where
another thread, process or callback can get in. Statements that touch only
local state are merged with the next shared access. Definitions whose comment
starts with `Mutant:` are not part of the model; they are the plausible bugs
against which the properties are tested. The types of the
variables are `TypeOK`, which the proofs rest on; no run of `PROJECT.json` lists
it, as a value of another type breaks a run anyway or changes nothing.
`Reachability_recheck.cfg` checks the one of Reachability.

### Scheduler

`get_next_asset()` runs on the main thread. `pc` says between which two of its
reads the main thread is:

| action | code |
|---|---|
| `Main` at `idle` … `return` | the `extra_asset` branch: the jump, with its lookup by id, and the rejection of an asset that is gone or still in processing |
| `Main` at `refresh`, `stamp`, `build` | `refresh_playlist()` and `update_playlist()`: deadline and mtime checks, the `stat` before the query, the query, the repair of the index, the next deadline |
| `Main` at `pick` | the `reverse` branch or the next position, the counter, the end-of-cycle reshuffle |
| `Previous`, `Navigate` | `playback.py`: the subscriber thread writes `reverse` and `extra_asset` |
| `Environment` | a commit of the server, which replaces rows and bumps the mtime; a change of `shuffle_playlist`; the clock |

`assets`, `index`, `counter`, `deadline`, `lastMtime`, `extra`, `reverse` and
`currentId` are the attributes of `Scheduler`. A row keeps the columns the
scheduler reads. A play window is the set of instants at which it is open.
`shown` and `genTime` are history variables for the properties.

### PlayWindow

`MatchesPlayWindow`, `HasWindowFilter` and `GetPlayDays` are the functions of
`models.py` on a local time (a day and a time of it); `ValidPlayDays` and
`ValidTimeWindow` what the serializers let through. `InWindow` is the reference:
an interval of so many units since the midnight of each day that is listed.

### Playback

One `pc` for the main thread and a list `todo` for the subscriber thread:
`Receive(c)` puts the shared writes of a handler in order (`blank`: blank,
stop, off, skip), and each `Subscriber` step performs one, so that the main
thread can run between any two of them. `Main` is `asset_loop()`, `view_image`,
`view_webpage`, `view_video`, `load_browser` and `_send_to_webview` with its
one retry; `GiveUp` is the exception that ends the process when the second
attempt fails; `Restart` its container. `ProcessDies` and `TermEnds` are the
webview process, which is `term` between the signal and its end. What
`get_next_asset()` returns is any active asset: a choice wider than what
Scheduler makes, so what holds here holds for its choices.

### GstPlayer

`GstFbdevMediaPlayer` and `MediaPlayerProxy` statement by statement on both
threads, with `procOf[x]` for `_proc` and the set `alive` of real processes.
`raced` records that a `reset()` overlapped a call of the main thread. Waiting
for a video is not such an overlap.

### PageLoad

The `AnthiasViewer` process is single-threaded, so a D-Bus call, the end of a
navigation, a network reply and a timer are one action each over the record
`view`: `Call`, `NavigationEnds`, `ReplyArrives`/`ReplyFails`, `Watchdog`,
`Reload`, `Frame`. `ViewWebpage`, `ViewImage` and `ViewVideo` start the
sequence of calls the viewer makes for an asset; anything above can happen
between two calls of a sequence, and so can `Crash`. The four pointers of the
C++ class to web views name one view in this code, and so do they here.

### WaylandWatchdog

`Watchdog` is one call of `_wayland_output_watchdog()` with its branches: no
display or bound (the episode ends), a wedge seen, the grace window, the budget
and the restart (write, then exit). `file` is the budget file, which may be
unreadable or from another boot; `Plug`, `Crash` and `Reboot` are the
environment.

### AssetPipeline

One asset, its `row`, its files on `disk` and the messages in `queue` (a bag:
the broker may hold a task twice). Each process of the pool has the step it is
at and the row it read when it began, because the tasks write metadata from
that snapshot. Time is `Age`, an hour that passes while nothing runs: a stamp and
the files get old, which is the threshold of `reconcile_stuck_processing` and
of `cleanup`. `Kill` is SIGKILL (messages are acknowledged when taken, so the
task is lost), `OsError` a retried error, and a message may fail to be queued.
`Header` is `needs_low_ram_image_downscale()`, which takes a header it cannot read for an image
that fits; `Unlink` may fail, and so may the removal of a delete. `swallowed` has what a task passed over.
`EditLoad`/`EditSave` and `Delete...` are requests, which read and write the
whole row. Storing an upload may meet a full disk, and the reconciler its soft
time limit. `probe_video_duration` is left out: nothing dispatches it any more.

### CommandChannel and ViewerCommands

`CommandChannel` is what the path of commands promises: commands are numbered,
each is handled at most once and in order, any may be lost, none waits for ever.
`ViewerCommands` is the code: `Subscribe`, `Announce`, `Notice`, `Unready` and
`Wake` are the loop of `ViewerSubscriber.run()` with its back-off, `Dispatch` and
`Done` one message, `Push` and `Expire` the two commands of a reply, `Collect` and
`TimeOut` the view that waits for it. `Boot`, `CreateScheduler` and `Crash` are
the process of the viewer; `Outage`, `Recover`, `Drop` and `Vanish` are redis. The
handlers return, raise (`previous` and `asset` before the scheduler exists) or
answer; what they do to playback is in `Playback`. The run checks the refinement
with its fairness (`ImplementsChannel`).

### VideoSurface

The GUI thread runs one slot, paint or bus message at a time; the streaming
thread stashes a frame (`Stash`) and then tests the flag (`Post`), while `Take`
and `Draw` drain it. `Decode` is QMediaPlayer, whose signal is queued (`posted`): `Deliver`
takes the next call of that queue, whatever was stopped or played since it was queued, and `overdue` are the frames
that a stop found there. `Deliver` and `Paint` are the gate of the raster widget
(`ready`, `dirty`) with its mailbox `parked`. `Preroll`, `Ends`, `Loop` and
`AudioTurns` are the life of the two pipelines; `Fails`, `QueueStop` and
`QueuedStop` an error, its message and the stop that it queues. A frame is the
session it belongs to and its number.

### SettingsFile

`load()` is `Read` and `Assign`, `save()` is `Snapshot`, `Open` (which empties the
file) and `Write`. A request is a program over these: `Start` loads,
`Authenticate` applies the account, `SetEarly`, the load inside the functions of
the default assets, `SetLate`, save, `Publish`; a dismissal only sets its flag and
saves. All threads share `mem`. The viewer reads in two halves, too. Settings are
groups, since the properties only tell apart when a request assigns them.

### Reachability

Each process of the pool is at a step of a sweep or a recheck (`pc`), with the
token, the rows it has read and its age; `Tick` lets time pass, keys expire and
hard limits kill. `Hold` is the TTL that the sweep sets, `DeleteOwn` the script
that compares the token. `Ask` is the viewer, with the debounce key of the
endpoint (`CloseGate`), `Gate` the cooldown of the task.

### ChunkedUpload and AssetTable

A chunk is its position, its content the file it is of; an inode is a sequence
of those. A request with a chunk opens the staged file, writes, truncates and
answers, in these steps; several run at once. A request about the table is a
list of steps, one database statement each (`Insert`, `WriteRow`, `Save`, ...),
given for every view by a definition of its name (`CreateV2`, `UpdateV1`,
`OrderForm`, `BulkUpdate`, ...). `untold` are the assets that left rotation since
the viewer was last told, `before` and `alone` what a request found and whether
it met another.

### ContentImport

`library` is the account on the other platform: the shelves that its provider
lists one after the other (`ShelfOf`: Yodeck by type of media, ScreenCloud links
after files), which its owner changes (`Add`, `Discard`). A session is one run of
the wizard or of `import_content`. `List` asks for a page by the
offset or the cursor that the provider keeps; `unpaged` is a CMS that answers every page with
its whole library, which the Xibo client recognises by the ids. `Choose`,
`Pick`, `Find` (`find_imported_asset()`), `Detail`, `Fetch`, `Fetched`,
`Prepare`, `Create`, `Dispatch`, `Order` and `Stamp` are the steps of
`import_item()`, of which any may raise (`Raise`: the next item is tried) or end
the session (`Fail`, `Die`); `Retry` is the wizard's button. `Task` is
the celery task of a new asset as far as it touches
file and metadata (in detail it is in `AssetPipeline`): `Take`, `Convert`, `Unlink`,
`Commit`, or `RejectRead` and `RejectWrite`, the two statements of
`_set_processing_error()`; it may die at any of them (`TaskDies`), and the reconciler
queues it again (`Requeue`). `Delete` is a delete of the asset: `DeleteLoad` reads the row,
`DeleteFile` removes the file that this names, `DeleteRow` the row, and the request may die
in between (`DeleteDies`). A file may refuse to be removed (`Removal`), which both pass over. What an item is (`Nature`) decides which steps it takes. The history
variables `shifted` and `late` say of a listing, `excused` and `lost` of an item,
`litter` of an asset, that one of the exceptions applies which the properties name.

### Archive

`AddDatabase`, `AddAssets`, `AddFile`, `Vanished`, `Finish` are the thread of
`stream_backup()`, which blocks when the pipe is full; `BrokenPipe`, `Break` and
`HandOver` are its ends (the pipe is closed before the error is handed over).
`ReadChunk`, `ReadEnd`, `Yielded` and `Join` are the generator, `Leave` is the
client. A restore is `StopViewer`, `StoreUpload`, `Unpack`, `Extract` and
`Finally`, several at once; `Kill` is the server's death. Every action of
`ContentImport` goes on meanwhile (`Apart`); `touched` records whose file was gone when the database
was copied, or has been taken away since.

## The runs and what they show

| run | question | answer | states |
|---|---|---|---|
| `scheduler` | Do commits, commands and clock ticks inside a refresh break the playlist? | No: `IndexInRange`, `ListIsCommitted` (no lost update), `DeadlineCoversBoundaries`, `PreviousShowsPredecessor`, and nobody starves (`ActiveAssetsShown`) | 1,303,916 |
| `playback` | Can the two threads and a dying webview leave a wrong or lit screen? | No: `UrlIsShown`, `BlankedIsStopped`, and in the end `BlankedGoesDark` and `InactiveLeaves`, which has an exception: an asset stays if only undisplayable ones are fetched from some time on | 422,920 |
| `playback_settings` | Is a settings change lost between the threads? | Not without videos: in the end `ModeIsApplied` | 727,648 |
| `display` | Does the linuxfb player release the framebuffer? How often can the watchdog restart the container; is a good display bound? | Yes, unless `reset()` overlaps a statement of the main thread: `FramebufferReleased`. On each boot at most `MaxRestarts` times, until a reading ends the episode and clears the budget: `RestartsAreCapped` (a failing probe does that with a dead connector, too, so that restarts may go on: `DeadDisplayIsCapped` is refuted). Yes, while the budget lasts: `GoodDisplayBinds` | 17,624 |
| `pageload` | Does a late, failing or endless load show the wrong thing or nothing? | No: `VideoKeepsScreen`, `OnlyLatestIsPainted`, `LoadsOwnHeaders`, and in the end `PendingPageIsShown` | 63,854 |
| `pipeline` | Can faults leave an asset unplayable, stuck, or its file lost? | No, but for two errors that tasks pass over, an unreadable header of an image to be resized and an original that cannot be removed: `ReadyIsPlayable`, `CleanupSparesLive` (which name them), and in the end `ProcessingEnds` | 425,586 |
| `commands` | What do outages of redis and restarts of the viewer do to commands and answers? | They lose some, but reorder, repeat or mix up none: `ImplementsChannel`, `AnswerIsOfTheTime`, `Reconnects` | 677,537 |
| `surface` | Do frames, stops and failures of the pipelines leave the wrong picture? | No, unless a frame of QMediaPlayer was queued when the stop came: `NothingStoppedReturns` (which names it), `SoundHasPicture`, and in the end `GstFrameIsShown` | 83,292 |
| `settings` | Do overlapping requests, a full disk and restarts corrupt the settings? | Not on disk for a request that is alone, not the login, and not in the viewer in the end: `LoneSaveIsExact`, `NobodyIsLockedOut`, `ViewerCatchesUp` (with the exceptions they name) | 1,878,794 |
| `sweep` | Does the token lock keep sweeps single, and never keep them out? | Yes: `OneSweep`, `DeadAssetIsFound` | 417,768 |
| `table` | Do uploads, creates, edits and deletes end with whole files, in the asked order, with a viewer that knows? | Yes: `AssetIsWhole`, `PlacedAsAsked`, `ViewerIsTold` | 1,958,704 |
| `transfers` | Do overlapping, dying and repeated imports, a changing account, a backup and a restore duplicate, miss or leave anything? | No, but for the cases that the properties name: `NoTwins`, `NothingMissed`, `NothingLeftOver`, `ArchiveIsWhole`, and in the end `SessionEnds`, `BackupEnds` | 265,984 |

Some properties are stated in the modules and in no run, since another one of the same
run says most of it: `HandledInOrder`, `ReleaseIsOwn` and `RestoreReleases` are proved,
`ReadyStaysReady` is proved and checked by `AssetPipeline_pool.cfg`, and `OrphansRemoved`,
`RepliesVanish`, `FreshestIsShown` and `ClipsLoop` are liveness properties that hold
when they are put into the configuration of their module.

Two more configurations pass and are not in `PROJECT.json`.
`AssetPipeline_pool.cfg` repeats the safety properties of `pipeline` with two
processes, without edits and without a backlog, and adds `ReadyStaysReady`.
`Reachability_recheck.cfg` is one process with rechecks that are slow, cut off or
never queued: an asset that answers again is shown again without any sweep
(`FitAssetReturns`).

## The bounds and why they are enough

Bounds are constants; every guard that uses one names it.

- `scheduler`: two assets, one of them with an overnight play window that opens
  twice (days of three units), three rows whose boundaries fall at different
  times, five instants, one commit and two commands. Two assets are what it takes for a list to grow,
  shrink and reorder; five instants lie on both sides of every boundary; one
  commit lands at every point of a refresh. The counter that triggers a
  reshuffle is 2 instead of 5, so that a cycle ends several times.
- `playback`: an image, a video and an image that cannot be displayed, all commands but `reload`, no bound on how
  often they come. `playback_settings`: a broken image, a page and an asset of
  an undisplayable kind, two launch modes, `reload`. Videos stay out of this
  run, and the property says so: `play()` reads the settings file on the main
  thread, and a change that it reads between the load of a `reload` and its
  comparison is lost (`Playback_video.cfg`).
- `display`: for the player, three videos and two resets. A leaked process needs two videos and one
  reset; the third shows that the next video does not clean up.
  For the watchdog, a budget of three, a grace window of two units, two boots, two
  ends of episodes, any number of crashes and any order of displays.
- `pageload`: two pages, two images of which one is animated, a video, a
  header, three load generations and one crash. Two generations
  make one load overtake another; the third retries it.
- `pipeline`: all four kinds of upload, one process of the pool, one backlog,
  one edit, one delete, three faults. Three faults exhaust the two retries of an
  image task and leave `on_failure` to run. One process and one request at a
  time, since with more the properties fail in the code:
  see `twin`, `back` and `GoodUploadSucceeds` below.
- `commands`: one command that may raise, two requests for the current asset and
  the reload of a task, two messages, one outage or dropped connection, one
  restart, a back-off of at most two. Two messages are what order needs, one loss
  falls between any two steps of both sides.
- `surface`: every kind of board, two sessions of a clip of two frames, all
  faults. A frame is overtaken by another of its session and by the next session.
- `settings`: two requests of every kind, a value that cannot be stored, one
  restart, one `reload` of other origin, a full disk at every write.
- `sweep`: two processes, one asset, two URIs, soft and hard limits of one and two
  ticks, a queue of one, one fault (a process killed or redis emptied).
- `table`: two assets and one new, two requests on two threads, positions from
  -1 to 1, one window that opens or closes; for uploads one id, a file of two chunks and one
  of one, three sends in two slots, two attempts, two inodes. A state constraint
  keeps the two halves apart except where they meet, in the create that renames
  the staged file and the delete that removes it. The views left out of the
  instance (`createApp`, `updateV12`) have the same steps as `createForm` and
  `update`. The two assets of the beginning are symmetric (no liveness here).
- `transfers`: three items (a file that a task converts, an image and a page), two
  sessions (wizard and command), pages of one item, one retry, a pipe of one block, one
  restore. Five instances side by side, since what can go wrong in one does not
  need the others: one listing of a changing account, with every platform; two
  imports that overlap, with tasks and deletes that do not die; one that is retried, with tasks
  that do; a backup while two items are imported;
  and an import with its task, deletes, which all may die, a backup and a restore of it. There the
  backup begins when the import is done, and the restore when the backup is. A page of one
  item makes every change of the account fall between two pages; one block makes the thread wait for the
  generator at each member.

`CHECK_DEADLOCK FALSE` is set where a system at the end of its bounds, or with
an asset that is finished and deleted, has nothing left to do.

## Fairness

Fairness is stated for what the code schedules, never for what operators,
networks or hardware do.

- `scheduler`: `asset_loop()` calls `get_next_asset()` again and again.
- `playback`: the main thread moves on (its sleeps have a timeout); the
  subscriber finishes a handler it has begun; a process that was told to
  terminate ends; Docker restarts the container. That a respawn succeeds is
  not assumed.
- `pageload`: a D-Bus call returns or times out, the watchdog timer fires, and
  not every attempt at a page fails or is broken off (strong fairness of a
  navigation that succeeds). Without the last there are pages nobody can show.
- `display`: the watchdog's loop goes on; now and then `wlr-randr` answers for a whole
  grace window, and the file can be written (strong fairness, as both are
  interrupted by crashes and unplugged displays).
- `pipeline`: the pool takes messages and ends tasks (their time limits), beat
  runs both periodic tasks, requests are answered, and hours pass. The hour is strongly fair, as it is
  enabled only between two runs. Faults are bounded, so retries come
  to an end.
- `commands`: the subscriber thread goes on, the viewer starts again, redis keys
  expire, and views collect or time out. That redis comes back is the premise of
  the property. The abstract channel owes that a pending command is handled or
  lost.
- `surface`: the streaming thread and a slot that has begun go on (weak); the
  event loop passes no paint, drain or bus message over for ever (strong, as a
  slot that runs keeps the others waiting).
- `settings`: a request that has begun goes on, the subscriber handles the
  commands it has, and a thread that has read assigns.
- `sweep`: time passes, and a sweep is not cut off at the same step for ever
  (strong: any process may be killed). That sweeps are queued again and again is
  the premise of the property. `Reachability_recheck.cfg` says the same of rechecks, and that the
  viewer comes round to the asset again.
- `transfers`: a session that was begun asks for its next page or item, and gets an
  answer or a timeout; the thread and the generator of a backup go on. Neither the client
  of a backup nor the owner of the account is bound to do anything.
- `table` has no liveness property and no fairness.

## Where the code and its docs disagree

While modelling, these statements of comments, docstrings and messages turned
out not to hold of the code. TLC yields a shortest counterexample when the
property named is put in the place of those of the configuration named
(the configurations with an underscore have it already).

| configuration | property | what the code does |
|---|---|---|
| `Scheduler_processing` | `ProcessingNeverShown` | rows in processing are rotated in: nothing in the viewer reads the flag |
| `Scheduler_current` | `CurrentIsShown` | `extra_asset` is read again after the lookup: an `asset` command in between leaves `current_asset_id` naming an asset that is not shown, and its jump is lost |
| `Scheduler` | `ReshuffleAtCycleEnd` | a reshuffle that yields the same order does not reset the counter, so the next one comes in the middle of a play-through |
| `Scheduler` | `DeadlineCoversStart` | an asset that starts at the very instant of a generation has no deadline |
| `Playback_stale` | `InactiveAlwaysLeaves` | with only undisplayable assets left, a deactivated asset stays on screen (the exception of `InactiveLeaves`) |
| `Playback_term` | `TerminatedIsDead` | the next view comes before the terminated webview has died, and loads its page into it |
| `Playback_video` | `ModeAlwaysApplied` | `play()` of a video reads the settings between the load of a `reload` and its comparison, which then finds no change: the new mode is not applied |
| `Playback` | `BlankIsPrompt` | `skip_event.clear()` erases a wake-up that came since the asset was loaded |
| `Playback` | `StopKeepsFrame` | the handler wakes the loop before it sets `loop_is_stopped`, so the loop can show one more asset |
| `Playback` | `UnblankPowersOn` | a power command that fails is not tried again, and the outputs stay off |
| `Display` | `ResetIsHarmless` | a `reset()` inside `stop()` while the next video starts drops the only handle of a process that loops for ever |
| `Display` | `ResetNeverCrashes` | `reset()` clears `INSTANCE` between the test and the return of `get_instance()`, and None has no `play()` |
| `PageLoad` | `CachedHeadersWereSent` | `loadPage` repeated after a respawn goes out without its headers |
| `PageLoad` | `RetryRepeatsRequest` | a retry uses headers staged meanwhile for another page |
| `PageLoad` | `TimerOnceVisible` | the reload timer is armed although the load has already failed and the page is not visible |
| `PageLoad` | `ReloadFailureShows` | a failing reload is heard by nobody |
| `Display` | `DeadDisplayIsCapped` | a failed probe ends the episode and clears the budget: with a dead connector restarts go on |
| `AssetPipeline` | `GoodUploadSucceeds` | the original is removed before the row names its WebP: a task killed in between loses a good upload; and `asset.save()` of a row read before a task finished undoes its result |
| `AssetPipeline` | `ResizeIsNeverSkipped` | an I/O error on the header of an image that is too large for the board is taken for an image that needs nothing (`processing.py:216`): it is marked done as it is, and if it is corrupt nobody finds out |
| `AssetPipeline_twin` | `ReadyIsPlayable` | a task queued for more than an hour is duplicated; both write one staging file |
| `AssetPipeline_back` | `DeletedStaysDeleted` | `asset.save()` inserts a row deleted meanwhile |
| `ViewerCommands` | `SubscriberSurvives` | `previous` or `asset` before the scheduler exists raises, and the subscriber thread ends for good |
| `ViewerCommands` | `TaskReloadIsHandled` | the `reload` that tasks publish has no topic prefix, and the viewer drops it |
| `ViewerCommands` | `NoReplyStays` | a reply pushed before an outage or a restart never gets its expiry |
| `VideoSurface` | `BlackWhenShown` | a frame whose queued delivery comes after `stop()` finds the gate open, and the widget is next shown with it (`videoview.cpp:694`), where `stop()` says that black beats a stale frame |
| `VideoSurface` | `ErrorStopsItsOwn` | the stop queued by a failed pipeline may stop the next asset |
| `SettingsFile` | `SavedAsAsked` | switching the default assets loads the file in the middle of a save and discards the other settings, and success is reported |
| `SettingsFile` | `DismissalIsKept` | a save that began before a dismissal takes it back |
| `SettingsFile` | `ViewerIsTold` | a dismissal empties the file for a moment and tells nobody: a viewer that reads then keeps the defaults |
| `SettingsFile_video` | `ViewerCatchesUp` | the load on the viewer's main thread may assign what it read before a `reload` over what the `reload` read |
| `Reachability` | `VerdictIsAboutRow` | the verdict about one URI is written to a row that has another by then |
| `AssetTable` | `OthersKeepOrder` | the list of active assets is not read in play order, so a create or an update that splices into it numbers the others anew in the order of the database |
| `Transfers` | `CompleteIsWhole` | a delete that has removed the file and not yet the row, or a task that died between original and row, leaves a row without its file: the archive is then complete without it, where `stream_backup()` wants no "silently truncated archive" (`backup_helper.py:96`) |
| `AssetTable` | `NewIsLast` | assets created from the dashboard get the number of active assets as their play order, which others may exceed |

Five more have no property of their own. The documentation of the importers promises that
"re-running an import skips anything already brought over, so it is safe to run more
than once" (`website/content/docs/importing-content-from-other-platforms.md:12`).
A task that has read the metadata of the new asset before the import stamps it writes it
back without the stamp (`processing.py:1016`), and the next import makes a
second asset; so do `_set_processing_error()`, which reads the metadata and writes all of it in a second
statement (`processing.py:455`), an import that overlaps another, and one that was cut off before its stamp. `NoTwins` names
these as its exceptions (`lost`, `excused`). The staged file of a create that is
then refused is already renamed, and its client has nothing left to create the
asset from (`Refuse`). A full disk whose 507 answer is lost lets the upload go on
and end with holes (`DiskFull`; `AssetIsWhole` excludes it). An original that could
not be removed after its conversion is listed by `cleanup()`, and the save of a stale row names it again before it is
removed: the asset loses its file (`CleanupSparesLive` and the theorem about it except this). And
the order endpoint of the API does not tell the viewer (`OrderApi` has no
`Publish`), while the one of the dashboard does.

## What is proved

TLAPS proves these for every value of the constants that satisfies the
modules' assumptions.

| module | theorem | statement |
|---|---|---|
| `SchedulerProofs` | `TypeCorrect` | `Spec => []TypeOK` |
| `SchedulerProofs` | `PositionSafe` | `Spec => []IndexInRange`: whatever is committed or commanded between two statements of a refresh, `self.assets[idx]` is in range |
| `SchedulerProofs` | `NoLostCommit` | `Spec => []ListIsCommitted`: once the newest mtime is recorded, the playlist holds the rows that were active when it was generated, as committed |
| `SchedulerProofs` | `DeadlineSuffices` | `Spec => []DeadlineCoversBoundaries`: until the deadline passes or a commit lands, the playlist is the set of active assets |
| `SchedulerProofs` | `PreviousIsBefore` | `Spec => PreviousShowsPredecessor`: `previous` shows the asset before the one on screen, if the list kept its order |
| `SchedulerProofs` | `WindowIsInterval` | an accepted window is open exactly in the intervals that begin on its days (`PlayWindow`) |
| `SchedulerProofs` | `UnfilteredIsOpen` | an asset without a window filter is never closed by its window (`PlayWindow`) |
| `PlaybackProofs` | `TypeCorrect` | `Spec => []TypeOK` |
| `PlaybackProofs` | `ShortcutIsSafe` | `Spec => []UrlIsShown`: between two views the URL is None or the one on screen, and a video is up only under `null` |
| `PlaybackProofs` | `BlankStops` | `Spec => []BlankedIsStopped`: once a handler is done, a blanked display goes with a stopped loop |
| `PageLoadProofs` | `TypeCorrect` | `Spec => []TypeOK` |
| `PageLoadProofs` | `VideoStays` | `Spec => []VideoKeepsScreen`: nothing that was under way when a video began covers it |
| `PageLoadProofs` | `LatestOnly` | `Spec => OnlyLatestIsPainted`: what comes on the screen was asked for last |
| `PageLoadProofs` | `OwnHeaders` | `Spec => LoadsOwnHeaders`: a first attempt at a page goes out with its own headers |
| `DisplayProofs` | `Released` | `Spec => []FramebufferReleased`: no GStreamer process runs when no video is shown, unless a `reset()` overlapped a statement of the main thread (`GstPlayer`) |
| `DisplayProofs` | `RecordedRestarts` | if no write tears the file, `WatchdogSpec => []RestartsAreRecorded` |
| `DisplayProofs` | `CappedRestarts` | under the same assumption, `WatchdogSpec => []RestartsAreCapped` |
| `ViewerCommandsProofs` | `TypeCorrect` | `Spec => []TypeOK` |
| `ViewerCommandsProofs` | `AnswersAreOfTheTime` | `Spec => []AnswerIsOfTheTime`: the answer of a view was true at some moment since it asked |
| `ViewerCommandsProofs` | `SubscriberIsChannel` | `Spec => Channel!Spec`: every step of the code model is a step of the channel or a stutter |
| `ViewerCommandsProofs` | `ChannelInOrder` | `Channel!Spec => Channel!HandledInOrder` |
| `ViewerCommandsProofs` | `SubscriberInOrder` | `Spec => HandledInOrder`, by the refinement |
| `DisplayProofs` | `TypeCorrect` | `Spec => []TypeOK` |
| `DisplayProofs` | `StoppedStays` | `Spec => []NothingStoppedReturns`: no frame of a stopped session is in the mailbox or on the canvas, but one of QMediaPlayer that was queued when the stop came |
| `DisplayProofs` | `SoundFollows` | `Spec => []SoundHasPicture`: the sound is that of the picture |
| `StorageProofs` | `TypeCorrect` | `Spec => []TypeOK` |
| `StorageProofs` | `NeverLockedOut` | `Spec => []NobodyIsLockedOut`: authentication is never on without an account |
| `StorageProofs` | `LoneSaves` | `Spec => []LoneSaveIsExact`: a request that met no other saves what it asked for and nothing else |
| `StorageProofs` | `PipelineTypes` | if `Alone`, `PipelineSpec => []PipelineTypeOK` |
| `StorageProofs` | `ReadyPlays` | if `Alone`, `PipelineSpec => []ReadyIsPlayable`: what leaves processing without an error can be played, but for a large image whose header could not be read: that is there as it was uploaded |
| `StorageProofs` | `LiveFilesStay` | if `Alone`, `PipelineSpec => CleanupSparesLive`: cleanup leaves the file of a row, unless an original could not be removed |
| `StorageProofs` | `ReadyStays` | if `Alone`, `PipelineSpec => ReadyStaysReady`: a second task leaves a ready row as it is |
| `ServerProofs` | `Exclusive` | `ReachSpec => []OneSweep` |
| `ServerProofs` | `OwnRelease` | `ReachSpec => ReleaseIsOwn` |
| `ServerProofs` | `WholeUploads` | `Spec => []AssetIsWhole`: the file of an asset is the file that its client uploaded |
| `ServerProofs` | `ViewerTold` | `Spec => []ViewerIsTold`: once the requests are over, the viewer has been told after the last removal |
| `ServerProofs` | `PlacedRight` | `Spec => []PlacedAsAsked`: a request that has the table to itself leaves the active assets on 0, 1, 2, ..., its own where it was asked to be |
| `TransferProofs` | `TypeCorrect` | `ArchiveSpec => []ArchiveTypeOK` |
| `TransferProofs` | `ImportedOnce` | `ArchiveSpec => []NoTwins`: an item has one asset, unless imports of it overlapped, one was cut off, or its task (or its task's error) took the stamp back |
| `TransferProofs` | `NothingIsMissed` | `ArchiveSpec => []NothingMissed`: a listing that ended well has all that is in the account, but what was added behind its back or slipped past an offset |
| `TransferProofs` | `NothingIsLeftOver` | `ArchiveSpec => []NothingLeftOver`: no download without its import, no file without its row, but for the named cases (a death, a failing removal, a delete that met a task) |
| `TransferProofs` | `BackupIsWhole` | `ArchiveSpec => []ArchiveIsWhole`: a backup that ends well has the file of every asset in its database that had one when this was copied, and lost none since |
| `TransferProofs` | `RestoresLetGo` | `ArchiveSpec => []RestoreReleases`: once no restore is at work, the viewer plays and no upload is left, unless the server died in one |

**Scheduler.** The assumptions are those of the module: the table is finite,
`None` is neither an asset nor a row nor a time, rows have their type. The argument is one
inductive invariant, `IInv == TypeOK /\ IndexInRange /\ JumpPending`. The
position is changed in two places. `update_playlist()` replaces the list and
takes the position modulo its new length, which is a position in it or 0
(`InstallStep`, with `PlaylistType` for the list that was generated and
`KeepOrderType` for the one that keeps its order). Serving takes it modulo the
length of the list it serves from (`ServeStep`). `IndexInRange` is needed for
the type itself, since the entry that is served is one of the table's only if
the index is in the list. `JumpPending` says that a jump under way still has its
`extra_asset`: only the main thread clears it, and a second `asset` command
overwrites it with another asset; without it the types of `currentId` and of
what is shown would not be inductive.

`NoLostCommit` rests on `CommitInv == lastMtime <= mtime /\ ListIsCommitted`,
inductive together with `IInv`. The files are stat'ed before the table is read,
so the recorded mtime is never ahead of the table (`StampCommits`), a commit at
any point puts it behind (`CommitCommits`), and only a build makes a list, from
the table of that moment (`BuildCommits`). That a shuffled list which keeps its
order loses no entry is `KeepOrderRange`; that the query yields every active
row once is `PlaylistRange`.

`DeadlineSuffices` adds `DeadlineInv`: outside a build, with nothing new to
record, the deadline is one computed from the table as it is and from the time
of the last generation, which is not in the future. Whichever branch installs
the list leaves that deadline (`InstalledDeadline`). The rest is arithmetic over
the boundaries: one that lies between the generation and now would have been
in the set of which the deadline is the least (`DeadlineBound`, `LateStart`).

`PreviousIsBefore` is about two serves with a refresh, a jump or a command
anywhere in between. `Served` says what a serve leaves behind for the next: as
long as the list has the order it had then, the position is one past the asset
served, counted round the list. A list that keeps its order keeps its length
and with it the position. `previous` goes two back; that this is the asset before,
with the last one before the first, is `StepBack`, which tlapm has to be shown
since it knows `%` only by its definition. `Constructing` covers the state before
the first list.

**PlayWindow.** The reference counts the time since the midnight of a day. An
interval is shorter than two days, so only today and yesterday can be open
(`TwoDays`), and the weekday before is the weekday of the day before
(`YesterdayIsBefore`). `UnfilteredIsOpen` is why the scheduler may treat assets
without a filter as having no window; the run checks the same equivalence for
two weeks as an assumption of `MCScheduler`.

**Playback.** The two properties rest on two invariants that share no
variable. `ScreenInv` goes along the program counter of the main thread: what
holds between two views (`BetweenViews`) is broken on purpose inside one, as
`play()` puts 'null' under a video before the URL says so (`InsideView`); and after
a death nothing is remembered of the old process when the new one starts
(`Respawning`, for which `_send_to_webview()` and `load_browser()` must not be
mistaken for each other, `Calls`). The webview may die in every state, and ending it
keeps the invariant, since all of it is said of a webview that is alive. That a
page whose headers failed may be passed over (`Defer`) needs that 'null' is not
the URL of an asset. `PlanInv` lists what can be left of a handler (`Rests`): the
only moment at which a blanked display has a running loop is before the stop of the
very handler that blanked it, and no handler starts the loop before it has
unblanked (`Follows`). `TypeCorrect` uses both, as `todo` is typed by its plan.

**PageLoad.** The three properties come from one invariant,
`Inv == Types /\ Current(view) /\ Covered(view) /\ Staged /\ Bounded`. `Current`
is the discipline of `m_loadGeneration`: a navigation that is still listened to
has the generation of the last call and the page of the last request, and a
reply still on its way either has a generation that is over or is of the image
asked for last. A late result is then recognised by its generation alone.
`Covered` says that during a video the surface is up, with no page and no image.
`Staged` is about the other side of the D-Bus: as the viewer is about to send a
page, the headers staged in the process are its own, whatever the asset before
left there, unless a respawn has thrown them away (`retry`). `Bounded` serves the types only: a call that is
waiting has a generation left. Two assumptions on the constants had to be
stated for this: pages, images and videos are different things, and 'null' and
None are none of them.

**GstPlayer.** That nothing runs when both threads are idle says nothing of the
states before. `IInv` follows the one process that may run: from its start to its
end it is the one that `_proc` names of the player its thread works on (`Held`),
and the player of a video that is shown is still `INSTANCE`, so that a `reset()`
during the wait stops that very player (`MainInv`, `SubInv`). All of this is
promised only as long as `raced` is false; that `stop()` runs on a player and
never on None (`OnPlayer`) holds without it, and gives the types.

**WaylandWatchdog.** `RestartsAreCapped` is not inductive, because the watchdog
does not look at the restarts it made but at the number in a file.
`WatchdogInv == WatchdogTypeOK /\ RestartsAreRecorded` is: a restart is made only after the
file was written, so the number counted from the file is at least the number of restarts
made, and the type bounds it by the budget. A write that truncates the file and
then fails (`"torn" \in Faults`) resets the number: the theorems exclude it,
and it is the reason for which they are stated with an assumption.

**Subscriber.** The refinement maps the numbers of the messages that wait in the
subscriber's connection to the pending commands of the channel; that they
are increasing and newer than the last one handled is the invariant of the
channel. A message of another topic is handled by being passed over. A connection that breaks loses all of them, which
is the channel's loss. `SubscriberInOrder` is then the abstract theorem, read
through the mapping.

`AnswersAreOfTheTime` follows an answer from the handler to the view.
`AnswerInv` says that nothing is on its way for a request that was not made
(`Asked`), that a handler in the middle of a reply has the message it replies to
at the head of its buffer (`Sending`), and that for every request under way the current asset,
what lies in its list and what is about to be pushed to it are among what was
current since it asked (`Fresh`). An abandoned request may keep a late
reply in its list; no other request has that list.

**VideoSurface.** `Inv` keeps the ways to the screen apart by mode (`Ways`) and
says of every place from which a frame may still come - the player, the two
pipelines, the latest frame, the slot that draws - that it belongs to the session
that runs and was not stopped, and of every frame in QMediaPlayer's queue that it is of a session
that was not stopped or lay there at the stop (`Sources`, `Due`). The mailbox and the canvas follow. The proof of the
types found an error in the model: `drains`, the queued calls of `onGstFrame()`,
was typed `0..2`. A stop clears the flag that coalesces them while a call is queued, so that
each further video may add one; `Coalesced` bounds the calls by the
number of videos, and `TypeOK` now says `0..MaxPlays`, which for the two videos of
the run is the same.

**SettingsFile.** `Course` says which request can be at which call, `Told` bounds the commands under way. `Accounted`
strengthens `NobodyIsLockedOut`: also what a thread has read and not yet
assigned, and what a request is about to set, has authentication on only with
an account, which is what keeps two overlapping requests from passing it to each other.
`LoneSaves` needs what the file, the parser and the memory hold at each step of a
request that met no other (`Lone`), relative to the file it found.

**Asset pipeline.** The theorems are about one process of the pool and at most one
request at a time (`Alone`), for any number of faults, retries, hours, edits and
deletes, and every kind of asset. The hypothesis is needed, as the code breaks the properties
without it: with two processes a task that waited for an hour runs twice at once on one
staging file (`AssetPipeline_twin`). It is what the run is bounded to, and it does
not take the actors apart: requests, the reconciler and cleanup still get in
between any two steps of a task, and a kill ends it anywhere.

`PipelineInv` is the inductive invariant. `Working` is its centre: a
task runs only on a row that is in processing and names the original, since it reads
both as it begins, and nobody takes a row out of processing but the one task that runs. An edit may
put back what it has read, but not more than that (`Editing`): if it read the row in processing, the
save puts it back there, with the original; if not, nothing has changed meanwhile.
`Converting` follows an image through its files: what has been written is there, and not
old, until the row is written, unless a delete has taken it. `Named` says that the row
names the WebP only when the original is gone, or could not be removed (`Gone`). So a kill between the two leaves a
row in processing without a file, which is the finding about lost uploads, and
not a row that is ready. `Spares` is for cleanup, which lists the rows, then
the files, and then looks at the age of each: what the row names is either not on the
list or not an hour old. The row moves to another file only at the end of a conversion, and
the file is fresh at that moment; no hour passes while a task, a request or cleanup
is under way. When a save puts the row back to its original, that one is
gone, and a file that does not exist is not old; an original that could not be removed may be, which is
the exception. `Sound` is needed at the header: a large image that is still there is one as it was uploaded.

**Reachability.** `OneSweep` needs more than the lock. `Guarded` says that a
sweep that still runs owns the key, and that the time left of the key and the
age of the sweep add up to at least the hard limit, which kills the sweep; so the
key cannot expire under it as long as redis keeps its keys (`~flushed`) and the
pool enforces the limit in time (`Lateness = 0`). `ReleaseIsOwn` needs neither: the
script compares the token.

**Uploads and the asset table.** `WholeUploads` goes across two modules.
`UploadInv` says of every session that its staged file is no other's and, while the client
is still at the file that the requests carry, complete at every position it has an answer for:
the chunk is there and, once the last one is acknowledged, the file has
exactly its length (`SessionOK`, `Complete`). Of every request in a slot
it says how far its chunk has arrived (`SlotOK`, `Arrived`). A repeated or late
chunk of the same file writes what is there already; a chunk of an
earlier file cannot be under way, since a client turns to another file only when nothing is (`Turn`).
Truncation is the step the proof turns on: without it a shorter file leaves the
end of the longer one. `TableInv` carries this over: every row of the table and of a
request names no staged file, or one that no session stages, that holds the whole file
and to which only chunks of that file are still written (`SoundRow`).
`TableInv` also types the program of each request by its steps (`RequestOK`).

`ViewerTold` rests on the order of the steps of a request (`Orderly`): nothing that removes
an asset from rotation comes after its `publish`. `ToldInv` is: until the viewer has been
told, some request owes it a reload, that is, has a `publish` ahead and will not
be refused before it. It is not enough that the request which removed the asset owes one:
it may publish before another's removal and end, and the other one owes then. That nothing refuses the request
needs that its row is still there at the steps that look for it, or that none
of its steps looks (`Owes`); a row deleted under it is the deletion of a request that owes itself.

`PlacedRight` is about the value of a list. `_get_active_assets()` gives the active
assets in whatever order the database has them, the asset of the request is removed from it and inserted at its
position, and the list is numbered from 0, one `UPDATE` at a time. `Placing` follows that: the list
that was read holds each active asset once; after the splice it holds each
of the others once and the own one at `InsertAt`; and while it is worked off, the assets no longer in it have their numbers, which
are all those below the next one (`Numbered`). What `list.remove()` and `list.insert()` do to
positions are the lemmas `FirstRemoved` and `Placed`. The rest of the invariant is
what makes this hold of the right asset. `SoleRequest`: a request that had the table to
itself is the only one under way, and what it found at its start is still there but for its own changes. `Course`:
what is left of a request is an end of the program of its view, so that a splice is followed by the
numbering and nothing comes between. `UniqueIds`: no id is in two rows, which needs the ids not
yet born: such an id is known to one request only, or to one that is about to look for its row and
fail.

To be reasoned about, `AssetTable` states some things differently than
it once did, with the same meaning and the same reachable states: the rows a bulk action selects are a set, deleted in any order (the query has no
ORDER BY); a deletion removes the row at its position; the rows of a request are built by
one operator (`RowOf`); the order in which the database gives the active assets is a sequence chosen from
`SetToSeqs`; and a splice removes the first occurrence (`RemoveFirst`), as `list.remove()` does.

**Imports.** Every theorem is about the whole of `Archive`: its steps are those of
`ContentImport`, those of the backup, which leaves the imports alone, and the unpacking
of a restore, which replaces the table (`ArchiveShape`). Each invariant is shown to be kept by the first, and
by the last if it holds of the rows in the archive.

`ImportedOnce` rests on `Twins`. A safe item is one that is in neither history variable. It has at most one
maker, a session between its look for an asset and its stamp
(`OneMaker`); every row of it is stamped or is that maker's (`StampedOrOwn`); and a maker that has no row yet found none,
so that there is none but its own
(`NoneBefore`). The same is kept of the archive (`KeptTwins`), since a restore brings back what was there.

`NothingIsMissed` says of every shelf that was begun where its items are: those in front of
the place have been listed or are late, on a shelf that is over all of them (`ShelvesBefore`,
`PlacesBefore`). Xibo is asked until a page brings nothing new, so that what comes behind the place must be new
(`PlacesAfter`): otherwise the listing could end at a repetition. At its end all
shelves are covered (`AllCovered`).

`NothingIsLeftOver` follows a file from the download to the row: what is in
assetdir belongs to the step its session is at (`TempOwned`, `OwnFile`), to a live row, or to the task that is between
its new file and the removal of the old one (`OrigWhileTask`, `ConvertedOnly`, `DiskOwned`). What a delete
removed is gone when it comes to the row, and one that read the new file of a task has no task left to meet (`Deleted`). What
the steps of a task and of a delete do to the one row they are about is said once (`OwnStep`), and the rest follows for all rows (`FilesOthers`). A row that no session has made yet has
neither task nor file (`UnusedIsNew`, `NoTaskYet`).

**Backup.** `Control` ties the flags to the steps of thread and generator: the write end is
closed when the thread is through with it, and the generator waits for the thread, so that it
sees the error if there is one. For an asset that had its file when the database
was copied and has lost none since (not in `touched`), the file is in the archive, or is still on the list of files to add
(`InWalk`), or is there and will be listed (`StillThere`), whatever imports, tasks and deletes do meanwhile. For `RestoresLetGo`, a viewer that is stopped, and an upload
that is left, has a restore that still has its `finally` ahead, or the server died (`ReleaseInv`).

Only model-checked:

- every liveness property (the runs' `ActiveAssetsShown`, `SessionEnds`, `BackupEnds` and all the others that
  the runs table calls "in the end"), and with it the liveness part of `ImplementsChannel`:
  fairness and ENABLED are beyond the prover;
- AssetPipeline with two processes of the pool (`AssetPipeline_pool.cfg`): the
  theorems have one.

## What is not modelled

`PROJECT.json` gives a reason for each component. Within the modelled ones:

- Scheduler: the contents of a row beyond its dates, order and flags; the
  calendar arithmetic of play windows; a database whose mtime goes backwards
  (a restored file), which the `>` in `refresh_playlist()` would not see.
- Playback: lost, duplicated or reordered commands (in ViewerCommands); `previous` and `asset`, which are in Scheduler; durations; the headers, the flag and the cache buster that make the URL of a page differ from itself (they only cause more loads). A sleep
  ends at any time after it began.
- PageLoad: rendering, rotation, transitions, scripts of a page, the video
  decoder.
- GstPlayer: the pipeline's contents, kill escalation timing.
- WaylandWatchdog: real time; the grace window is counted in units.
- AssetPipeline: `is_processing` written through the API, the other columns, the
  reconciler's arm for unknown mimetypes, codecs and pixel caps (one Boolean,
  `good`), a delete that is cut off between file and row (in ContentImport), the token lock of the sweep (one sweep at a time; the same lock is
  modelled in Reachability), and the nudge after a task (`TaskReload` of
  ViewerCommands).
- ViewerCommands: `recv_json()` with a timeout of 0, which has no caller.
- VideoSurface: rotation of the picture, statistics, the search for a plane.
- SettingsFile: parsing of a single value; sessions and tokens.
- Reachability: the probe itself, which is its verdict; rows that opt out of the
  check, which are not fit.
- AssetTable: rows in processing; the contents of a row beyond order, flag and
  file; validation, which is a refusal.
- PlayWindow: changes of the clock and of the time zone.
- ContentImport: two deletes of one asset at a time; credentials, rate limits and the wording of errors; what another
  platform calls a file type. A Xibo listing that grows in front by a page's worth
  between two pages ends early, since the page repeats ids it has seen, and what is not yet listed is missed (`shifted`).
- Archive: the database is copied in one step and a file is one block; the five
  seconds after which the generator gives up waiting for the thread; an archive of another
  device (a restore unpacks the backup of the same run); `create_backup()` of the API,
  which writes the same members to a file; migrations of an old database.

## Plan

What would add most next, in this order.

1. `WebviewLauncher`: spawn, readiness, back-off, and its outcome as the `spawn`
   step of Playback (refinement).
2. A composition of ViewerCommands and Playback: the command alphabet of the one
   handled by the steps of the other.
3. Proofs: the asset pipeline with two processes, as long as
   no task waits for an hour.
4. The mpv and VLC players, and the tasks that are left (display power, telemetry).
