------------------------------- MODULE Archive -------------------------------
(***************************************************************************)
(* The backup that is streamed while it is made, and the restore, while    *)
(* assets are imported, converted and deleted (ContentImport).             *)
(*                                                                         *)
(* A thread feeds the archive through a pipe: the database first, then the *)
(* files of assetdir, as the directory was listed when it came to it. The  *)
(* generator that reads the pipe ends when the pipe is closed and empty,   *)
(* and only then knows whether the thread failed. The client may go away   *)
(* at any point. A restore stops the viewer, stores and unpacks an archive *)
(* and starts the viewer again.                                            *)
(*                                                                         *)
(* A member of the archive is one block of the pipe, and the database is   *)
(* copied in one step.                                                     *)
(***************************************************************************)
EXTENDS ContentImport

CONSTANTS
  PipeSize,  \* blocks that the pipe holds
  Restore    \* requests that restore

ASSUME ArchiveAssumption == PipeSize \in Nat \ {0}

VARIABLES
  producer,  \* what the thread of the backup does
  todoDirs,  \* the directories it has yet to add
  walk,      \* the names it has yet to add of assetdir
  archive,   \* what it has put in the pipe
  pipe,      \* blocks in the pipe
  writing,   \* the write end is open
  reading,   \* the read end is open
  error,     \* produce_error
  reader,    \* what the generator does
  client,    \* what the client knows
  touched,   \* (history) assets whose file was gone when the database was
             \* copied, or that lost one since
  restore,   \* what each restore does
  upload,    \* the restores whose upload is in static/
  viewer,    \* the last of play and stop that the viewer was sent
  killed     \* (history) the server died in a restore

stream == <<producer, todoDirs, walk, archive, pipe, writing, reading, error,
            reader, client>>
restoring == <<restore, upload, viewer, killed>>
archiveVars == <<importVars, stream, touched, restoring>>

\* Mutant: the files before the database
directoriesSwapped == <<"assets", "database">>

directories == <<"database", "assets">>

\* In assetdir, by name
Listing == disk \cup temp

NoArchive == [rows |-> [r \in Row |-> NoAsset], files |-> {}]

-----------------------------------------------------------------------------
(* The thread *)

BeginBackup ==
  /\ producer = "none"
  /\ producer' = "add"
  /\ todoDirs' = directories
  /\ writing' = TRUE /\ reading' = TRUE
  /\ reader' = "read"
  /\ client' = "waiting"
  /\ UNCHANGED <<importVars, walk, archive, pipe, error, touched, restoring>>

\* A write blocks while the pipe is full.
Write ==
  /\ producer = "add" /\ reading /\ pipe < PipeSize
  /\ pipe' = pipe + 1
  /\ UNCHANGED <<writing, reading, error, reader, client, restoring>>

AddDatabase ==
  /\ Write
  /\ walk = {} /\ todoDirs # <<>> /\ Head(todoDirs) = "database"
  /\ archive' = [archive EXCEPT !.rows = asset]
  /\ touched' = {r \in Row : <<r, asset[r].uri>> \notin disk}
  /\ todoDirs' = Tail(todoDirs)
  /\ UNCHANGED <<importVars, producer, walk>>

AddAssets ==
  /\ Write
  /\ walk = {} /\ todoDirs # <<>> /\ Head(todoDirs) = "assets"
  /\ walk' = Listing
  /\ todoDirs' = Tail(todoDirs)
  /\ UNCHANGED <<importVars, producer, archive, touched>>

AddFile ==
  /\ Write
  /\ \E f \in walk \cap Listing :
       /\ archive' = [archive EXCEPT !.files = @ \cup {f}]
       /\ walk' = walk \ {f}
  /\ UNCHANGED <<importVars, producer, todoDirs, touched>>

\* A name that is gone by now is an error, which ends the archive.
Vanished ==
  /\ producer = "add" /\ walk \ Listing # {}
  /\ producer' = "broken"
  /\ UNCHANGED <<importVars, todoDirs, walk, archive, pipe, writing, reading, error,
                 reader, client, touched, restoring>>

\* The end of the archive, which closes the pipe
Finish ==
  /\ producer = "add" /\ walk = {} /\ todoDirs = <<>>
  /\ producer' = "gone"
  /\ writing' = FALSE
  /\ UNCHANGED <<importVars, todoDirs, walk, archive, pipe, reading, error, reader,
                 client, touched, restoring>>

\* BrokenPipeError: nobody reads any more.
BrokenPipe ==
  /\ producer = "add" /\ ~reading
  /\ producer' = "gone"
  /\ writing' = FALSE
  /\ UNCHANGED <<importVars, todoDirs, walk, archive, pipe, reading, error, reader,
                 client, touched, restoring>>

\* The pipe is closed on the way out, before the error is handed over.
Break ==
  /\ producer = "broken"
  /\ producer' = "raised"
  /\ writing' = FALSE
  /\ UNCHANGED <<importVars, todoDirs, walk, archive, pipe, reading, error, reader,
                 client, touched, restoring>>

HandOver ==
  /\ producer = "raised"
  /\ producer' = "gone"
  /\ error' = TRUE
  /\ UNCHANGED <<importVars, todoDirs, walk, archive, pipe, writing, reading, reader,
                 client, touched, restoring>>

Thread == \/ AddDatabase \/ AddAssets \/ AddFile \/ Vanished \/ Finish
          \/ BrokenPipe \/ Break \/ HandOver

-----------------------------------------------------------------------------
(* stream_backup(), which astream_backup() drives one chunk at a time: "read" *)
(* is its next_chunk(), at "yield" it waits for the client                    *)

ReadChunk ==
  /\ reader = "read" /\ pipe > 0
  /\ pipe' = pipe - 1
  /\ reader' = "yield"
  /\ UNCHANGED <<importVars, producer, todoDirs, walk, archive, writing, reading,
                 error, client, touched, restoring>>

ReadEnd ==
  /\ reader = "read" /\ pipe = 0 /\ ~writing
  /\ reading' = FALSE
  /\ reader' = "drained"
  /\ UNCHANGED <<importVars, producer, todoDirs, walk, archive, pipe, writing, error,
                 client, touched, restoring>>

\* Mutant: it is left open.
ClosedNot == reading

\* The read end after the generator is closed under a client that has gone
Closed == FALSE

\* A client that has gone is noticed between two chunks.
Yielded ==
  /\ reader = "yield"
  /\ IF client = "away" THEN reader' = "cut" /\ reading' = Closed
     ELSE reader' = "read" /\ UNCHANGED reading
  /\ UNCHANGED <<importVars, producer, todoDirs, walk, archive, pipe, writing, error,
                 client, touched, restoring>>

\* Mutant: nobody waits for the thread.
JoinedAtOnce == TRUE

\* The thread is waited for; five seconds are enough for one that has nothing
\* left to do but to log, not for one that is in the middle of a file.
Joined == producer = "gone"

Join ==
  /\ reader \in {"cut", "drained"}
  /\ reader = "drained" => Joined
  /\ reader' = "end"
  /\ client' = IF client = "away" THEN client
               ELSE IF error THEN "aborted" ELSE "complete"
  /\ UNCHANGED <<importVars, producer, todoDirs, walk, archive, pipe, writing,
                 reading, error, touched, restoring>>

Generator == ReadChunk \/ ReadEnd \/ Yielded \/ Join

Leave ==
  /\ client = "waiting"
  /\ client' = "away"
  /\ UNCHANGED <<importVars, producer, todoDirs, walk, archive, pipe, writing,
                 reading, error, reader, touched, restoring>>

Backup == BeginBackup \/ Thread \/ Generator \/ Leave

-----------------------------------------------------------------------------
(* RecoverViewMixin.post() and settings_recover(), and recover() *)

Turn(q, step) == restore' = [restore EXCEPT ![q] = step]

StopViewer(q) ==
  /\ restore[q] = "none"
  /\ viewer' = "stop"
  /\ Turn(q, "store")
  /\ UNCHANGED <<importVars, stream, touched, upload, killed>>

\* Mutant: an exception ends the request.
OnExceptionEnd == "done"

\* try ... finally
OnException == "finally"

\* The upload goes to static/, as far as the disk has room.
StoreUpload(q) ==
  /\ restore[q] = "store"
  /\ upload' = upload \cup {q}
  /\ Turn(q, "unpack") \/ Turn(q, OnException)
  /\ UNCHANGED <<importVars, stream, touched, viewer, killed>>

\* What is restored is the backup that came to its end; anything else is
\* refused. The database of the archive takes the place of the other. The
\* items that are just being imported, and those that come back without their
\* source, may be imported twice.
Unpack(q) ==
  /\ restore[q] = "unpack"
  /\ \/ /\ client = "complete"
        /\ asset' = archive.rows
        /\ excused' = excused \cup {i \in Item : MakersOf(i) # {}}
                     \cup {i \in Item : \E r \in Row : r[2] = i /\ archive.rows[r].live
                                                    /\ ~archive.rows[r].stamped}
        /\ litter' = litter \cup {f[1] : f \in Listing \cup archive.files}
                           \cup {r \in Row : deleting[r].at # "none"}
        /\ Turn(q, "extract")
     \/ Turn(q, OnException) /\ UNCHANGED <<asset, excused, litter>>
  /\ UNCHANGED <<listing, at, progress, temp, disk, task, deleting, lost, stream,
                 touched, upload, viewer, killed>>

\* Then its files are added to assetdir, as far as the disk has room.
Extract(q) ==
  /\ restore[q] = "extract"
  /\ \E some \in SUBSET archive.files :
       /\ disk' = disk \cup (some \cap File)
       /\ temp' = temp \cup (some \ File)
       /\ upload' = IF some = archive.files THEN upload \ {q} ELSE upload
       /\ litter' = litter \cup {f[1] : f \in some}
  /\ Turn(q, "finally")
  /\ UNCHANGED <<listing, at, progress, asset, task, deleting, excused, lost, stream,
                 touched, viewer, killed>>

\* In any case the upload is removed, and the viewer plays.
Finally(q) ==
  /\ restore[q] = "finally"
  /\ upload' = upload \ {q}
  /\ viewer' = "play"
  /\ Turn(q, "done")
  /\ UNCHANGED <<importVars, stream, touched, killed>>

Kill(q) ==
  /\ restore[q] \in {"store", "unpack", "extract", "finally"}
  /\ Turn(q, "done")
  /\ killed' = TRUE
  /\ UNCHANGED <<importVars, stream, touched, upload, viewer>>

Recover(q) == StopViewer(q) \/ StoreUpload(q) \/ Unpack(q) \/ Extract(q)
              \/ Finally(q) \/ Kill(q)

-----------------------------------------------------------------------------
(* Meanwhile, in ContentImport *)

Apart ==
  /\ touched' = IF producer = "none" THEN touched
                ELSE touched \cup {f[1] : f \in disk \ disk'}
  /\ UNCHANGED <<stream, restoring>>

ArchiveInit ==
  /\ Init
  /\ producer = "none" /\ todoDirs = <<>> /\ walk = {}
  /\ archive = NoArchive
  /\ pipe = 0 /\ writing = FALSE /\ reading = FALSE /\ error = FALSE
  /\ reader = "none" /\ client = "none"
  /\ touched = {}
  /\ restore = [q \in Restore |-> "none"]
  /\ upload = {} /\ viewer = "play" /\ killed = FALSE

ArchiveNext ==
  \/ ImportNext /\ Apart
  \/ Backup
  \/ \E q \in Restore : Recover(q)

ArchiveSpec == ArchiveInit /\ [][ArchiveNext]_archiveVars

\* The thread and the generator go on; the client need not.
ArchiveFairSpec ==
  ArchiveSpec /\ WF_archiveVars(Thread) /\ WF_archiveVars(Generator)

-----------------------------------------------------------------------------
ArchiveTypeOK ==
  /\ ImportTypeOK
  /\ producer \in {"none", "add", "broken", "raised", "gone"}
  /\ todoDirs \in {directories, Tail(directories), <<>>}
  /\ walk \in SUBSET (File \cup (Row \X {"part", "staged"}))
  /\ archive \in [rows : [Row -> [live : BOOLEAN, stamped : BOOLEAN,
                                  processing : BOOLEAN, uri : Uri]],
                  files : SUBSET (File \cup (Row \X {"part", "staged"}))]
  /\ pipe \in 0..PipeSize
  /\ writing \in BOOLEAN /\ reading \in BOOLEAN /\ error \in BOOLEAN
  /\ reader \in {"none", "read", "yield", "cut", "drained", "end"}
  /\ client \in {"none", "waiting", "away", "aborted", "complete"}
  /\ touched \in SUBSET Row
  /\ restore \in [Restore -> {"none", "store", "unpack", "extract", "finally", "done"}]
  /\ upload \in SUBSET Restore
  /\ viewer \in {"play", "stop"} /\ killed \in BOOLEAN

\* stream_backup(): a backup that ends well holds the file of every asset that
\* its database names, if that was there when the database was copied (a delete
\* or a task may have been, or have died, between file and row) and was not
\* removed since; what it could not add ends the transfer in the middle.
ArchiveIsWhole ==
  client = "complete" =>
    \A r \in Row \ touched :
      archive.rows[r].live /\ Nature[r[2]] # "page"
      => <<r, archive.rows[r].uri>> \in archive.files

\* stream_backup(): a backup that ends well needs no second look: the assets of
\* its database have their files. Refuted, by a delete between file and row.
CompleteIsWhole ==
  client = "complete" =>
    \A r \in Row :
      archive.rows[r].live /\ ~archive.rows[r].processing /\ Nature[r[2]] # "page"
      => <<r, archive.rows[r].uri>> \in archive.files

\* stream_backup(): however a backup ends, and whenever its client goes away,
\* the thread is gone and both ends of the pipe are closed.
BackupEnds ==
  producer = "add" ~> producer = "gone" /\ reader = "end" /\ ~writing /\ ~reading

\* settings_recover() and RecoverViewMixin.post(): once no restore is at work,
\* the viewer plays and no upload is left, unless the server died in one.
RestoreReleases ==
  (\A q \in Restore : restore[q] \in {"none", "done"}) /\ ~killed
    => viewer = "play" /\ upload = {}

=============================================================================
