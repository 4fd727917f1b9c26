---------------------------- MODULE AssetPipeline ----------------------------
(***************************************************************************)
(* The life of one uploaded asset on the server: its row of the table      *)
(* `assets`, its files in assetdir, and everyone who writes to them:       *)
(*   - the request that uploads it and queues its first task;              *)
(*   - the celery worker, a pool of processes that run the tasks           *)
(*     download_remote_video_asset / download_youtube_asset,               *)
(*     normalize_image_asset and normalize_video_asset;                    *)
(*   - the periodic reconcile_stuck_processing and cleanup;                *)
(*   - the requests of the operators, which edit or delete the row.        *)
(* Every task works on the row it read when it began, and so do the        *)
(* requests, whose asset.save() writes every column of it.                 *)
(*                                                                         *)
(* Time is the age of the stamp processing_started_at and of the files:    *)
(* Age is an hour that passes, the threshold of both periodic tasks. No    *)
(* attempt of a task, request or sweep takes that long (time limits of 2   *)
(* to 15 minutes); a queued task may wait MaxBacklog hours.                *)
(***************************************************************************)
EXTENDS Naturals, FiniteSets

CONSTANTS
  Worker,     \* the processes of the pool
  Kinds,      \* the kinds of asset of an instance, see Kind
  Operators,  \* requests of operators that are served at the same time
  MaxBacklog, \* bound: hours that pass while a task is queued
  MaxEdits,   \* bound: edits of the row
  MaxDeletes, \* bound: requests that delete it
  MaxFaults   \* bound: tasks killed, transient OSErrors, and tasks that could
              \* not be queued

\* "convert": an image of another format, which becomes a WebP; "shrink": a
\* JPEG or PNG too large for the board, resized in place; "video": an
\* uploaded video; "remote": a video to be downloaded.
Kind == {"convert", "shrink", "video", "remote"}

ASSUME PipelineAssumption ==
  /\ Kinds \subseteq Kind
  /\ Operators \in Nat /\ MaxBacklog \in Nat /\ MaxEdits \in Nat
  /\ MaxDeletes \in Nat /\ MaxFaults \in Nat

VARIABLES
  kind,     \* of the asset
  good,     \* its content can be decoded, and played on this board
  swallowed, \* the errors that a task has passed over, see Swallowed
  upload,   \* progress of the request that creates it
  row,      \* the row of the asset
  disk,     \* the files of the asset in assetdir
  aged,     \* those last written more than an hour ago
  queue,    \* the messages of the broker, as a bag
  task,     \* what each process of the pool does
  sweep,    \* the row reconcile_stuck_processing has read
  clean,    \* the old unreferenced files cleanup has yet to look at
  edit,     \* the row a request that edits has read
  delete,   \* progress of the request that deletes, and the uri it has read
  used      \* how much of each bound is used up

pool == <<task, queue>>
pipelineVars == <<kind, good, swallowed, upload, row, disk, aged, queue, task,
                  sweep, clean, edit, delete, used>>

Uri == {"src", "webp"}

\* The files: the upload, the WebP made of it, and `final_uri`.tmp or
\* `location`.part.
File == Uri \cup {"staging"}

\* "whole" is the upload as it came, "fit" what the image task makes of it.
Content == {"none", "partial", "whole", "fit"}

Stamp == {"none", "fresh", "old"}

\* "header": the header of an image to be resized could not be read;
\* "original": that of a converted image could not be removed.
Swallowed == {"header", "original"}

\* `failed` is metadata.error_message, `stamp` processing_started_at.
Row == [live : BOOLEAN, processing : BOOLEAN, enabled : BOOLEAN, uri : Uri,
        failed : BOOLEAN, stamp : Stamp]

NoRow == [live |-> FALSE, processing |-> FALSE, enabled |-> FALSE,
          uri |-> "src", failed |-> FALSE, stamp |-> "none"]

NewRow(stamp) == [NoRow EXCEPT !.live = TRUE, !.processing = TRUE,
                               !.enabled = TRUE, !.stamp = stamp]

Job == {"download", "image", "video"}
Tries(job) == IF job = "video" THEN 1 ELSE 2
Message == {m \in [job : Job, tries : 0..2] : m.tries <= Tries(m.job)}

Step == {"idle", "fetch", "fetching", "record", "chain", "decode", "header",
         "encode", "write", "replace", "unlink", "commit", "probe", "reject",
         "failed"}

Task == [job : Job, tries : 0..2, at : Step, snap : Row, out : File]
Idle == [job |-> "image", tries |-> 0, at |-> "idle", snap |-> NoRow,
         out |-> "staging"]

IsImage == kind \in {"convert", "shrink"}

\* The file the row of a finished asset names, and what it must hold.
Final == IF kind = "convert" THEN "webp" ELSE "src"
Finished == IF IsImage THEN "fit" ELSE "whole"

FirstJob ==
  IF IsImage THEN "image" ELSE IF kind = "video" THEN "video" ELSE "download"

Bounds == {"backlog", "edits", "deletes", "faults"}
Use(b) == used' = [used EXCEPT ![b] = @ + 1]

-----------------------------------------------------------------------------
(* What all of them do to the row, the files and the queue *)

\* Asset.objects.filter(asset_id=...).update(...): nothing if there is no row.
Update(r) == IF row.live THEN r ELSE row

\* stamp_processing_start(), which reads the row anew.
Stamped == Update([row EXCEPT !.stamp = "fresh"])

Put(q, m) == [q EXCEPT ![m] = @ + 1]
Msg(job, tries) == [job |-> job, tries |-> tries]

\* _set_processing_error(): reads the row anew, whatever its state.
SetError == Update([row EXCEPT !.processing = FALSE, !.enabled = FALSE,
                               !.failed = TRUE])

Written(f, c) ==
  /\ disk' = [disk EXCEPT ![f] = c]
  /\ aged' = aged \ {f}

\* os.replace(): the file and its mtime take the place of the target.
Moved(f, target) ==
  /\ disk' = [disk EXCEPT ![target] = disk[f], ![f] = "none"]
  /\ aged' = (aged \ {f, target}) \cup (IF f \in aged THEN {target} ELSE {})

Removed(f) ==
  /\ disk' = [disk EXCEPT ![f] = "none"]
  /\ aged' = aged \ {f}

-----------------------------------------------------------------------------
(* The upload *)

\* The bytes of an upload are written before its row is. On a full disk the
\* part of them that was written is removed, and there is no row.
Store ==
  /\ upload = "none"
  /\ \/ /\ upload' = "stored"
        /\ IF kind = "remote" THEN UNCHANGED <<disk, aged>>
           ELSE Written("src", "whole")
        /\ UNCHANGED used
     \/ /\ kind # "remote" /\ used["faults"] < MaxFaults /\ Use("faults")
        /\ upload' = "done"
        /\ UNCHANGED <<disk, aged>>
  /\ UNCHANGED <<kind, good, swallowed, row, pool, sweep, clean, edit,
                 delete>>

\* The row, the stamp and the message. The broker can be away, and the server
\* can die before it stamps, and the row then waits for a task nobody queued;
\* or before there is a row.
Create ==
  /\ upload = "stored"
  /\ upload' = "done"
  /\ \/ /\ row' = NewRow("fresh")
        /\ queue' = Put(queue, Msg(FirstJob, 0))
        /\ UNCHANGED used
     \/ /\ used["faults"] < MaxFaults
        /\ Use("faults")
        /\ row' \in {NoRow, NewRow("none"), NewRow("fresh")}
        /\ UNCHANGED queue
  /\ UNCHANGED <<kind, good, swallowed, disk, aged, task, sweep, clean, edit,
                 delete>>

-----------------------------------------------------------------------------
(* A task *)

Go(w, step) == task' = [task EXCEPT ![w].at = step]
Stop(w) == task' = [task EXCEPT ![w] = Idle]

FirstStep(job) ==
  CASE job = "download" -> "fetch" [] job = "image" -> "decode"
    [] job = "video" -> "probe"

\* _row_or_none(), and the same guard of the downloads.
RowOrNone == row.live /\ row.processing

\* A message is acknowledged when it is taken: the task of a process that
\* dies is not queued again.
Take(w) ==
  /\ task[w].at = "idle"
  /\ \E m \in Message :
       /\ queue[m] > 0
       /\ queue' = [queue EXCEPT ![m] = @ - 1]
       /\ IF RowOrNone
          THEN task' = [task EXCEPT ![w] =
                 [job |-> m.job, tries |-> m.tries, at |-> FirstStep(m.job),
                  snap |-> row, out |-> "staging"]]
          ELSE UNCHANGED task
  /\ UNCHANGED <<kind, good, swallowed, upload, row, disk, aged, sweep, clean,
                 edit, delete, used>>

\* Anything but a retried error: on_failure() runs in the same process.
OnFailure(w) ==
  /\ task[w].at = "failed"
  /\ row' = SetError
  /\ Stop(w)
  /\ UNCHANGED <<kind, good, swallowed, upload, disk, aged, queue, sweep,
                 clean, edit, delete, used>>

\* Whether the task opens the image at this step, to decode it.
Opens(w) ==
  \/ task[w].at = "decode" /\ kind = "convert" /\ task[w].snap.uri = "src"
  \/ task[w].at = "header"

\* A transient OSError: an image task removes its staging file (yt-dlp leaves
\* its own), and is queued again until it has had its retries. At "header" it
\* is the pixels that cannot be read.
OsError(w) ==
  /\ task[w].at \in {"fetching", "write", "replace", "probe"} \/ Opens(w)
  /\ used["faults"] < MaxFaults
  /\ Use("faults")
  /\ \/ task[w].at # "probe" /\ Removed("staging")
     \/ task[w].at \in {"fetching", "probe"} /\ UNCHANGED <<disk, aged>>
  /\ IF task[w].tries < Tries(task[w].job)
     THEN Stop(w) /\ queue' = Put(queue, Msg(task[w].job, task[w].tries + 1))
     ELSE Go(w, "failed") /\ UNCHANGED queue
  /\ UNCHANGED <<kind, good, swallowed, upload, row, sweep, clean, edit,
                 delete>>

\* SIGKILL: out of memory, the hard time limit, a restart of the container.
Kill(w) ==
  /\ task[w].at # "idle"
  /\ used["faults"] < MaxFaults
  /\ Use("faults")
  /\ Stop(w)
  /\ UNCHANGED <<kind, good, swallowed, upload, row, disk, aged, queue, sweep,
                 clean, edit, delete>>

-----------------------------------------------------------------------------
(* download_youtube_asset, download_remote_video_asset *)

Fetch(w) ==
  /\ task[w].at = "fetch"
  /\ Written("staging", "partial")
  /\ Go(w, "fetching")
  /\ UNCHANGED <<kind, good, swallowed, upload, row, queue, sweep, clean,
                 edit, delete, used>>

\* The download takes the name that the row was created with.
Landed ==
  /\ disk' = [disk EXCEPT !["src"] = "whole", !["staging"] = "none"]
  /\ aged' = aged \ {"src", "staging"}

\* It is complete, or it is refused for good, which a good video is not.
Fetched(w) ==
  /\ task[w].at = "fetching"
  /\ \/ Landed /\ Go(w, "record")
     \/ /\ ~good
        /\ Removed("staging") \/ UNCHANGED <<disk, aged>>
        /\ Go(w, "failed")
  /\ UNCHANGED <<kind, good, swallowed, upload, row, queue, sweep, clean,
                 edit, delete, used>>

\* The metadata of the row is that of the snapshot, without its error.
Metadata(w) == [row EXCEPT !.failed = FALSE, !.stamp = task[w].snap.stamp]

\* Mutant: the download clears the flag, as if nothing was left to do.
RecordDone(w) ==
  /\ task[w].at = "record"
  /\ row' = Update([Metadata(w) EXCEPT !.processing = FALSE])
  /\ Go(w, "chain")
  /\ UNCHANGED <<kind, good, swallowed, upload, disk, aged, queue, sweep,
                 clean, edit, delete, used>>

Record(w) ==
  /\ task[w].at = "record"
  /\ row' = Update(Metadata(w))
  /\ Go(w, "chain")
  /\ UNCHANGED <<kind, good, swallowed, upload, disk, aged, queue, sweep,
                 clean, edit, delete, used>>

\* dispatch_normalize_video() at the end of a download.
Chain(w) ==
  /\ task[w].at = "chain"
  /\ row' = Stamped
  /\ \/ queue' = Put(queue, Msg("video", 0)) /\ Stop(w) /\ UNCHANGED used
     \/ /\ used["faults"] < MaxFaults /\ Use("faults")
        /\ Go(w, "failed")
        /\ UNCHANGED queue
  /\ UNCHANGED <<kind, good, swallowed, upload, disk, aged, sweep, clean,
                 edit, delete>>

-----------------------------------------------------------------------------
(* normalize_image_asset *)

\* The end of an image or video task: the columns it writes are those of the
\* file it made, and the metadata of its snapshot.
Committed(w, uri) ==
  Update([Metadata(w) EXCEPT !.processing = FALSE, !.uri = uri])

\* The image is decoded, and goes on or fails for good without its staging file.
Decoded(w, sound) ==
  IF sound THEN Go(w, "encode") /\ UNCHANGED <<disk, aged>>
  ELSE Go(w, "failed") /\ Removed("staging")

\* A missing file is a failure for good. A WebP needs nothing, for it was
\* converted before. Any other image is converted, or its header is read.
Decode(w) ==
  LET uri == task[w].snap.uri IN
  /\ task[w].at = "decode"
  /\ \/ /\ disk[uri] = "none"
        /\ Go(w, "failed")
        /\ UNCHANGED <<row, disk, aged>>
     \/ /\ disk[uri] # "none" /\ uri = "webp"
        /\ row' = Committed(w, row.uri)
        /\ Stop(w)
        /\ UNCHANGED <<disk, aged>>
     \/ /\ disk[uri] # "none" /\ uri = "src" /\ kind = "shrink"
        /\ Go(w, "header")
        /\ UNCHANGED <<row, disk, aged>>
     \/ /\ disk[uri] # "none" /\ uri = "src" /\ kind # "shrink"
        /\ Decoded(w, good /\ disk[uri] = "whole")
        /\ UNCHANGED row
  /\ UNCHANGED <<kind, good, swallowed, upload, queue, sweep, clean, edit,
                 delete, used>>

\* needs_low_ram_image_downscale(): an image that fits is done, and so is one
\* whose header cannot be read, for whatever reason: the file is gone since,
\* or the disk fails. (What another task has only begun to write has a size
\* that fits, or no header yet.)
Header(w) ==
  LET uri == task[w].snap.uri IN
  /\ task[w].at = "header"
  /\ \/ /\ \/ disk[uri] = "none" /\ UNCHANGED used
           \/ used["faults"] < MaxFaults /\ Use("faults")
        /\ swallowed' = swallowed \cup {"header"}
        /\ row' = Committed(w, row.uri)
        /\ Stop(w)
        /\ UNCHANGED <<disk, aged>>
     \/ /\ disk[uri] \in {"partial", "fit"}
        /\ row' = Committed(w, row.uri)
        /\ Stop(w)
        /\ UNCHANGED <<swallowed, disk, aged, used>>
     \/ /\ disk[uri] = "whole"
        /\ Decoded(w, good)
        /\ UNCHANGED <<swallowed, row, used>>
  /\ UNCHANGED <<kind, good, upload, queue, sweep, clean, edit, delete>>

\* The original is opened, then save() truncates the staging file and writes
\* to it: `out` is the name of the file it has open.
Encode(w) ==
  /\ task[w].at = "encode"
  /\ IF disk["src"] = "none" THEN Go(w, "failed") /\ Removed("staging")
     ELSE /\ Written("staging", "partial")
          /\ task' = [task EXCEPT ![w].at = "write", ![w].out = "staging"]
  /\ UNCHANGED <<kind, good, swallowed, upload, row, queue, sweep, clean,
                 edit, delete, used>>

\* A file that was removed meanwhile is written all the same, without a name.
WriteImage(w) ==
  /\ task[w].at = "write"
  /\ IF disk[task[w].out] = "none" THEN UNCHANGED <<disk, aged>>
     ELSE Written(task[w].out, "fit")
  /\ Go(w, "replace")
  /\ UNCHANGED <<kind, good, swallowed, upload, row, queue, sweep, clean,
                 edit, delete, used>>

\* Two tasks for the same asset share the staging name: the file one of them
\* has open moves when the other replaces, and is not there for its own.
Replace(w) ==
  /\ task[w].at = "replace"
  /\ IF disk["staging"] = "none"
     THEN Go(w, "failed") /\ UNCHANGED <<disk, aged>>
     ELSE /\ Moved("staging", Final)
          /\ task' = [v \in Worker |->
               IF v = w
               THEN [task[w] EXCEPT !.at = IF Final = "src" THEN "commit"
                                           ELSE "unlink"]
               ELSE IF task[v].at = "write" /\ task[v].out = "staging"
               THEN [task[v] EXCEPT !.out = Final] ELSE task[v]]
  /\ UNCHANGED <<kind, good, swallowed, upload, row, queue, sweep, clean,
                 edit, delete, used>>

\* The original is removed before the row names the WebP; or it cannot be,
\* which is passed over.
Unlink(w) ==
  /\ task[w].at = "unlink"
  /\ \/ Removed("src") /\ UNCHANGED <<swallowed, used>>
     \/ /\ used["faults"] < MaxFaults /\ Use("faults")
        /\ swallowed' = swallowed \cup {"original"}
        /\ UNCHANGED <<disk, aged>>
  /\ Go(w, "commit")
  /\ UNCHANGED <<kind, good, upload, row, queue, sweep, clean, edit, delete>>

Commit(w) ==
  /\ task[w].at = "commit"
  /\ row' = Committed(w, Final)
  /\ Stop(w)
  /\ UNCHANGED <<kind, good, swallowed, upload, disk, aged, queue, sweep,
                 clean, edit, delete, used>>

-----------------------------------------------------------------------------
(* normalize_video_asset *)

\* A probe that fails never raises: what it could not read is a codec the
\* board lacks.
Probe(w) ==
  LET uri == task[w].snap.uri IN
  /\ task[w].at = "probe"
  /\ \/ /\ disk[uri] = "none"
        /\ Go(w, "failed")
        /\ UNCHANGED <<row, used>>
     \/ /\ disk[uri] = "whole" /\ good
        /\ row' = Committed(w, row.uri)
        /\ Stop(w)
        /\ UNCHANGED used
     \/ /\ disk[uri] # "none"
        /\ \/ (disk[uri] # "whole" \/ ~good) /\ UNCHANGED used
           \/ used["faults"] < MaxFaults /\ Use("faults")
        /\ Go(w, "reject")
        /\ UNCHANGED row
  /\ UNCHANGED <<kind, good, swallowed, upload, disk, aged, queue, sweep,
                 clean, edit, delete>>

\* The codec of a rejected video is still recorded.
Reject(w) ==
  /\ task[w].at = "reject"
  /\ row' = Update(Metadata(w))
  /\ Go(w, "failed")
  /\ UNCHANGED <<kind, good, swallowed, upload, disk, aged, queue, sweep,
                 clean, edit, delete, used>>

-----------------------------------------------------------------------------
(* reconcile_stuck_processing, one sweep at a time *)

\* A row with a fresh stamp is read and left alone.
SweepLoad ==
  /\ ~sweep.live
  /\ row.live /\ row.processing /\ row.stamp # "fresh"
  /\ sweep' = row
  /\ UNCHANGED <<kind, good, swallowed, upload, row, disk, aged, pool, clean,
                 edit, delete, used>>

\* Mutant: rows without a stamp are passed over.
SweepStampedOnly ==
  /\ sweep.live
  /\ sweep' = NoRow
  /\ \/ /\ sweep.stamp # "old"
        /\ UNCHANGED <<row, queue, used>>
     \/ /\ sweep.stamp = "old"
        /\ row' = Stamped
        /\ \/ /\ queue' = Put(queue, Msg(IF IsImage THEN "image" ELSE "video", 0))
              /\ UNCHANGED used
           \/ used["faults"] < MaxFaults /\ Use("faults") /\ UNCHANGED queue
  /\ UNCHANGED <<kind, good, swallowed, upload, disk, aged, task, clean, edit,
                 delete>>

\* By the row it has read, a sweep stamps, waits or queues a task again: the
\* one for the mimetype, which for a download is that of the video; or it has
\* run out of its soft time limit, and leaves the row to the next.
SweepRow ==
  /\ sweep.live
  /\ sweep' = NoRow
  /\ \/ /\ sweep.stamp = "none"
        /\ row' = Stamped
        /\ UNCHANGED <<queue, used>>
     \/ /\ sweep.stamp = "old"
        /\ row' = Stamped
        /\ \/ /\ queue' = Put(queue, Msg(IF IsImage THEN "image" ELSE "video", 0))
              /\ UNCHANGED used
           \/ used["faults"] < MaxFaults /\ Use("faults") /\ UNCHANGED queue
     \/ /\ used["faults"] < MaxFaults /\ Use("faults")
        /\ UNCHANGED <<row, queue>>
  /\ UNCHANGED <<kind, good, swallowed, upload, disk, aged, task, clean, edit,
                 delete>>

-----------------------------------------------------------------------------
(* cleanup *)

\* Mutant: however recent a file is.
ExpiredAnyAge == {f \in File : disk[f] # "none"}

\* The files whose mtime is an hour ago.
Expired == aged

\* The old .tmp files are deleted (a download stages to a .part), then the
\* files the rows reference are read, and the directory is listed. No file
\* gets old while cleanup runs, so the recent ones are passed over at once.
CleanBegin ==
  /\ clean = {}
  /\ IF IsImage /\ "staging" \in aged THEN Removed("staging")
     ELSE UNCHANGED <<disk, aged>>
  /\ clean' = Expired' \ (IF row.live THEN {row.uri} ELSE {})
  /\ UNCHANGED <<kind, good, swallowed, upload, row, pool, sweep, edit,
                 delete, used>>

\* Its age is that of the moment.
CleanFile(f) ==
  /\ f \in clean
  /\ clean' = clean \ {f}
  /\ IF f \in Expired THEN Removed(f)
     ELSE UNCHANGED <<disk, aged>>
  /\ UNCHANGED <<kind, good, swallowed, upload, row, pool, sweep, edit,
                 delete, used>>

-----------------------------------------------------------------------------
(* The requests of the operators *)

Serving == (IF edit.live THEN 1 ELSE 0)
              + (IF delete.at = "none" THEN 0 ELSE 1)

EditLoad ==
  /\ row.live /\ ~edit.live
  /\ Serving < Operators
  /\ used["edits"] < MaxEdits
  /\ Use("edits")
  /\ edit' = row
  /\ UNCHANGED <<kind, good, swallowed, upload, row, disk, aged, pool, sweep,
                 clean, delete>>

\* assets_update(), assets_toggle() and the update() of the serializers:
\* asset.save() writes every column, and inserts the row if it is gone.
EditSave ==
  /\ edit.live
  /\ \E e \in BOOLEAN : row' = [edit EXCEPT !.enabled = e]
  /\ edit' = NoRow
  /\ UNCHANGED <<kind, good, swallowed, upload, disk, aged, pool, sweep,
                 clean, delete, used>>

NotDeleting == [at |-> "none", uri |-> "src"]

\* delete_asset_with_file()
DeleteLoad ==
  /\ row.live /\ delete.at = "none"
  /\ Serving < Operators
  /\ used["deletes"] < MaxDeletes
  /\ Use("deletes")
  /\ delete' = [at |-> "file", uri |-> row.uri]
  /\ UNCHANGED <<kind, good, swallowed, upload, row, disk, aged, pool, sweep,
                 clean, edit>>

\* A file that cannot be removed is left to cleanup().
DeleteFile ==
  /\ delete.at = "file"
  /\ \/ Removed(delete.uri) /\ UNCHANGED used
     \/ used["faults"] < MaxFaults /\ Use("faults") /\ UNCHANGED <<disk, aged>>
  /\ delete' = [delete EXCEPT !.at = "row"]
  /\ UNCHANGED <<kind, good, swallowed, upload, row, pool, sweep, clean,
                 edit>>

DeleteRow ==
  /\ delete.at = "row"
  /\ row' = NoRow
  /\ delete' = NotDeleting
  /\ UNCHANGED <<kind, good, swallowed, upload, disk, aged, pool, sweep,
                 clean, edit, used>>

-----------------------------------------------------------------------------
\* An hour in which nothing runs.
Age ==
  /\ upload # "stored"
  /\ \A w \in Worker : task[w].at = "idle"
  /\ IF \A m \in Message : queue[m] = 0 THEN UNCHANGED used
     ELSE used["backlog"] < MaxBacklog /\ Use("backlog")
  /\ ~sweep.live /\ clean = {} /\ Serving = 0
  /\ row' = IF row.stamp = "fresh" THEN [row EXCEPT !.stamp = "old"] ELSE row
  /\ aged' = {f \in File : disk[f] # "none"}
  /\ UNCHANGED <<kind, good, swallowed, upload, disk, pool, sweep, clean,
                 edit, delete>>

\* A new upload, or a row of a restored backup that was in processing when
\* the backup was made, with its file or, if the upload counts as bad, without.
PipelineInit ==
  /\ kind \in Kinds /\ good \in BOOLEAN /\ swallowed = {}
  /\ \/ upload = "none" /\ row = NoRow /\ disk = [f \in File |-> "none"]
     \/ /\ upload = "done" /\ row = NewRow("none")
        /\ \E c \in {"none", "whole"} :
             /\ good => c = "whole"
             /\ disk = [f \in File |-> IF f = "src" THEN c ELSE "none"]
  /\ aged = {}
  /\ queue = [m \in Message |-> 0]
  /\ task = [w \in Worker |-> Idle]
  /\ sweep = NoRow /\ clean = {} /\ edit = NoRow
  /\ delete = NotDeleting
  /\ used = [b \in Bounds |-> 0]

\* What a process of the pool does with a task, short of errors and kills.
Work(w) ==
  \/ Fetch(w) \/ Fetched(w) \/ Record(w) \/ Chain(w)
  \/ Decode(w) \/ Header(w) \/ Encode(w) \/ WriteImage(w) \/ Replace(w)
  \/ Unlink(w) \/ Commit(w)
  \/ Probe(w) \/ Reject(w) \/ OnFailure(w)

PipelineNext ==
  \/ Store \/ Create
  \/ \E w \in Worker : Take(w) \/ Work(w) \/ OsError(w) \/ Kill(w)
  \/ SweepLoad \/ SweepRow
  \/ CleanBegin \/ \E f \in File : CleanFile(f)
  \/ EditLoad \/ EditSave
  \/ DeleteLoad \/ DeleteFile \/ DeleteRow
  \/ Age

PipelineSpec == PipelineInit /\ [][PipelineNext]_pipelineVars

\* The pool takes what is queued and ends what it has begun, beat runs both
\* periodic tasks, requests are answered, and time passes: the hour is
\* enabled only now and then, between two runs of the periodic tasks.
Fairness ==
  /\ WF_pipelineVars(Create)
  /\ \A w \in Worker : WF_pipelineVars(Take(w)) /\ WF_pipelineVars(Work(w))
  /\ WF_pipelineVars(SweepLoad) /\ WF_pipelineVars(SweepRow)
  /\ WF_pipelineVars(CleanBegin) /\ \A f \in File : WF_pipelineVars(CleanFile(f))
  /\ WF_pipelineVars(EditSave) /\ WF_pipelineVars(DeleteFile) /\ WF_pipelineVars(DeleteRow)
  /\ SF_pipelineVars(Age)

PipelineFairSpec == PipelineSpec /\ Fairness

-----------------------------------------------------------------------------
(* Properties *)

\* Every variable has its type, and an aged file exists.
PipelineTypeOK ==
  /\ kind \in Kinds /\ good \in BOOLEAN /\ swallowed \in SUBSET Swallowed
  /\ upload \in {"none", "stored", "done"}
  /\ row \in Row /\ sweep \in Row /\ edit \in Row
  /\ disk \in [File -> Content] /\ aged \in SUBSET File
  /\ \A f \in aged : disk[f] # "none"
  /\ queue \in [Message -> Nat] /\ task \in [Worker -> Task]
  /\ clean \in SUBSET File
  /\ delete \in [at : {"none", "file", "row"}, uri : Uri]
  /\ used \in [Bounds -> Nat]

\* A row that left processing without an error can be played: its file is
\* there, complete, in the format the board plays. Rows in processing are
\* skipped by nobody but the file check of the viewer, so this is what the
\* flag is for. (A row that is being deleted has lost its file already.)
\* But for an image too large for the board whose header could not be read:
\* it is marked done as it was uploaded, large and perhaps corrupt.
ReadyIsPlayable ==
  row.live /\ ~row.processing /\ ~row.failed /\ delete.at # "row" =>
    /\ row.uri = Final
    /\ \/ good /\ disk[row.uri] = Finished
       \/ kind = "shrink" /\ "header" \in swallowed /\ disk[row.uri] = "whole"

\* A task never touches an asset that is ready: a second task for it, which
\* the reconciler queued, finds the flag cleared and does nothing.
ReadyStaysReady ==
  [][\A w \in Worker :
       Work(w) /\ row.live /\ ~row.processing /\ ~row.failed => row' = row]_pipelineVars

\* cleanup() leaves alone the file the row names at that moment, although it
\* has listed the references before; unless an original could not be removed
\* after its conversion, for the save of a stale row may name it again after
\* cleanup() has listed it.
CleanupSparesLive ==
  [][\A f \in File :
       CleanFile(f) /\ row.live /\ disk[row.uri] # "none"
       /\ "original" \notin swallowed
         => disk'[row.uri] = disk[row.uri]]_pipelineVars

\* No row stays in processing: whatever is lost, killed or retried, the task
\* ends, or the reconciler runs it again, or its failure is recorded.
ProcessingEnds == row.live /\ row.processing ~> ~(row.live /\ row.processing)

\* Once its row is deleted, no file of the asset stays behind for ever.
OrphansRemoved ==
  upload = "done" /\ ~row.live ~> \A f \in File : disk[f] = "none"

\* What reconcile_stuck_processing says of a worker "killed mid-task": it
\* recovers the row. A good upload is then not reported as failed.
GoodUploadSucceeds == good => ~row.failed

\* What needs_low_ram_image_downscale says of the header it cannot read: a
\* corrupt upload "fails later with a real decode error", and no resize is
\* "silently skipped".
ResizeIsNeverSkipped ==
  kind = "shrink" /\ row.live /\ ~row.processing /\ ~row.failed
  /\ delete.at # "row" => disk[row.uri] = "fit"

\* "Persist": an asset that was deleted does not come back.
DeletedStaysDeleted == [][upload = "done" /\ ~row.live => ~row'.live]_pipelineVars

=============================================================================
