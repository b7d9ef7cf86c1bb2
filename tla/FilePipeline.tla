---------------------------- MODULE FilePipeline ----------------------------
(***************************************************************************)
(* Files: an upload stores the content, creates the row and enqueues the   *)
(* processing; worker slots process the entry; clients delete and download *)
(* meanwhile.  Content, row and entry live in three stores (local disk,    *)
(* PostgreSQL, Redis) that no transaction spans.                           *)
(***************************************************************************)
EXTENDS BullQueue

CONSTANTS
  Files,         \* the files clients may upload
  NoFile,        \* the file of an idle slot or an unused request
  Deletes,       \* DELETE /v1/files/:id requests
  Downloads,     \* GET /v1/files/:id/download requests
  MaxAttempts,   \* the attempts option of the file-processing queue
  MaxCrashes,    \* bound on crashes of worker slots
  MaxErrors      \* bound on rejected calls and aborted requests

ASSUME FileAssumption ==
  /\ NoFile \notin Files
  /\ MaxAttempts \in Nat \ {0}
  /\ MaxCrashes \in Nat
  /\ MaxErrors \in Nat

VARIABLES
  upload,     \* how far the upload of a file has come
  blob,       \* the files whose content is on the disk
  row,        \* the status of a file's row
  entry,      \* the file's entry in the file-processing queue
  run,        \* what each worker slot is doing
  delete,     \* the delete requests
  download,   \* the download requests
  announced,  \* the file events that went to dispatchEvent
  overlap,    \* files with a delete request sent before their processing was
              \* over (history)
  faults      \* faults so far; uncaught: calls of the processor that rejected
              \* outside its try block

vars == <<upload, blob, row, entry, run, delete, download, announced, overlap, faults>>

FileStatus == {"NONE", "UPLOADED", "PROCESSING", "READY", "FAILED", "DELETED"}

TrySteps == {"markProcessing", "extract", "markReady", "announceReady"}
CatchSteps == {"markFailed", "announceFailed"}
RunStep == {"idle", "read", "ack", "nack"} \cup TrySteps \cup CatchSteps

Idle == [pc |-> "idle", file |-> NoFile]

Init ==
  /\ upload = [f \in Files |-> "store"]
  /\ blob = {}
  /\ row = [f \in Files |-> "NONE"]
  /\ entry = [f \in Files |-> Absent]
  /\ run = [s \in Slots |-> Idle]
  /\ delete = [r \in Deletes |-> Idle]
  /\ download = [r \in Downloads |-> Idle]
  /\ announced = [f \in Files |-> {}]
  /\ overlap = {}
  /\ faults = [crash |-> 0, error |-> 0, uncaught |-> 0]

CountError ==
  /\ faults.error < MaxErrors
  /\ faults' = [faults EXCEPT !.error = @ + 1]

CountUncaught ==
  /\ faults.error < MaxErrors
  /\ faults' = [faults EXCEPT !.error = @ + 1, !.uncaught = @ + 1]

\* getFile answers 404 for these.
Hidden(status) == status \in {"NONE", "DELETED"}

updateFileStatus(f, status) == [row EXCEPT ![f] = status]

dispatchEvent(f, event) == [announced EXCEPT ![f] = @ \cup {event}]

\* The file's processing is over, or has never been enqueued and never will.
AtRest(f) ==
  /\ upload[f] \in {"done", "failed"}
  /\ Finished(entry[f]) \/ entry[f].st = "absent"
  /\ \A s \in Slots : run[s].file # f

(***************************************************************************)
(* uploadFile.                                                             *)
(***************************************************************************)
\* storage.upload, and a form that swallows the provider's error.
StoreBlobSwallowing(f) ==
  /\ upload[f] = "store"
  /\ blob' \in {blob, blob \cup {f}}
  /\ upload' = [upload EXCEPT ![f] = "create"]
  /\ UNCHANGED <<row, entry, run, delete, download, announced, overlap, faults>>

StoreBlob(f) ==
  /\ upload[f] = "store"
  /\ blob' = blob \cup {f}
  /\ upload' = [upload EXCEPT ![f] = "create"]
  /\ UNCHANGED <<row, entry, run, delete, download, announced, overlap, faults>>

CreateFile(f) ==
  /\ upload[f] = "create"
  /\ row' = updateFileStatus(f, "UPLOADED")
  /\ upload' = [upload EXCEPT ![f] = "add"]
  /\ UNCHANGED <<blob, entry, run, delete, download, announced, overlap, faults>>

AddFile(f) ==
  /\ upload[f] = "add"
  /\ entry' = [entry EXCEPT ![f] = Add(@)]
  /\ upload' = [upload EXCEPT ![f] = "done"]
  /\ UNCHANGED <<blob, row, run, delete, download, announced, overlap, faults>>

\* A call rejects or the API process dies; what was done so far stays, and the
\* queue's add may have reached Redis.
AbortUpload(f) ==
  /\ upload[f] \in {"store", "create", "add"}
  /\ CountError
  /\ upload' = [upload EXCEPT ![f] = "failed"]
  /\ IF upload[f] = "add" THEN entry' \in {entry, [entry EXCEPT ![f] = Add(@)]}
                          ELSE UNCHANGED entry
  /\ UNCHANGED <<blob, row, run, delete, download, announced, overlap>>

(***************************************************************************)
(* deleteFile: the row first, then the content.                            *)
(***************************************************************************)
DeleteRead(r, f) ==
  /\ delete[r].pc = "idle"
  /\ overlap' = IF AtRest(f) THEN overlap ELSE overlap \cup {f}
  /\ delete' = [delete EXCEPT ![r] =
       [pc |-> IF Hidden(row[f]) THEN "notFound" ELSE "update", file |-> f]]
  /\ UNCHANGED <<upload, blob, row, entry, run, download, announced, faults>>

\* The soft delete, and a form that forgets the content.
DeleteRowOnly(r) ==
  /\ delete[r].pc = "update"
  /\ row' = updateFileStatus(delete[r].file, "DELETED")
  /\ delete' = [delete EXCEPT ![r].pc = "ok"]
  /\ UNCHANGED <<upload, blob, entry, run, download, announced, overlap, faults>>

DeleteRow(r) ==
  /\ delete[r].pc = "update"
  /\ row' = updateFileStatus(delete[r].file, "DELETED")
  /\ delete' = [delete EXCEPT ![r].pc = "unlink"]
  /\ UNCHANGED <<upload, blob, entry, run, download, announced, overlap, faults>>

\* storage.delete ignores a missing file; any other error is only logged.
DeleteBlob(r) ==
  /\ delete[r].pc = "unlink"
  /\ \/ blob' = blob \ {delete[r].file} /\ UNCHANGED faults
     \/ CountError /\ UNCHANGED blob
  /\ delete' = [delete EXCEPT ![r].pc = "ok"]
  /\ UNCHANGED <<upload, row, entry, run, download, announced, overlap>>

\* The update rejects, or the API process dies between the steps.
AbortDelete(r) ==
  /\ delete[r].pc \in {"update", "unlink"}
  /\ CountError
  /\ delete' = [delete EXCEPT ![r].pc = "error"]
  /\ UNCHANGED <<upload, blob, row, entry, run, download, announced, overlap>>

(***************************************************************************)
(* downloadFile.  Its calls may reject as well, into the client's "error"; *)
(* they change nothing, and are not counted as faults.                     *)
(***************************************************************************)
DownloadRead(r, f) ==
  /\ download[r].pc = "idle"
  /\ \E answer \in {"error", IF Hidden(row[f]) THEN "notFound"
                             ELSE IF row[f] # "READY" THEN "notReady" ELSE "fetch"} :
       download' = [download EXCEPT ![r] = [file |-> f, pc |-> answer]]
  /\ UNCHANGED <<upload, blob, row, entry, run, delete, announced, overlap, faults>>

\* storage.download says "File not found" for ENOENT, and rethrows everything else.
DownloadBlob(r) ==
  /\ download[r].pc = "fetch"
  /\ \E answer \in {"error", IF download[r].file \in blob THEN "ok" ELSE "missing"} :
       download' = [download EXCEPT ![r].pc = answer]
  /\ UNCHANGED <<upload, blob, row, entry, run, delete, announced, overlap, faults>>

(***************************************************************************)
(* The file processor of workers/index.ts.                                 *)
(***************************************************************************)
TakeFile(s, f) ==
  /\ run[s].pc = "idle"
  /\ entry[f].st = "waiting"
  /\ entry' = [entry EXCEPT ![f] = Take(@, s)]
  /\ run' = [run EXCEPT ![s] = [pc |-> "read", file |-> f]]
  /\ UNCHANGED <<upload, blob, row, delete, download, announced, overlap, faults>>

Goto(s, step) == run' = [run EXCEPT ![s].pc = step]

\* file.status === DELETED is looked at once, before the work.
ReadFile(s) ==
  /\ run[s].pc = "read"
  /\ \/ Goto(s, IF Hidden(row[run[s].file]) THEN "ack" ELSE "markProcessing") /\ UNCHANGED faults
     \/ Goto(s, "nack") /\ CountUncaught
  /\ UNCHANGED <<upload, blob, row, entry, delete, download, announced, overlap>>

\* An awaited call of the processor: it resolves, or it rejects whether or
\* not it took effect, into the catch block or out of it.
Await(s, step, next, rowWrite, events) ==
  /\ run[s].pc = step
  /\ \/ Goto(s, next) /\ row' = rowWrite /\ announced' = events /\ UNCHANGED faults
     \/ /\ IF step \in TrySteps THEN Goto(s, "markFailed") /\ CountError
                               ELSE Goto(s, "nack") /\ CountUncaught
        /\ row' \in {row, rowWrite}
        /\ announced' \in {announced, events}
  /\ UNCHANGED <<upload, blob, entry, delete, download, overlap>>

MarkProcessing(s) ==
  Await(s, "markProcessing", "extract", updateFileStatus(run[s].file, "PROCESSING"), announced)

\* Two seconds of simulated work.
Extract(s) ==
  /\ run[s].pc = "extract"
  /\ Goto(s, "markReady")
  /\ UNCHANGED <<upload, blob, row, entry, delete, download, announced, overlap, faults>>

MarkReady(s) ==
  Await(s, "markReady", "announceReady", updateFileStatus(run[s].file, "READY"), announced)

AnnounceReady(s) ==
  Await(s, "announceReady", "ack", row, dispatchEvent(run[s].file, "processed"))

MarkFailed(s) ==
  Await(s, "markFailed", "announceFailed", updateFileStatus(run[s].file, "FAILED"), announced)

AnnounceFailed(s) ==
  Await(s, "announceFailed", "nack", row, dispatchEvent(run[s].file, "failed"))

\* The slot after its processor settled.
FreedKeepingFile(w) == [w EXCEPT !.pc = "idle"]
Freed(w) == Idle

\* BullMQ records the outcome only for the slot that still holds the lock.
Finish(s, step, new) ==
  LET f == run[s].file IN
  /\ run[s].pc = step
  /\ entry' = IF entry[f].holder = s THEN [entry EXCEPT ![f] = new] ELSE entry
  /\ run' = [run EXCEPT ![s] = Freed(@)]
  /\ UNCHANGED <<upload, blob, row, delete, download, announced, overlap, faults>>

Ack(s) == Finish(s, "ack", Complete(entry[run[s].file]))

\* The catch block rethrows; a processor that swallowed the error would ack.
SwallowedNack(s) == Finish(s, "nack", Complete(entry[run[s].file]))
Nack(s) == Finish(s, "nack", Fail(entry[run[s].file], MaxAttempts))

(***************************************************************************)
(* Faults, and the queue's own timers.                                     *)
(***************************************************************************)
\* The slots of some worker processes die; the processes restart.
Crash(dead) ==
  /\ faults.crash < MaxCrashes
  /\ faults' = [faults EXCEPT !.crash = @ + 1]
  /\ run' = [s \in Slots |-> IF s \in dead THEN Idle ELSE run[s]]
  /\ entry' = [f \in Files |->
       IF entry[f].holder \in dead THEN [entry[f] EXCEPT !.holder = Orphan] ELSE entry[f]]
  /\ UNCHANGED <<upload, blob, row, delete, download, announced, overlap>>

QueueStep(f, new) ==
  /\ entry' = [entry EXCEPT ![f] = new]
  /\ UNCHANGED <<upload, blob, row, run, delete, download, announced, overlap, faults>>

ExpireLock(f) == entry[f].holder = Orphan /\ QueueStep(f, ReleaseLock(entry[f]))

StalledCheck(f) ==
  entry[f].st = "active" /\ entry[f].holder = NoLock /\ QueueStep(f, Stall(entry[f]))

EndBackoff(f) == entry[f].st = "delayed" /\ QueueStep(f, Promote(entry[f]))

\* removeOnComplete keeps the last 100 entries, removeOnFail keeps them all.
Trim(f) == entry[f].st = "completed" /\ QueueStep(f, Absent)

-----------------------------------------------------------------------------
Uploading(f) == StoreBlob(f) \/ CreateFile(f) \/ AddFile(f)

Process(s) ==
  \/ ReadFile(s) \/ MarkProcessing(s) \/ Extract(s) \/ MarkReady(s) \/ AnnounceReady(s)
  \/ MarkFailed(s) \/ AnnounceFailed(s) \/ Ack(s) \/ Nack(s)

QueueTimer(f) == ExpireLock(f) \/ StalledCheck(f) \/ EndBackoff(f)

Next ==
  \/ \E f \in Files : Uploading(f) \/ AbortUpload(f)
  \/ \E r \in Deletes :
       DeleteRow(r) \/ DeleteBlob(r) \/ AbortDelete(r) \/ \E f \in Files : DeleteRead(r, f)
  \/ \E r \in Downloads : DownloadBlob(r) \/ \E f \in Files : DownloadRead(r, f)
  \/ \E s \in Slots : Process(s) \/ \E f \in Files : TakeFile(s, f)
  \/ \E dead \in SUBSET Slots : dead # {} /\ Crash(dead)
  \/ \E f \in Files : QueueTimer(f) \/ Trim(f)

Spec == Init /\ [][Next]_vars

\* What the API or a worker started goes on, BullMQ hands out waiting entries
\* and its timers fire.
Fairness ==
  /\ \A r \in Deletes : WF_vars(DeleteRow(r) \/ DeleteBlob(r))
  /\ \A s \in Slots : WF_vars(Process(s))
  /\ \A f \in Files : WF_vars(\E s \in Slots : TakeFile(s, f))
  /\ \A f \in Files : WF_vars(QueueTimer(f))

FairSpec == Spec /\ Fairness

-----------------------------------------------------------------------------
\* Every variable has its type; a slot or a request is idle exactly when it
\* has no file.
TypeOK ==
  /\ upload \in [Files -> {"store", "create", "add", "done", "failed"}]
  /\ blob \in SUBSET Files
  /\ row \in [Files -> FileStatus]
  /\ entry \in [Files -> Entry]
  /\ run \in [Slots -> [pc : RunStep, file : Files \cup {NoFile}]]
  /\ \A s \in Slots : run[s].pc = "idle" <=> run[s].file = NoFile
  /\ delete \in [Deletes -> [pc : {"idle", "notFound", "update", "unlink", "ok", "error"},
                             file : Files \cup {NoFile}]]
  /\ download \in [Downloads -> [pc : {"idle", "notFound", "notReady", "fetch", "ok", "missing",
                                       "error"},
                                 file : Files \cup {NoFile}]]
  /\ \A r \in Deletes : delete[r].pc = "idle" <=> delete[r].file = NoFile
  /\ \A r \in Downloads : download[r].pc = "idle" <=> download[r].file = NoFile
  /\ announced \in [Files -> SUBSET {"processed", "failed"}]
  /\ overlap \in SUBSET Files
  /\ faults \in [crash : Nat, error : Nat, uncaught : Nat]

\* The queue tolerated every crash, and either fewer calls failed than it has
\* attempts or the processor caught every failure of its own.
Calm ==
  /\ faults.crash <= MaxStalledCount
  /\ faults.error < MaxAttempts \/ faults.uncaught = 0

\* A file that clients can see has its content on the disk: the upload stores
\* the content before the row, the delete hides the row before the content.
VisibleHasContent == \A f \in Files \ overlap : ~ Hidden(row[f]) => f \in blob

\* Whatever calls fail, a download that finds no content behind the READY row it has
\* read, is of a file that was deleted after that reading: no crash, failed upload or
\* second delete leaves a row READY whose content is gone.
DownloadMissesOnlyDeleted ==
  \A r \in Downloads :
    download[r].pc = "missing" /\ download[r].file \notin overlap =>
      row[download[r].file] = "DELETED"

\* A delete has written DELETED and has not come to the content yet.
Unlinking(f) == \E r \in Deletes : delete[r].file = f /\ delete[r].pc = "unlink"

\* Once an uploaded file is processed, its row, its events, its queue entry and the
\* disk tell one story; of the disk, when no call failed and no delete is at it.
SettledFile ==
  Calm => \A f \in Files \ overlap : upload[f] = "done" /\ AtRest(f) =>
    /\ row[f] \in {"READY", "FAILED", "DELETED"}
    /\ row[f] = "READY" => "processed" \in announced[f]
    /\ row[f] = "FAILED" => "failed" \in announced[f] /\ entry[f].st = "failed"
    /\ entry[f].st = "failed" => row[f] \in {"FAILED", "DELETED"}
    /\ faults.error = 0 /\ ~ Unlinking(f) => (f \in blob <=> row[f] # "DELETED")

\* Every uploaded file is processed to an end, even when it is deleted
\* meanwhile.
EventuallyProcessed ==
  \A f \in Files :
    upload[f] = "done" ~> ~ Calm \/ (AtRest(f) /\ row[f] \in {"READY", "FAILED", "DELETED"})

\* As long as no call fails, no content is left on the disk that no client can
\* see or delete any more, even when several deletes, the processing and
\* downloads of a file overlap and processing revives a deleted row.
NothingLeftBehind ==
  faults.error = 0 =>
    \A f \in blob : upload[f] = "done" /\ Hidden(row[f]) => Unlinking(f)

\* Deleting a file is for good, whatever happens to its processing; README:
\* DELETE /v1/files/:id deletes the file.
DeletedForGood ==
  [][\A f \in Files : row[f] = "DELETED" => row'[f] = "DELETED"]_vars
=============================================================================
