------------------------- MODULE FilePipelineProofs -------------------------
(***************************************************************************)
(* Theorems of FilePipeline, for every set of files, slots and requests    *)
(* and for every fault budget.                                             *)
(***************************************************************************)
EXTENDS FilePipeline, TLAPS

-----------------------------------------------------------------------------
(***************************************************************************)
(* The inductive invariant.                                                *)
(***************************************************************************)
SlotRecord == [pc : RunStep, file : Files \cup {NoFile}]
DeleteStep == {"idle", "notFound", "update", "unlink", "ok", "error"}
DeleteRecord == [pc : DeleteStep, file : Files \cup {NoFile}]
DownloadStep == {"idle", "notFound", "notReady", "fetch", "ok", "missing", "error"}
DownloadRecord == [pc : DownloadStep, file : Files \cup {NoFile}]

Alive == {"waiting", "active", "delayed"}

\* How far the upload has come, against the row and the entry; and whose lock the
\* entry carries.
Birth(f) ==
  /\ upload[f] \in {"store", "create"} => row[f] = "NONE"
  /\ upload[f] \in {"add", "done"} => row[f] # "NONE"
  /\ upload[f] \in {"store", "create", "add"} => entry[f] = Absent
  /\ entry[f].st # "absent" => row[f] # "NONE"
  /\ entry[f].holder # NoLock => entry[f].st = "active"
  /\ entry[f].holder \in Slots => run[entry[f].holder].file = f

Busy(s) ==
  run[s].pc # "idle" => entry[run[s].file].st = "active" /\ entry[run[s].file].holder = s

\* A request that found the file works on a row that exists.
Found ==
  /\ \A r \in Deletes : delete[r].pc \in {"update", "unlink"} => row[delete[r].file] # "NONE"
  /\ \A r \in Downloads : download[r].pc = "fetch" => row[download[r].file] # "NONE"

\* A file whose deletes, if any, were sent when nothing was left to process: its
\* row and its content disappear in this order, and nobody brings them back.
Kept(f) ==
  f \notin overlap =>
    /\ \A r \in Deletes : delete[r].file = f =>
         AtRest(f) /\ (delete[r].pc = "unlink" => row[f] = "DELETED")
    /\ row[f] = "DELETED" => AtRest(f)
    /\ f \notin blob => Hidden(row[f]) /\ (upload[f] = "store" \/ AtRest(f))
    /\ \A r \in Downloads : download[r].file = f /\ download[r].pc = "missing" => row[f] = "DELETED"

\* Without failed calls, the content of a deleted row is about to go.
Leftover(f) ==
  faults.error = 0 /\ f \in blob /\ row[f] = "DELETED" =>
    \E r \in Deletes : delete[r].file = f /\ delete[r].pc = "unlink"

FileInv ==
  /\ \A f \in Files : Birth(f) /\ Kept(f) /\ Leftover(f)
  /\ \A s \in Slots : Busy(s)
  /\ Found

(***************************************************************************)
(* The story of a file's processing, while Calm holds: what its row and    *)
(* its events say at each step, and why the queue never gives up without   *)
(* a failure that the processor has caught and reported.                   *)
(***************************************************************************)
Cut(e) == e.stalls + (IF e.st = "active" /\ e.holder \notin Slots THEN 1 ELSE 0)

\* Has the current attempt already failed?
Failing(f) ==
  IF entry[f].holder \in Slots /\ run[entry[f].holder].pc \in CatchSteps \cup {"nack"} THEN 1 ELSE 0

HeldStory(pc, status, events, caught) ==
  /\ pc = "announceReady" => status = "READY"
  /\ pc = "ack" => status = "READY" /\ "processed" \in events
  /\ pc = "announceFailed" /\ caught => status = "FAILED"
  /\ pc = "nack" /\ caught => status = "FAILED" /\ "failed" \in events

Story(f) ==
  /\ entry[f].st \in Alive =>
       /\ Cut(entry[f]) <= faults.crash
       /\ entry[f].made + Failing(f) <= faults.error
       /\ entry[f].made < MaxAttempts
  /\ entry[f].holder \in Slots =>
       HeldStory(run[entry[f].holder].pc, row[f], announced[f], faults.uncaught = 0)
  /\ entry[f].st = "completed" \/ (entry[f].st = "absent" /\ upload[f] = "done") =>
       row[f] = "DELETED" \/ (row[f] = "READY" /\ "processed" \in announced[f])
  /\ entry[f].st = "failed" =>
       row[f] = "DELETED" \/ (row[f] = "FAILED" /\ "failed" \in announced[f])

StoryInv == Calm => \A f \in Files \ overlap : Story(f)

-----------------------------------------------------------------------------
(***************************************************************************)
(* Type correctness.                                                       *)
(***************************************************************************)
UploadStep == {"store", "create", "add", "done", "failed"}
EventSet == SUBSET {"processed", "failed"}
FaultCount == [crash : Nat, error : Nat, uncaught : Nat]

RunType ==
  /\ run \in [Slots -> SlotRecord]
  /\ \A s \in Slots : run[s].pc = "idle" <=> run[s].file = NoFile

StoreType ==
  /\ upload \in [Files -> UploadStep]
  /\ blob \in SUBSET Files
  /\ row \in [Files -> FileStatus]
  /\ entry \in [Files -> Entry]
  /\ announced \in [Files -> EventSet]
  /\ overlap \in SUBSET Files

RequestType ==
  /\ delete \in [Deletes -> DeleteRecord]
  /\ download \in [Downloads -> DownloadRecord]
  /\ \A r \in Deletes : delete[r].pc = "idle" <=> delete[r].file = NoFile
  /\ \A r \in Downloads : download[r].pc = "idle" <=> download[r].file = NoFile

\* TypeOK in parts.
LEMMA TypeParts ==
  /\ TypeOK <=> StoreType /\ RunType /\ RequestType /\ faults \in FaultCount
  /\ TypeOK' <=> StoreType' /\ RunType' /\ RequestType' /\ faults' \in FaultCount
BY DEF TypeOK, StoreType, RunType, RequestType, FaultCount, SlotRecord, DeleteRecord, DownloadRecord,
       DeleteStep, DownloadStep, UploadStep, EventSet

\* Every operation of the queue returns an entry.
LEMMA EntryOperations ==
  ASSUME NEW e \in Entry
  PROVE  /\ Absent \in Entry
         /\ Add(e) \in Entry
         /\ \A s \in Slots : Take(e, s) \in Entry
         /\ Complete(e) \in Entry
         /\ \A n \in Nat : Fail(e, n) \in Entry
         /\ Promote(e) \in Entry
         /\ ReleaseLock(e) \in Entry
         /\ Stall(e) \in Entry
         /\ [e EXCEPT !.holder = Orphan] \in Entry
<1> USE DEF Entry, EntryState
<1>1. Absent \in Entry /\ Add(e) \in Entry
  BY DEF Absent, Add
<1>2. \A s \in Slots : Take(e, s) \in Entry
  BY DEF Take
<1>3. Complete(e) \in Entry
  BY DEF Complete
<1>4. \A n \in Nat : Fail(e, n) \in Entry
  BY DEF Fail
<1>5. Promote(e) \in Entry /\ ReleaseLock(e) \in Entry
  BY DEF Promote, ReleaseLock
<1>6. Stall(e) \in Entry
  BY DEF Stall
<1>7. [e EXCEPT !.holder = Orphan] \in Entry
  OBVIOUS
<1> QED
  BY <1>1, <1>2, <1>3, <1>4, <1>5, <1>6, <1>7

LEMMA TypeInit == Init => TypeOK
BY LockAssumption, FileAssumption
DEF LockAssumption, FileAssumption, Init, TypeOK, FileStatus, Entry, EntryState, Absent, Idle, RunStep

\* A failed call is counted, by the processor also when nothing catches it.
LEMMA FaultType ==
  ASSUME TypeOK
  PROVE  /\ faults \in FaultCount /\ faults.error \in Nat /\ faults.crash \in Nat /\ faults.uncaught \in Nat
         /\ CountError => /\ faults' \in FaultCount /\ faults'.crash = faults.crash
                          /\ faults'.error = faults.error + 1 /\ faults'.uncaught = faults.uncaught
         /\ CountUncaught => /\ faults' \in FaultCount /\ faults'.crash = faults.crash
                             /\ faults'.error = faults.error + 1 /\ faults'.uncaught = faults.uncaught + 1
<1>1. faults \in FaultCount /\ faults.error \in Nat /\ faults.crash \in Nat /\ faults.uncaught \in Nat
  BY DEF TypeOK, FaultCount
<1>2. ASSUME CountError
      PROVE  /\ faults' \in FaultCount /\ faults'.crash = faults.crash
             /\ faults'.error = faults.error + 1 /\ faults'.uncaught = faults.uncaught
  <2>1. faults' = [faults EXCEPT !.error = faults.error + 1]
    BY <1>2 DEF CountError
  <2> QED
    BY <1>1, <2>1 DEF FaultCount
<1>3. ASSUME CountUncaught
      PROVE  /\ faults' \in FaultCount /\ faults'.crash = faults.crash
             /\ faults'.error = faults.error + 1 /\ faults'.uncaught = faults.uncaught + 1
  <2>1. faults' = [faults EXCEPT !.error = faults.error + 1, !.uncaught = faults.uncaught + 1]
    BY <1>3 DEF CountUncaught
  <2>2. faults.error + 1 \in Nat /\ faults.uncaught + 1 \in Nat
    BY <1>1
  <2> QED
    BY <1>1, <2>1, <2>2 DEF FaultCount
<1> QED
  BY <1>1, <1>2, <1>3

LEMMA TypeUpload ==
  ASSUME TypeOK, NEW f \in Files, Uploading(f) \/ AbortUpload(f)
  PROVE  TypeOK'
<1>0. StoreType /\ RunType /\ RequestType /\ faults \in FaultCount
  BY TypeParts
<1>1. UNCHANGED <<run, delete, download, announced, overlap>>
  BY DEF Uploading, StoreBlob, CreateFile, AddFile, AbortUpload
<1>2. faults' \in FaultCount
  BY <1>0, FaultType DEF Uploading, StoreBlob, CreateFile, AddFile, AbortUpload
<1>3. entry' \in [Files -> Entry]
  <2>1. [entry EXCEPT ![f] = Add(@)] \in [Files -> Entry]
    BY <1>0, EntryOperations DEF StoreType
  <2> QED
    BY <1>0, <2>1 DEF StoreType, Uploading, StoreBlob, CreateFile, AddFile, AbortUpload
<1>4. upload' \in [Files -> UploadStep] /\ blob' \in SUBSET Files
  BY <1>0 DEF StoreType, UploadStep, Uploading, StoreBlob, CreateFile, AddFile, AbortUpload
<1>5. row' \in [Files -> FileStatus]
  BY <1>0 DEF StoreType, FileStatus, updateFileStatus, Uploading, StoreBlob, CreateFile, AddFile, AbortUpload
<1>6. StoreType' /\ RunType' /\ RequestType'
  BY <1>0, <1>1, <1>3, <1>4, <1>5 DEF StoreType, RunType, RequestType
<1> QED
  BY <1>2, <1>6, TypeParts

LEMMA TypeDelete ==
  ASSUME TypeOK, NEW r \in Deletes,
         DeleteRow(r) \/ DeleteBlob(r) \/ AbortDelete(r) \/ \E f \in Files : DeleteRead(r, f)
  PROVE  TypeOK'
<1>0. StoreType /\ RunType /\ RequestType /\ faults \in FaultCount
  BY TypeParts
<1>1. UNCHANGED <<upload, entry, run, download, announced>>
  BY DEF DeleteRow, DeleteBlob, AbortDelete, DeleteRead
<1>2. faults' \in FaultCount
  BY <1>0, FaultType DEF DeleteRow, DeleteBlob, AbortDelete, DeleteRead
<1>3. blob' \in SUBSET Files /\ overlap' \in SUBSET Files
  BY <1>0 DEF StoreType, DeleteRow, DeleteBlob, AbortDelete, DeleteRead
<1>4. row' \in [Files -> FileStatus]
  BY <1>0 DEF StoreType, FileStatus, updateFileStatus, DeleteRow, DeleteBlob, AbortDelete, DeleteRead
<1>5. RequestType'
  <2>1. ASSUME NEW f \in Files, DeleteRead(r, f) PROVE RequestType'
    BY <1>0, <1>1, <2>1, FileAssumption
    DEF FileAssumption, RequestType, DeleteRecord, DeleteStep, DeleteRead
  <2>2. CASE DeleteRow(r) \/ DeleteBlob(r) \/ AbortDelete(r)
    <3>1. PICK step \in {"unlink", "ok", "error"} : delete' = [delete EXCEPT ![r].pc = step]
      BY <2>2 DEF DeleteRow, DeleteBlob, AbortDelete
    <3>2. delete[r].pc # "idle"
      BY <2>2 DEF DeleteRow, DeleteBlob, AbortDelete
    <3> QED
      BY <1>0, <1>1, <3>1, <3>2 DEF RequestType, DeleteRecord, DeleteStep
  <2> QED
    BY <2>1, <2>2
<1>6. StoreType' /\ RunType'
  BY <1>0, <1>1, <1>3, <1>4 DEF StoreType, RunType
<1> QED
  BY <1>2, <1>5, <1>6, TypeParts

LEMMA TypeDownload ==
  ASSUME TypeOK, NEW r \in Downloads, DownloadBlob(r) \/ \E f \in Files : DownloadRead(r, f)
  PROVE  TypeOK'
<1>0. StoreType /\ RunType /\ RequestType /\ faults \in FaultCount
  BY TypeParts
<1>1. UNCHANGED <<upload, blob, row, entry, run, delete, announced, overlap, faults>>
  BY DEF DownloadBlob, DownloadRead
<1>2. RequestType'
  <2>1. ASSUME NEW f \in Files, DownloadRead(r, f) PROVE RequestType'
    <3>1. PICK step \in {"notFound", "notReady", "fetch", "error"} :
            download' = [download EXCEPT ![r] = [file |-> f, pc |-> step]]
      BY <2>1 DEF DownloadRead
    <3> QED
      BY <1>0, <1>1, <3>1, FileAssumption DEF FileAssumption, RequestType, DownloadRecord, DownloadStep
  <2>2. CASE DownloadBlob(r)
    <3>1. PICK step \in {"ok", "missing", "error"} : download' = [download EXCEPT ![r].pc = step]
      BY <2>2 DEF DownloadBlob
    <3>2. download[r].pc # "idle"
      BY <2>2 DEF DownloadBlob
    <3> QED
      BY <1>0, <1>1, <3>1, <3>2 DEF RequestType, DownloadRecord, DownloadStep
  <2> QED
    BY <2>1, <2>2
<1>3. StoreType' /\ RunType'
  BY <1>0, <1>1 DEF StoreType, RunType
<1> QED
  BY <1>0, <1>1, <1>2, <1>3, TypeParts

LEMMA TypeTake ==
  ASSUME TypeOK, NEW s \in Slots, NEW f \in Files, TakeFile(s, f)
  PROVE  TypeOK'
<1>0. StoreType /\ RunType /\ RequestType /\ faults \in FaultCount
  BY TypeParts
<1>1. UNCHANGED <<upload, blob, row, delete, download, announced, overlap, faults>>
  BY DEF TakeFile
<1>2. entry' \in [Files -> Entry]
  BY <1>0, EntryOperations DEF TakeFile, StoreType
<1>3. RunType'
  BY <1>0, FileAssumption DEF FileAssumption, TakeFile, RunType, SlotRecord, RunStep
<1>4. StoreType' /\ RequestType'
  BY <1>0, <1>1, <1>2 DEF StoreType, RequestType
<1> QED
  BY <1>0, <1>1, <1>3, <1>4, TypeParts

\* A slot at work that goes on to another step.
LEMMA GotoType ==
  ASSUME RunType, NEW s \in Slots, run[s].pc # "idle", NEW step \in RunStep \ {"idle"}, Goto(s, step)
  PROVE  /\ RunType'
         /\ run'[s].pc = step /\ run'[s].file = run[s].file
         /\ \A t \in Slots : t # s => run'[t] = run[t]
BY DEF Goto, RunType, SlotRecord

\* A slot at work has a file to work on.
LEMMA BusySlot ==
  ASSUME TypeOK, NEW s \in Slots, run[s].pc # "idle"
  PROVE  run[s].file \in Files /\ run[s].file # NoFile
BY FileAssumption DEF FileAssumption, TypeOK

(***************************************************************************)
(* One step of the processor, seen from its file: how the call ended, where*)
(* the slot goes, and what the row says and which events are out.          *)
(***************************************************************************)
Endings == {"done", "caught", "uncaught"}

Counted(how) ==
  /\ faults'.crash = faults.crash
  /\ faults'.error = faults.error + (IF how = "done" THEN 0 ELSE 1)
  /\ faults'.uncaught = faults.uncaught + (IF how = "uncaught" THEN 1 ELSE 0)

\* An awaited call: next and the writes when it succeeds, and otherwise the writes
\* or not.
Called(how, failure, next, st, stWritten, ev, evWritten, pc1, st1, ev1) ==
  \/ how = "done" /\ pc1 = next /\ st1 = stWritten /\ ev1 = evWritten
  \/ how = failure /\ pc1 = (IF failure = "caught" THEN "markFailed" ELSE "nack")
       /\ st1 \in {st, stWritten} /\ ev1 \in {ev, evWritten}

Wrote(how, pc, st, ev, pc1, st1, ev1) ==
  \/ pc = "read"
       /\ Called(how, "uncaught", IF Hidden(st) THEN "ack" ELSE "markProcessing", st, st, ev, ev, pc1, st1, ev1)
  \/ pc = "markProcessing" /\ Called(how, "caught", "extract", st, "PROCESSING", ev, ev, pc1, st1, ev1)
  \/ pc = "extract" /\ how = "done" /\ pc1 = "markReady" /\ st1 = st /\ ev1 = ev
  \/ pc = "markReady" /\ Called(how, "caught", "announceReady", st, "READY", ev, ev, pc1, st1, ev1)
  \/ pc = "announceReady"
       /\ Called(how, "caught", "ack", st, st, ev, ev \cup {"processed"}, pc1, st1, ev1)
  \/ pc = "markFailed" /\ Called(how, "uncaught", "announceFailed", st, "FAILED", ev, ev, pc1, st1, ev1)
  \/ pc = "announceFailed"
       /\ Called(how, "uncaught", "nack", st, st, ev, ev \cup {"failed"}, pc1, st1, ev1)

\* A step of slot s on file f that does not end the run.
Worked(s, f, how) ==
  /\ UNCHANGED <<upload, blob, entry, delete, download, overlap>>
  /\ Counted(how)
  /\ \A t \in Slots : t # s => run'[t] = run[t]
  /\ \A g \in Files : g # f => row'[g] = row[g] /\ announced'[g] = announced[g]
  /\ run'[s].file = f /\ run'[s].pc # "idle"
  /\ Wrote(how, run[s].pc, row[f], announced[f], run'[s].pc, row'[f], announced'[f])

LEMMA AwaitWorks ==
  ASSUME TypeOK, NEW s \in Slots, NEW f \in Files, run[s].file = f,
         NEW step \in RunStep \ {"idle"}, NEW next \in RunStep \ {"idle"},
         NEW rowWrite \in [Files -> FileStatus], NEW events \in [Files -> EventSet],
         Await(s, step, next, rowWrite, events),
         \A g \in Files : g # f => rowWrite[g] = row[g] /\ events[g] = announced[g]
  PROVE  /\ TypeOK'
         /\ run[s].pc = step
         /\ UNCHANGED <<upload, blob, entry, delete, download, overlap>>
         /\ \A t \in Slots : t # s => run'[t] = run[t]
         /\ \A g \in Files : g # f => row'[g] = row[g] /\ announced'[g] = announced[g]
         /\ run'[s].file = f /\ run'[s].pc # "idle"
         /\ \E how \in Endings :
              /\ Counted(how)
              /\ Called(how, IF step \in TrySteps THEN "caught" ELSE "uncaught", next,
                        row[f], rowWrite[f], announced[f], events[f], run'[s].pc, row'[f], announced'[f])
<1>0. /\ StoreType /\ RunType /\ RequestType /\ faults \in FaultCount
      /\ run[s].pc = step /\ run[s].pc # "idle"
      /\ faults.error \in Nat /\ faults.uncaught \in Nat
  BY TypeParts, FaultType DEF Await
<1>1. UNCHANGED <<upload, blob, entry, delete, download, overlap>>
  BY DEF Await
<1>2. row' \in {row, rowWrite} /\ announced' \in {announced, events}
  BY DEF Await
<1>3. "markFailed" \in RunStep \ {"idle"} /\ "nack" \in RunStep \ {"idle"}
  BY DEF RunStep, CatchSteps
<1>4. PICK how \in Endings, to \in RunStep \ {"idle"} :
        /\ Counted(how) /\ faults' \in FaultCount /\ Goto(s, to)
        /\ \/ how = "done" /\ to = next /\ row' = rowWrite /\ announced' = events
           \/ step \in TrySteps /\ how = "caught" /\ to = "markFailed"
           \/ step \notin TrySteps /\ how = "uncaught" /\ to = "nack"
  <2>1. CASE Goto(s, next) /\ row' = rowWrite /\ announced' = events /\ UNCHANGED faults
    <3>1. Counted("done")
      BY <1>0, <2>1 DEF Counted
    <3> QED
      BY <1>0, <2>1, <3>1 DEF Endings
  <2>2. CASE step \in TrySteps /\ Goto(s, "markFailed") /\ CountError
    <3>1. Counted("caught") /\ faults' \in FaultCount
      BY <1>0, <2>2, FaultType DEF Counted
    <3> QED
      BY <1>3, <2>2, <3>1 DEF Endings
  <2>3. CASE step \notin TrySteps /\ Goto(s, "nack") /\ CountUncaught
    <3>1. Counted("uncaught") /\ faults' \in FaultCount
      BY <1>0, <2>3, FaultType DEF Counted
    <3> QED
      BY <1>3, <2>3, <3>1 DEF Endings
  <2> QED
    BY <2>1, <2>2, <2>3 DEF Await
<1>5. /\ RunType' /\ run'[s].pc = to /\ run'[s].file = f /\ to # "idle"
      /\ \A t \in Slots : t # s => run'[t] = run[t]
  BY <1>0, <1>4, GotoType
<1>6. TypeOK'
  <2>1. StoreType'
    BY <1>0, <1>1, <1>2 DEF StoreType
  <2>2. RequestType'
    BY <1>0, <1>1 DEF RequestType
  <2> QED
    BY <1>4, <1>5, <2>1, <2>2, TypeParts
<1>7. \A g \in Files : g # f => row'[g] = row[g] /\ announced'[g] = announced[g]
  BY <1>2
<1>8. /\ row'[f] \in {row[f], rowWrite[f]} /\ announced'[f] \in {announced[f], events[f]}
      /\ how = "done" => row'[f] = rowWrite[f] /\ announced'[f] = events[f]
  <2>1. row'[f] \in {row[f], rowWrite[f]} /\ announced'[f] \in {announced[f], events[f]}
    BY <1>2
  <2> QED
    BY <1>4, <2>1
<1>9. Called(how, IF step \in TrySteps THEN "caught" ELSE "uncaught", next,
             row[f], rowWrite[f], announced[f], events[f], run'[s].pc, row'[f], announced'[f])
  BY <1>4, <1>5, <1>8 DEF Called
<1> QED
  BY <1>0, <1>1, <1>4, <1>5, <1>6, <1>7, <1>9

LEMMA ProcessWorks ==
  ASSUME TypeOK, NEW s \in Slots, Process(s), ~ Ack(s), ~ Nack(s), NEW f \in Files, run[s].file = f
  PROVE  TypeOK' /\ \E how \in Endings : Worked(s, f, how)
<1>0. /\ StoreType /\ RunType /\ RequestType /\ faults \in FaultCount
      /\ faults.error \in Nat /\ faults.uncaught \in Nat
  BY TypeParts, FaultType
<1>1. /\ row \in [Files -> FileStatus] /\ announced \in [Files -> EventSet]
      /\ \A status \in FileStatus :
           /\ updateFileStatus(f, status) \in [Files -> FileStatus]
           /\ updateFileStatus(f, status)[f] = status
           /\ \A g \in Files : g # f => updateFileStatus(f, status)[g] = row[g]
      /\ \A event \in {"processed", "failed"} :
           /\ dispatchEvent(f, event) \in [Files -> EventSet]
           /\ dispatchEvent(f, event)[f] = announced[f] \cup {event}
           /\ \A g \in Files : g # f => dispatchEvent(f, event)[g] = announced[g]
  BY <1>0 DEF StoreType, EventSet, updateFileStatus, dispatchEvent
<1>2. {"PROCESSING", "READY", "FAILED"} \subseteq FileStatus
  BY DEF FileStatus
<1>3. /\ {"read", "markProcessing", "extract", "markReady", "announceReady", "markFailed",
          "announceFailed", "ack", "nack"} \subseteq RunStep \ {"idle"}
      /\ {"markProcessing", "markReady", "announceReady"} \subseteq TrySteps
      /\ "markFailed" \notin TrySteps /\ "announceFailed" \notin TrySteps
  BY DEF RunStep, TrySteps, CatchSteps
<1>4. ASSUME NEW step \in RunStep \ {"idle"}, NEW next \in RunStep \ {"idle"},
             NEW w \in [Files -> FileStatus], NEW events \in [Files -> EventSet],
             Await(s, step, next, w, events),
             \A g \in Files : g # f => w[g] = row[g] /\ events[g] = announced[g],
             NEW failure, failure = IF step \in TrySteps THEN "caught" ELSE "uncaught",
             NEW st, w[f] = st, NEW ev, events[f] = ev,
             \A how, pc1, st1, ev1 :
               Called(how, failure, next, row[f], st, announced[f], ev, pc1, st1, ev1) =>
                 Wrote(how, step, row[f], announced[f], pc1, st1, ev1)
      PROVE  TypeOK' /\ \E how \in Endings : Worked(s, f, how)
  <2>1. /\ TypeOK' /\ run[s].pc = step
        /\ UNCHANGED <<upload, blob, entry, delete, download, overlap>>
        /\ \A t \in Slots : t # s => run'[t] = run[t]
        /\ \A g \in Files : g # f => row'[g] = row[g] /\ announced'[g] = announced[g]
        /\ run'[s].file = f /\ run'[s].pc # "idle"
        /\ \E how \in Endings :
             /\ Counted(how)
             /\ Called(how, failure, next, row[f], st, announced[f], ev, run'[s].pc, row'[f], announced'[f])
    BY <1>4, AwaitWorks
  <2> QED
    BY <1>4, <2>1 DEF Worked
<1>5. CASE ReadFile(s)
  <2>1. UNCHANGED <<upload, blob, row, entry, delete, download, announced, overlap>> /\ run[s].pc = "read"
    BY <1>5 DEF ReadFile
  <2>2. PICK how \in Endings, to \in RunStep \ {"idle"} :
          /\ Counted(how) /\ faults' \in FaultCount /\ Goto(s, to)
          /\ \/ how = "done" /\ to = IF Hidden(row[f]) THEN "ack" ELSE "markProcessing"
             \/ how = "uncaught" /\ to = "nack"
    <3>1. CASE Goto(s, IF Hidden(row[f]) THEN "ack" ELSE "markProcessing") /\ UNCHANGED faults
      <4>1. Counted("done")
        BY <1>0, <3>1 DEF Counted
      <4> QED
        BY <1>0, <1>3, <3>1, <4>1 DEF Endings
    <3>2. CASE Goto(s, "nack") /\ CountUncaught
      <4>1. Counted("uncaught") /\ faults' \in FaultCount
        BY <1>0, <3>2, FaultType DEF Counted
      <4> QED
        BY <1>3, <3>2, <4>1 DEF Endings
    <3> QED
      BY <1>5, <3>1, <3>2 DEF ReadFile
  <2>3. /\ RunType' /\ run'[s].pc = to /\ run'[s].file = f /\ to # "idle"
        /\ \A t \in Slots : t # s => run'[t] = run[t]
    BY <1>0, <2>1, <2>2, GotoType
  <2>4. TypeOK'
    <3>1. StoreType' /\ RequestType'
      BY <1>0, <2>1 DEF StoreType, RequestType
    <3> QED
      BY <2>2, <2>3, <3>1, TypeParts
  <2>5. Wrote(how, run[s].pc, row[f], announced[f], run'[s].pc, row'[f], announced'[f])
    BY <2>1, <2>2, <2>3 DEF Wrote, Called
  <2>6. Worked(s, f, how)
    BY <2>1, <2>2, <2>3, <2>5 DEF Worked
  <2> QED
    BY <2>4, <2>6
<1>6. CASE Extract(s)
  <2>1. /\ UNCHANGED <<upload, blob, row, entry, delete, download, announced, overlap, faults>>
        /\ run[s].pc = "extract" /\ Goto(s, "markReady")
    BY <1>6 DEF Extract
  <2>2. /\ RunType' /\ run'[s].pc = "markReady" /\ run'[s].file = f
        /\ \A t \in Slots : t # s => run'[t] = run[t]
    BY <1>0, <1>3, <2>1, GotoType
  <2>3. TypeOK'
    <3>1. StoreType' /\ RequestType'
      BY <1>0, <2>1 DEF StoreType, RequestType
    <3> QED
      BY <1>0, <2>1, <2>2, <3>1, TypeParts
  <2>4. Counted("done")
    BY <1>0, <2>1 DEF Counted
  <2>5. Worked(s, f, "done")
    BY <2>1, <2>2, <2>4 DEF Worked, Wrote
  <2> QED
    BY <2>3, <2>5 DEF Endings
<1>7. CASE MarkProcessing(s)
  <2> DEFINE w == updateFileStatus(f, "PROCESSING")
             events == announced
  <2>1. Await(s, "markProcessing", "extract", w, events)
    BY <1>7 DEF MarkProcessing
  <2>2. \A how, pc1, st1, ev1 :
          Called(how, "caught", "extract", row[f], "PROCESSING", announced[f], announced[f], pc1, st1, ev1) =>
            Wrote(how, "markProcessing", row[f], announced[f], pc1, st1, ev1)
    BY DEF Wrote
  <2>3. /\ w \in [Files -> FileStatus] /\ events \in [Files -> EventSet]
        /\ w[f] = "PROCESSING" /\ events[f] = announced[f]
        /\ \A g \in Files : g # f => w[g] = row[g] /\ events[g] = announced[g]
    BY <1>1, <1>2
  <2> HIDE DEF w, events
  <2> QED
    BY <1>3, <1>4, <2>1, <2>2, <2>3
<1>8. CASE MarkReady(s)
  <2> DEFINE w == updateFileStatus(f, "READY")
             events == announced
  <2>1. Await(s, "markReady", "announceReady", w, events)
    BY <1>8 DEF MarkReady
  <2>2. \A how, pc1, st1, ev1 :
          Called(how, "caught", "announceReady", row[f], "READY", announced[f], announced[f], pc1, st1, ev1) =>
            Wrote(how, "markReady", row[f], announced[f], pc1, st1, ev1)
    BY DEF Wrote
  <2>3. /\ w \in [Files -> FileStatus] /\ events \in [Files -> EventSet]
        /\ w[f] = "READY" /\ events[f] = announced[f]
        /\ \A g \in Files : g # f => w[g] = row[g] /\ events[g] = announced[g]
    BY <1>1, <1>2
  <2> HIDE DEF w, events
  <2> QED
    BY <1>3, <1>4, <2>1, <2>2, <2>3
<1>9. CASE AnnounceReady(s)
  <2> DEFINE w == row
             events == dispatchEvent(f, "processed")
             more == announced[f] \cup {"processed"}
  <2>1. Await(s, "announceReady", "ack", w, events)
    BY <1>9 DEF AnnounceReady
  <2>2. \A how, pc1, st1, ev1 :
          Called(how, "caught", "ack", row[f], row[f], announced[f], more, pc1, st1, ev1) =>
            Wrote(how, "announceReady", row[f], announced[f], pc1, st1, ev1)
    BY DEF Wrote, more
  <2>3. /\ w \in [Files -> FileStatus] /\ events \in [Files -> EventSet]
        /\ w[f] = row[f] /\ events[f] = more
        /\ \A g \in Files : g # f => w[g] = row[g] /\ events[g] = announced[g]
    BY <1>1, <1>2
  <2> HIDE DEF w, events, more
  <2> QED
    BY <1>3, <1>4, <2>1, <2>2, <2>3
<1>10. CASE MarkFailed(s)
  <2> DEFINE w == updateFileStatus(f, "FAILED")
             events == announced
  <2>1. Await(s, "markFailed", "announceFailed", w, events)
    BY <1>10 DEF MarkFailed
  <2>2. \A how, pc1, st1, ev1 :
          Called(how, "uncaught", "announceFailed", row[f], "FAILED", announced[f], announced[f], pc1, st1, ev1) =>
            Wrote(how, "markFailed", row[f], announced[f], pc1, st1, ev1)
    BY DEF Wrote
  <2>3. /\ w \in [Files -> FileStatus] /\ events \in [Files -> EventSet]
        /\ w[f] = "FAILED" /\ events[f] = announced[f]
        /\ \A g \in Files : g # f => w[g] = row[g] /\ events[g] = announced[g]
    BY <1>1, <1>2
  <2> HIDE DEF w, events
  <2> QED
    BY <1>3, <1>4, <2>1, <2>2, <2>3
<1>11. CASE AnnounceFailed(s)
  <2> DEFINE w == row
             events == dispatchEvent(f, "failed")
             more == announced[f] \cup {"failed"}
  <2>1. Await(s, "announceFailed", "nack", w, events)
    BY <1>11 DEF AnnounceFailed
  <2>2. \A how, pc1, st1, ev1 :
          Called(how, "uncaught", "nack", row[f], row[f], announced[f], more, pc1, st1, ev1) =>
            Wrote(how, "announceFailed", row[f], announced[f], pc1, st1, ev1)
    BY DEF Wrote, more
  <2>3. /\ w \in [Files -> FileStatus] /\ events \in [Files -> EventSet]
        /\ w[f] = row[f] /\ events[f] = more
        /\ \A g \in Files : g # f => w[g] = row[g] /\ events[g] = announced[g]
    BY <1>1, <1>2
  <2> HIDE DEF w, events, more
  <2> QED
    BY <1>3, <1>4, <2>1, <2>2, <2>3
<1> QED
  BY <1>5, <1>6, <1>7, <1>8, <1>9, <1>10, <1>11 DEF Process

LEMMA TypeFinish ==
  ASSUME TypeOK, NEW s \in Slots, Ack(s) \/ Nack(s)
  PROVE  TypeOK'
<1>0. StoreType /\ RunType /\ RequestType /\ faults \in FaultCount
  BY TypeParts
<1>1. run[s].pc # "idle" /\ run[s].file \in Files
  BY BusySlot DEF Ack, Nack, Finish
<1>2. ASSUME NEW step, NEW new \in Entry, Finish(s, step, new) PROVE TypeOK'
  <2>1. UNCHANGED <<upload, blob, row, delete, download, announced, overlap, faults>>
    BY <1>2 DEF Finish
  <2>2. entry' \in [Files -> Entry]
    BY <1>0, <1>2 DEF Finish, StoreType
  <2>3. RunType'
    BY <1>0, <1>2 DEF Finish, Freed, Idle, RunType, SlotRecord, RunStep
  <2>4. StoreType' /\ RequestType'
    BY <1>0, <2>1, <2>2 DEF StoreType, RequestType
  <2> QED
    BY <1>0, <2>1, <2>3, <2>4, TypeParts
<1>3. entry[run[s].file] \in Entry
  BY <1>0, <1>1 DEF StoreType
<1>4. CASE Ack(s)
  BY <1>2, <1>3, <1>4, EntryOperations DEF Ack
<1>5. CASE Nack(s)
  BY <1>2, <1>3, <1>5, EntryOperations, FileAssumption DEF FileAssumption, Nack
<1> QED
  BY <1>4, <1>5

LEMMA TypeRest ==
  ASSUME TypeOK,
         \/ \E dead \in SUBSET Slots : Crash(dead)
         \/ \E f \in Files : QueueTimer(f) \/ Trim(f)
  PROVE  TypeOK'
<1>0. StoreType /\ RunType /\ RequestType /\ faults \in FaultCount
  BY TypeParts
<1>1. ASSUME NEW dead \in SUBSET Slots, Crash(dead) PROVE TypeOK'
  <2>1. entry' \in [Files -> Entry]
    BY <1>0, <1>1, EntryOperations DEF Crash, StoreType
  <2>2. RunType'
    BY <1>0, <1>1 DEF Crash, Idle, RunType, SlotRecord, RunStep
  <2>3. faults' \in FaultCount
    BY <1>0, <1>1 DEF Crash, FaultCount
  <2>4. StoreType' /\ RequestType'
    BY <1>0, <1>1, <2>1 DEF Crash, StoreType, RequestType
  <2> QED
    BY <2>2, <2>3, <2>4, TypeParts
<1>2. ASSUME NEW f \in Files, QueueTimer(f) \/ Trim(f) PROVE TypeOK'
  <2>1. PICK new \in Entry : QueueStep(f, new)
    BY <1>0, <1>2, EntryOperations DEF QueueTimer, ExpireLock, StalledCheck, EndBackoff, Trim, StoreType
  <2>2. StoreType' /\ RunType' /\ RequestType' /\ faults' \in FaultCount
    BY <1>0, <2>1 DEF QueueStep, StoreType, RunType, RequestType
  <2> QED
    BY <2>2, TypeParts
<1> QED
  BY <1>1, <1>2

LEMMA TypeStep ==
  ASSUME TypeOK, Next
  PROVE  TypeOK'
<1>1. ASSUME NEW s \in Slots, Process(s) PROVE TypeOK'
  <2>1. run[s].pc # "idle"
    BY <1>1 DEF Process, ReadFile, MarkProcessing, Extract, MarkReady, AnnounceReady, MarkFailed,
                AnnounceFailed, Await, Ack, Nack, Finish
  <2> QED
    BY <1>1, <2>1, BusySlot, ProcessWorks, TypeFinish
<1> QED
  BY <1>1, TypeUpload, TypeDelete, TypeDownload, TypeTake, TypeRest DEF Next

\* Every variable keeps its type; a slot is idle exactly when it has no file.
THEOREM TypeCorrect == Spec => []TypeOK
<1>1. TypeOK /\ UNCHANGED vars => TypeOK'
  BY DEF TypeOK, vars
<1> QED
  BY TypeInit, TypeStep, <1>1, PTL DEF Spec

-----------------------------------------------------------------------------
(***************************************************************************)
(* What a step leaves of the invariant for a file that it does not touch,  *)
(* or touches in a way that cannot matter.                                 *)
(***************************************************************************)
LEMMA BirthKept ==
  ASSUME NEW g \in Files, Birth(g), upload'[g] = upload[g], entry'[g] = entry[g],
         row[g] = "NONE" <=> row'[g] = "NONE",
         entry[g].holder \in Slots => run'[entry[g].holder].file = run[entry[g].holder].file
  PROVE  Birth(g)'
BY DEF Birth

\* A file at rest stays at rest unless its upload goes on or a slot takes it.
LEMMA RestKept ==
  ASSUME NEW g \in Files, AtRest(g), upload'[g] = upload[g],
         entry'[g].st \in {entry[g].st, "absent"},
         \A s \in Slots : run'[s].file = run[s].file \/ run'[s].file # g
  PROVE  AtRest(g)'
BY DEF AtRest, Finished

LEMMA KeptKept ==
  ASSUME NEW g \in Files, Kept(g), UNCHANGED <<delete, download, overlap>>,
         AtRest(g) => AtRest(g)',
         g \in blob => g \in blob',
         \/ row'[g] = row[g]
         \/ g \in overlap
         \/ ~ AtRest(g) /\ row'[g] # "DELETED" /\ g \in blob',
         upload[g] = "store" => upload'[g] = "store" \/ g \in blob' \/ AtRest(g)'
  PROVE  Kept(g)'
<1> SUFFICES ASSUME g \notin overlap
             PROVE  /\ \A r \in Deletes : delete[r].file = g =>
                         AtRest(g)' /\ (delete[r].pc = "unlink" => row'[g] = "DELETED")
                    /\ row'[g] = "DELETED" => AtRest(g)'
                    /\ g \notin blob' => Hidden(row'[g]) /\ (upload'[g] = "store" \/ AtRest(g)')
                    /\ \A r \in Downloads : download[r].file = g /\ download[r].pc = "missing" => row'[g] = "DELETED"
  BY DEF Kept
<1>1. row'[g] = row[g] \/ (~ AtRest(g) /\ row'[g] # "DELETED" /\ g \in blob')
  OBVIOUS
<1> QED
  BY <1>1 DEF Kept

LEMMA LeftoverKept ==
  ASSUME NEW g \in Files, Leftover(g), delete' = delete,
         faults'.error = 0 => faults.error = 0,
         row'[g] = row[g] \/ row'[g] # "DELETED",
         g \in blob' => g \in blob \/ row'[g] # "DELETED"
  PROVE  Leftover(g)'
BY DEF Leftover

LEMMA BusyKept ==
  ASSUME NEW t \in Slots, Busy(t), run'[t] = run[t],
         run[t].pc # "idle" => entry'[run[t].file] = entry[run[t].file]
  PROVE  Busy(t)'
BY DEF Busy

LEMMA FoundKept ==
  ASSUME TypeOK, Found, UNCHANGED <<delete, download>>,
         \A g \in Files : row[g] # "NONE" => row'[g] # "NONE"
  PROVE  Found'
<1>1. /\ \A r \in Deletes : delete[r].pc # "idle" => delete[r].file \in Files
      /\ \A r \in Downloads : download[r].pc # "idle" => download[r].file \in Files
  BY DEF TypeOK
<1> QED
  BY <1>1 DEF Found

\* The slot that runs a file holds its entry's lock.
LEMMA Runner ==
  ASSUME TypeOK, FileInv, NEW s \in Slots
  PROVE  /\ run[s].pc # "idle" =>
              run[s].file \in Files /\ entry[run[s].file].st = "active" /\ entry[run[s].file].holder = s
         /\ \A f \in Files : run[s].file = f \/ entry[f].holder = s =>
              run[s].file = f /\ run[s].pc # "idle" /\ entry[f].st = "active" /\ entry[f].holder = s
<1>1. run[s].pc # "idle" =>
        run[s].file \in Files /\ entry[run[s].file].st = "active" /\ entry[run[s].file].holder = s
  BY BusySlot DEF FileInv, Busy
<1>2. ASSUME NEW f \in Files, run[s].file = f \/ entry[f].holder = s
      PROVE  run[s].file = f /\ run[s].pc # "idle" /\ entry[f].st = "active" /\ entry[f].holder = s
  <2>1. run[s].file = f
    BY <1>2 DEF FileInv, Birth
  <2>2. run[s].pc # "idle"
    BY <2>1, FileAssumption DEF FileAssumption, TypeOK
  <2> QED
    BY <1>1, <2>1, <2>2
<1> QED
  BY <1>1, <1>2

\* A file with an active, waiting or delayed entry is past its creation, and unless
\* it was deleted too early its row and its content are there.
LEMMA AliveFile ==
  ASSUME TypeOK, FileInv, NEW f \in Files, entry[f].st \in Alive
  PROVE  /\ ~ AtRest(f) /\ upload[f] # "store" /\ row[f] # "NONE"
         /\ f \notin overlap => row[f] # "DELETED" /\ f \in blob
<1>1. ~ AtRest(f) /\ row[f] # "NONE"
  BY DEF AtRest, Finished, Alive, FileInv, Birth
<1>2. upload[f] # "store"
  BY DEF FileInv, Birth, Absent, Alive
<1> QED
  BY <1>1, <1>2 DEF FileInv, Kept

-----------------------------------------------------------------------------
LEMMA FileUpload ==
  ASSUME TypeOK, FileInv, NEW f \in Files, Uploading(f) \/ AbortUpload(f)
  PROVE  FileInv'
<1>1. /\ UNCHANGED <<run, delete, download, overlap>>
      /\ upload[f] \in {"store", "create", "add"}
      /\ faults'.error = 0 => faults.error = 0
  <2>1. UNCHANGED <<run, delete, download, overlap>> /\ upload[f] \in {"store", "create", "add"}
    BY DEF Uploading, StoreBlob, CreateFile, AddFile, AbortUpload
  <2>2. faults' = faults \/ CountError
    BY DEF Uploading, StoreBlob, CreateFile, AddFile, AbortUpload
  <2>3. faults'.error = 0 => faults.error = 0
    BY <2>2, FaultType
  <2> QED
    BY <2>1, <2>3
<1>2. ASSUME NEW g \in Files, g # f
      PROVE  /\ upload'[g] = upload[g] /\ row'[g] = row[g] /\ entry'[g] = entry[g]
             /\ g \in blob' <=> g \in blob
  BY <1>2 DEF Uploading, StoreBlob, CreateFile, AddFile, AbortUpload, updateFileStatus, TypeOK
<1>3. ASSUME NEW g \in Files, g # f PROVE Birth(g)' /\ Kept(g)' /\ Leftover(g)'
  <2>1. AtRest(g) => AtRest(g)'
    BY <1>1, <1>2, <1>3, RestKept
  <2>2. Birth(g)'
    BY <1>1, <1>2, <1>3, BirthKept DEF FileInv
  <2>3. Kept(g)'
    BY <1>1, <1>2, <1>3, <2>1, KeptKept DEF FileInv
  <2>4. Leftover(g)'
    BY <1>1, <1>2, <1>3, LeftoverKept DEF FileInv
  <2> QED
    BY <2>2, <2>3, <2>4
<1>4. /\ ~ AtRest(f) /\ entry[f] = Absent /\ \A t \in Slots : run[t].file # f
      /\ row[f] # "NONE" => upload[f] = "add"
  <2>1. entry[f] = Absent /\ (row[f] # "NONE" => upload[f] = "add") /\ ~ AtRest(f)
    BY <1>1 DEF FileInv, Birth, AtRest
  <2> QED
    BY <2>1, Runner DEF Absent
<1>5. /\ f \in blob => f \in blob'
      /\ f \in blob' => f \in blob \/ row'[f] = "NONE"
      /\ row'[f] = row[f] \/ (upload[f] = "create" /\ row'[f] = "UPLOADED" /\ upload'[f] = "add")
      /\ upload[f] = "store" =>
           ((upload'[f] = "create" /\ f \in blob') \/ upload'[f] = "failed") /\ entry'[f] = entry[f]
      /\ upload[f] = "create" =>
           ((upload'[f] = "add" /\ row'[f] = "UPLOADED") \/ upload'[f] = "failed") /\ entry'[f] = entry[f]
      /\ upload[f] = "add" => upload'[f] \in {"done", "failed"} /\ entry'[f] \in {entry[f], Add(entry[f])}
  <2>1. CASE StoreBlob(f)
    BY <1>4, <2>1 DEF StoreBlob, TypeOK
  <2>2. CASE CreateFile(f)
    BY <2>2 DEF CreateFile, updateFileStatus, TypeOK
  <2>3. CASE AddFile(f)
    BY <2>3 DEF AddFile, TypeOK
  <2>4. CASE AbortUpload(f)
    BY <2>4 DEF AbortUpload, TypeOK
  <2> QED
    BY <2>1, <2>2, <2>3, <2>4 DEF Uploading
<1>6. Birth(f)'
  <2>1. entry'[f] = Absent \/ (entry'[f] = [Absent EXCEPT !.st = "waiting"] /\ upload[f] = "add")
    BY <1>1, <1>4, <1>5 DEF Add
  <2>2. entry'[f].holder = NoLock
    BY <2>1 DEF Absent
  <2>3. /\ upload'[f] \in {"store", "create", "add"} => entry'[f] = Absent
        /\ entry'[f].st # "absent" => upload[f] = "add"
    BY <1>1, <1>5, <2>1, <1>4 DEF Absent
  <2>4. upload[f] = "add" => row'[f] # "NONE"
    BY <1>1, <1>5 DEF FileInv, Birth
  <2>5. /\ upload'[f] \in {"store", "create"} => row'[f] = "NONE"
        /\ upload'[f] \in {"add", "done"} => row'[f] # "NONE"
    BY <1>1, <1>4, <1>5, <2>4
  <2> QED
    BY <2>2, <2>3, <2>4, <2>5, LockAssumption DEF LockAssumption, Birth
<1>7. Kept(f)'
  <2>1. ASSUME upload[f] = "store", upload'[f] = "failed" PROVE AtRest(f)'
    BY <1>1, <1>4, <1>5, <2>1 DEF AtRest, Absent
  <2>2. row'[f] = row[f] \/ f \in overlap \/ (row'[f] # "DELETED" /\ f \in blob')
    <3>1. upload[f] = "create" => f \in overlap \/ f \in blob
      BY <1>4 DEF FileInv, Kept
    <3> QED
      BY <1>5, <3>1
  <2> QED
    BY <1>1, <1>4, <1>5, <2>1, <2>2, KeptKept DEF FileInv
<1>8. Leftover(f)'
  BY <1>1, <1>5, LeftoverKept DEF FileInv
<1>9. ASSUME NEW t \in Slots PROVE Busy(t)'
  <2>1. run[t].pc # "idle" => entry'[run[t].file] = entry[run[t].file]
    BY <1>2, <1>4, Runner
  <2> QED
    BY <1>1, <2>1, BusyKept DEF FileInv
<1>10. Found'
  <2>1. \A g \in Files : row[g] # "NONE" => row'[g] # "NONE"
    BY <1>2, <1>5
  <2> QED
    BY <1>1, <2>1, FoundKept DEF FileInv
<1> QED
  BY <1>3, <1>6, <1>7, <1>8, <1>9, <1>10 DEF FileInv

\* What a step of a delete request does.
LEMMA DeleteMoves ==
  ASSUME TypeOK, NEW r \in Deletes,
         DeleteRow(r) \/ DeleteBlob(r) \/ AbortDelete(r) \/ \E f \in Files : DeleteRead(r, f)
  PROVE  /\ UNCHANGED <<upload, entry, run, download, announced>>
         /\ \A x \in Deletes : x # r => delete'[x] = delete[x]
         /\ faults' = faults \/ CountError
         /\ \E f \in Files :
              \/ /\ delete[r].pc = "idle" /\ delete'[r].file = f
                 /\ delete'[r].pc = (IF Hidden(row[f]) THEN "notFound" ELSE "update")
                 /\ overlap' = (IF AtRest(f) THEN overlap ELSE overlap \cup {f})
                 /\ UNCHANGED <<blob, row, faults>>
              \/ /\ delete[r].pc \in {"update", "unlink"} /\ delete[r].file = f /\ delete'[r].file = f
                 /\ overlap' = overlap
                 /\ \/ /\ delete[r].pc = "update" /\ delete'[r].pc = "unlink"
                       /\ row'[f] = "DELETED" /\ (\A g \in Files : g # f => row'[g] = row[g])
                       /\ UNCHANGED <<blob, faults>>
                    \/ /\ delete[r].pc = "unlink" /\ delete'[r].pc = "ok"
                       /\ row' = row /\ blob' = blob \ {f} /\ faults' = faults
                    \/ delete'[r].pc \in {"ok", "error"} /\ row' = row /\ blob' = blob /\ CountError
<1>1. delete \in [Deletes -> DeleteRecord] /\ row \in [Files -> FileStatus]
  BY DEF TypeOK, DeleteRecord, DeleteStep
<1>2. delete[r].pc # "idle" => delete[r].file \in Files
  BY DEF TypeOK
<1>3. /\ UNCHANGED <<upload, entry, run, download, announced>>
      /\ \A x \in Deletes : x # r => delete'[x] = delete[x]
      /\ faults' = faults \/ CountError
  BY <1>1 DEF DeleteRow, DeleteBlob, AbortDelete, DeleteRead
<1>4. ASSUME NEW f \in Files, DeleteRead(r, f)
      PROVE  /\ delete[r].pc = "idle" /\ delete'[r].file = f
             /\ delete'[r].pc = (IF Hidden(row[f]) THEN "notFound" ELSE "update")
             /\ overlap' = (IF AtRest(f) THEN overlap ELSE overlap \cup {f})
             /\ UNCHANGED <<blob, row, faults>>
  BY <1>1, <1>4 DEF DeleteRead
<1>5. CASE DeleteRow(r)
  BY <1>1, <1>2, <1>3, <1>5 DEF DeleteRow, updateFileStatus, DeleteRecord
<1>6. CASE DeleteBlob(r)
  BY <1>1, <1>2, <1>3, <1>6 DEF DeleteBlob, DeleteRecord
<1>7. CASE AbortDelete(r)
  BY <1>1, <1>2, <1>3, <1>7 DEF AbortDelete, DeleteRecord
<1> QED
  BY <1>3, <1>4, <1>5, <1>6, <1>7

LEMMA FileDelete ==
  ASSUME TypeOK, FileInv, NEW r \in Deletes,
         DeleteRow(r) \/ DeleteBlob(r) \/ AbortDelete(r) \/ \E f \in Files : DeleteRead(r, f)
  PROVE  FileInv'
<1>1. /\ UNCHANGED <<upload, entry, run, download, announced>>
      /\ \A x \in Deletes : x # r => delete'[x] = delete[x]
      /\ faults' = faults \/ CountError
  BY DeleteMoves
<1>2. PICK f \in Files :
        \/ /\ delete[r].pc = "idle" /\ delete'[r].file = f
           /\ delete'[r].pc = (IF Hidden(row[f]) THEN "notFound" ELSE "update")
           /\ overlap' = (IF AtRest(f) THEN overlap ELSE overlap \cup {f})
           /\ UNCHANGED <<blob, row, faults>>
        \/ /\ delete[r].pc \in {"update", "unlink"} /\ delete[r].file = f /\ delete'[r].file = f
           /\ overlap' = overlap
           /\ \/ /\ delete[r].pc = "update" /\ delete'[r].pc = "unlink"
                 /\ row'[f] = "DELETED" /\ (\A g \in Files : g # f => row'[g] = row[g])
                 /\ UNCHANGED <<blob, faults>>
              \/ /\ delete[r].pc = "unlink" /\ delete'[r].pc = "ok"
                 /\ row' = row /\ blob' = blob \ {f} /\ faults' = faults
              \/ delete'[r].pc \in {"ok", "error"} /\ row' = row /\ blob' = blob /\ CountError
  BY DeleteMoves
<1>3. /\ faults'.error = 0 => faults.error = 0 /\ ~ CountError
      /\ overlap \subseteq overlap' /\ blob' \subseteq blob
  <2>1. CountError => faults'.error # 0
    BY FaultType
  <2>2. overlap \subseteq overlap' /\ blob' \subseteq blob
    BY <1>2
  <2> QED
    BY <1>1, <2>1, <2>2
<1>4. ASSUME NEW g \in Files
      PROVE  /\ AtRest(g)' <=> AtRest(g)
             /\ row'[g] = row[g] \/ (g = f /\ row'[g] = "DELETED" /\ delete[r].pc = "update" /\ delete[r].file = f
                                     /\ delete'[r].pc = "unlink" /\ delete'[r].file = f)
             /\ row[g] = "NONE" <=> row'[g] = "NONE"
  <2>1. AtRest(g)' <=> AtRest(g)
    BY <1>1 DEF AtRest
  <2>2. delete[r].pc = "update" => row[delete[r].file] # "NONE"
    BY DEF FileInv, Found
  <2>3. row'[g] = row[g] \/ (g = f /\ row'[g] = "DELETED" /\ delete[r].pc = "update" /\ delete[r].file = f
                             /\ delete'[r].pc = "unlink" /\ delete'[r].file = f)
    BY <1>2
  <2> QED
    BY <2>1, <2>2, <2>3
<1>5. ASSUME NEW g \in Files PROVE Birth(g)'
  BY <1>1, <1>4, BirthKept DEF FileInv
<1>6. ASSUME NEW g \in Files PROVE Kept(g)'
  <2> SUFFICES ASSUME g \notin overlap'
               PROVE  /\ \A x \in Deletes : delete'[x].file = g =>
                           AtRest(g)' /\ (delete'[x].pc = "unlink" => row'[g] = "DELETED")
                      /\ row'[g] = "DELETED" => AtRest(g)'
                      /\ g \notin blob' => Hidden(row'[g]) /\ (upload'[g] = "store" \/ AtRest(g)')
                      /\ \A x \in Downloads :
                           download'[x].file = g /\ download'[x].pc = "missing" => row'[g] = "DELETED"
    BY DEF Kept
  <2>1. /\ \A x \in Deletes : delete[x].file = g =>
             AtRest(g) /\ (delete[x].pc = "unlink" => row[g] = "DELETED")
        /\ row[g] = "DELETED" => AtRest(g)
        /\ g \notin blob => Hidden(row[g]) /\ (upload[g] = "store" \/ AtRest(g))
        /\ \A x \in Downloads : download[x].file = g /\ download[x].pc = "missing" => row[g] = "DELETED"
    BY <1>3 DEF FileInv, Kept
  <2>2. delete'[r].file = g => AtRest(g) /\ (delete'[r].pc = "unlink" => row'[g] = "DELETED")
    BY <1>2, <2>1
  <2>3. \A x \in Deletes : delete'[x].file = g =>
          AtRest(g)' /\ (delete'[x].pc = "unlink" => row'[g] = "DELETED")
    BY <1>1, <1>4, <2>1, <2>2
  <2>4. row'[g] = "DELETED" => AtRest(g)'
    BY <1>4, <2>1
  <2>5. g \notin blob' => Hidden(row'[g]) /\ (upload'[g] = "store" \/ AtRest(g)')
    <3>1. g \in blob /\ g \notin blob' => row[g] = "DELETED"
      BY <1>2, <2>1
    <3> QED
      BY <1>1, <1>4, <2>1, <3>1 DEF Hidden
  <2>6. \A x \in Downloads : download'[x].file = g /\ download'[x].pc = "missing" => row'[g] = "DELETED"
    BY <1>1, <1>4, <2>1
  <2> QED
    BY <2>3, <2>4, <2>5, <2>6
<1>7. ASSUME NEW g \in Files PROVE Leftover(g)'
  <2> SUFFICES ASSUME faults'.error = 0, g \in blob', row'[g] = "DELETED"
               PROVE  \E x \in Deletes : delete'[x].file = g /\ delete'[x].pc = "unlink"
    BY DEF Leftover
  <2>1. CASE row'[g] = row[g]
    <3>1. PICK x \in Deletes : delete[x].file = g /\ delete[x].pc = "unlink"
      BY <1>3, <2>1 DEF FileInv, Leftover
    <3>2. x # r
      BY <1>2, <1>3, <3>1
    <3> QED
      BY <1>1, <3>1, <3>2
  <2>2. CASE row'[g] # row[g]
    BY <1>4, <2>2
  <2> QED
    BY <2>1, <2>2
<1>8. ASSUME NEW t \in Slots PROVE Busy(t)'
  BY <1>1, BusyKept DEF FileInv
<1>9. Found'
  <2>1. /\ \A x \in Downloads : download[x].pc # "idle" => download[x].file \in Files
        /\ \A x \in Deletes : delete[x].pc # "idle" => delete[x].file \in Files
    BY DEF TypeOK
  <2>2. delete'[r].pc \in {"update", "unlink"} => row'[delete'[r].file] # "NONE"
    BY <1>2 DEF Hidden
  <2>3. \A x \in Deletes : delete'[x].pc \in {"update", "unlink"} => row'[delete'[x].file] # "NONE"
    BY <1>1, <1>4, <2>1, <2>2 DEF FileInv, Found
  <2>4. \A x \in Downloads : download'[x].pc = "fetch" => row'[download'[x].file] # "NONE"
    BY <1>1, <1>4, <2>1 DEF FileInv, Found
  <2> QED
    BY <2>3, <2>4 DEF Found
<1> QED
  BY <1>5, <1>6, <1>7, <1>8, <1>9 DEF FileInv

LEMMA FileDownload ==
  ASSUME TypeOK, FileInv, NEW r \in Downloads, DownloadBlob(r) \/ \E f \in Files : DownloadRead(r, f)
  PROVE  FileInv'
<1>1. /\ UNCHANGED <<upload, blob, row, entry, run, delete, announced, overlap, faults>>
      /\ \A x \in Downloads : x # r => download'[x] = download[x]
  BY DEF DownloadBlob, DownloadRead, TypeOK
<1>2. \/ \E f \in Files :
           /\ download'[r].file = f /\ download'[r].pc \in {"notFound", "notReady", "fetch", "error"}
           /\ download'[r].pc = "fetch" => row[f] # "NONE"
      \/ /\ download[r].pc = "fetch" /\ download'[r].file = download[r].file
         /\ download'[r].pc \in {"ok", "missing", "error"}
         /\ download'[r].pc = "missing" => download[r].file \notin blob
  <2>1. ASSUME NEW f \in Files, DownloadRead(r, f)
        PROVE  /\ download'[r].file = f /\ download'[r].pc \in {"notFound", "notReady", "fetch", "error"}
               /\ download'[r].pc = "fetch" => row[f] # "NONE"
    <3>1. PICK step \in {"notFound", "notReady", "fetch", "error"} :
            /\ download' = [download EXCEPT ![r] = [file |-> f, pc |-> step]]
            /\ step = "fetch" => row[f] # "NONE"
      BY <2>1 DEF DownloadRead, Hidden
    <3> QED
      BY <3>1 DEF TypeOK
  <2>2. CASE DownloadBlob(r)
    <3>1. PICK step \in {"ok", "missing", "error"} :
            /\ download' = [download EXCEPT ![r].pc = step] /\ download[r].pc = "fetch"
            /\ step = "missing" => download[r].file \notin blob
      BY <2>2 DEF DownloadBlob
    <3>2. download \in [Downloads -> DownloadRecord]
      BY DEF TypeOK, DownloadRecord, DownloadStep
    <3>3. download'[r].pc = step /\ download'[r].file = download[r].file
      BY <3>1, <3>2 DEF DownloadRecord
    <3> QED
      BY <3>1, <3>3
  <2> QED
    BY <2>1, <2>2
<1>3. ASSUME NEW g \in Files PROVE Birth(g)' /\ Leftover(g)'
  BY <1>1, BirthKept, LeftoverKept DEF FileInv
<1>4. ASSUME NEW g \in Files PROVE Kept(g)'
  <2> SUFFICES ASSUME g \notin overlap
               PROVE  \A x \in Downloads :
                        download'[x].file = g /\ download'[x].pc = "missing" => row[g] = "DELETED"
    <3>1. AtRest(g)' <=> AtRest(g)
      BY <1>1 DEF AtRest
    <3> QED
      BY <1>1, <3>1 DEF FileInv, Kept
  <2>1. ASSUME download'[r].file = g, download'[r].pc = "missing" PROVE row[g] = "DELETED"
    <3>1. download[r].pc = "fetch" /\ download[r].file = g /\ g \notin blob
      BY <1>2, <2>1
    <3>2. row[g] # "NONE"
      BY <3>1 DEF FileInv, Found
    <3>3. Hidden(row[g])
      BY <3>1 DEF FileInv, Kept
    <3> QED
      BY <3>2, <3>3 DEF Hidden
  <2> QED
    BY <1>1, <2>1 DEF FileInv, Kept
<1>5. ASSUME NEW t \in Slots PROVE Busy(t)'
  BY <1>1, BusyKept DEF FileInv
<1>6. Found'
  BY <1>1, <1>2 DEF FileInv, Found
<1> QED
  BY <1>3, <1>4, <1>5, <1>6 DEF FileInv

\* A step of a slot on its file: the row says what the processor writes, which is
\* never a deletion.
LEMMA FileWork ==
  ASSUME TypeOK, FileInv, NEW s \in Slots, NEW f \in Files, run[s].file = f,
         NEW how \in Endings, Worked(s, f, how)
  PROVE  FileInv'
<1>1. /\ UNCHANGED <<upload, blob, entry, delete, download, overlap>>
      /\ \A t \in Slots : t # s => run'[t] = run[t]
      /\ \A g \in Files : g # f => row'[g] = row[g] /\ announced'[g] = announced[g]
      /\ run'[s].file = f /\ run'[s].pc # "idle"
      /\ row'[f] = row[f] \/ row'[f] \in {"PROCESSING", "READY", "FAILED"}
      /\ faults'.error = 0 => faults.error = 0
  <2>1. faults'.error = 0 => faults.error = 0
    BY FaultType DEF Worked, Counted
  <2>2. row'[f] = row[f] \/ row'[f] \in {"PROCESSING", "READY", "FAILED"}
    BY DEF Worked, Wrote, Called
  <2> QED
    BY <2>1, <2>2 DEF Worked
<1>2. /\ run[s].pc # "idle" /\ entry[f].st = "active" /\ entry[f].holder = s
      /\ ~ AtRest(f) /\ upload[f] # "store" /\ row[f] # "NONE"
      /\ f \notin overlap => row[f] # "DELETED" /\ f \in blob
  BY Runner, AliveFile DEF Alive
<1>3. \A t \in Slots : run'[t].file = run[t].file
  BY <1>1
<1>4. ASSUME NEW g \in Files PROVE Birth(g)' /\ Kept(g)' /\ Leftover(g)'
  <2>1. AtRest(g) => AtRest(g)'
    BY <1>1, <1>3, RestKept
  <2>2. row[g] = "NONE" <=> row'[g] = "NONE"
    BY <1>1, <1>2
  <2>3. row'[g] = row[g] \/ g \in overlap \/ (~ AtRest(g) /\ row'[g] # "DELETED" /\ g \in blob')
    BY <1>1, <1>2
  <2>4. Birth(g)'
    BY <1>1, <1>3, <2>2, BirthKept DEF FileInv
  <2>5. Kept(g)'
    BY <1>1, <2>1, <2>3, KeptKept DEF FileInv
  <2>6. Leftover(g)'
    BY <1>1, LeftoverKept DEF FileInv
  <2> QED
    BY <2>4, <2>5, <2>6
<1>5. ASSUME NEW t \in Slots PROVE Busy(t)'
  <2>1. CASE t = s
    BY <1>1, <1>2, <2>1 DEF Busy
  <2>2. CASE t # s
    BY <1>1, <2>2, BusyKept DEF FileInv
  <2> QED
    BY <2>1, <2>2
<1>6. Found'
  <2>1. \A g \in Files : row[g] # "NONE" => row'[g] # "NONE"
    BY <1>1
  <2> QED
    BY <1>1, <2>1, FoundKept DEF FileInv
<1> QED
  BY <1>4, <1>5, <1>6 DEF FileInv

\* What the queue does to the entry of one file: the end of a run, or a timer.
LEMMA FileQueue ==
  ASSUME TypeOK, FileInv, NEW f \in Files, NEW new \in Entry, entry[f].st # "absent",
         UNCHANGED <<upload, blob, row, delete, download, overlap>>,
         faults'.error = faults.error,
         entry'[f] = new, \A g \in Files : g # f => entry'[g] = entry[g],
         \A t \in Slots : IF run[t].file = f THEN run'[t] = Idle ELSE run'[t] = run[t],
         entry[f].st \in {"completed", "failed"} => new.st \in {entry[f].st, "absent"},
         new.holder \notin Slots, new.holder # NoLock => new.st = "active"
  PROVE  FileInv'
<1>1. ASSUME NEW t \in Slots
      PROVE  run'[t].file = run[t].file \/ (run[t].file = f /\ run'[t].file \notin Files)
  BY FileAssumption DEF FileAssumption, Idle
<1>2. ASSUME NEW g \in Files PROVE AtRest(g) => AtRest(g)'
  <2>1. \A t \in Slots : run'[t].file = run[t].file \/ run'[t].file # g
    BY <1>1
  <2>2. AtRest(g) => entry'[g].st \in {entry[g].st, "absent"}
    BY DEF AtRest, Finished
  <2> QED
    BY <2>1, <2>2, RestKept
<1>3. upload[f] \notin {"store", "create", "add"} /\ row[f] # "NONE"
  BY DEF FileInv, Birth, Absent
<1>4. ASSUME NEW g \in Files PROVE Birth(g)'
  <2>1. CASE g = f
    BY <1>3, <2>1 DEF FileInv, Birth
  <2>2. CASE g # f
    <3>1. entry[g].holder \in Slots => run[entry[g].holder].file = g
      BY DEF FileInv, Birth
    <3>2. entry[g].holder \in Slots => run'[entry[g].holder].file = run[entry[g].holder].file
      BY <2>2, <3>1
    <3> QED
      BY <2>2, <3>2, BirthKept DEF FileInv
  <2> QED
    BY <2>1, <2>2
<1>5. ASSUME NEW g \in Files PROVE Kept(g)' /\ Leftover(g)'
  BY <1>2, KeptKept, LeftoverKept DEF FileInv
<1>6. ASSUME NEW t \in Slots PROVE Busy(t)'
  <2>1. CASE run[t].file = f
    BY <2>1 DEF Busy, Idle
  <2>2. CASE run[t].file # f
    <3>1. run[t].pc # "idle" => run[t].file \in Files
      BY Runner
    <3> QED
      BY <2>2, <3>1, BusyKept DEF FileInv
  <2> QED
    BY <2>1, <2>2
<1>7. Found'
  BY FoundKept DEF FileInv
<1> QED
  BY <1>4, <1>5, <1>6, <1>7 DEF FileInv

\* The end of a run, seen from its file.
LEMMA FinishMoves ==
  ASSUME TypeOK, FileInv, NEW s \in Slots, NEW f \in Files, run[s].file = f, Ack(s) \/ Nack(s)
  PROVE  /\ UNCHANGED <<upload, blob, row, delete, download, announced, overlap, faults>>
         /\ entry[f].st = "active" /\ entry[f].holder = s
         /\ \/ run[s].pc = "ack" /\ entry'[f] = Complete(entry[f])
            \/ run[s].pc = "nack" /\ entry'[f] = Fail(entry[f], MaxAttempts)
         /\ \A g \in Files : g # f => entry'[g] = entry[g]
         /\ run'[s] = Idle /\ \A t \in Slots : t # s => run'[t] = run[t]
<1>1. entry[f].st = "active" /\ entry[f].holder = s
  BY Runner
<1>2. entry \in [Files -> Entry] /\ run \in [Slots -> SlotRecord]
  BY DEF TypeOK, SlotRecord
<1>3. ASSUME NEW step, NEW new, Finish(s, step, new)
      PROVE  /\ UNCHANGED <<upload, blob, row, delete, download, announced, overlap, faults>>
             /\ run[s].pc = step /\ entry'[f] = new
             /\ \A g \in Files : g # f => entry'[g] = entry[g]
             /\ run'[s] = Idle /\ \A t \in Slots : t # s => run'[t] = run[t]
  BY <1>1, <1>2, <1>3 DEF Finish, Freed
<1> QED
  BY <1>1, <1>3 DEF Ack, Nack

LEMMA FileFinish ==
  ASSUME TypeOK, FileInv, NEW s \in Slots, Ack(s) \/ Nack(s)
  PROVE  FileInv'
<1>1. PICK f \in Files : f = run[s].file
  BY Runner DEF Ack, Nack, Finish
<1>2. /\ UNCHANGED <<upload, blob, row, delete, download, announced, overlap, faults>>
      /\ entry[f].st = "active" /\ entry[f].holder = s
      /\ entry'[f] \in {Complete(entry[f]), Fail(entry[f], MaxAttempts)}
      /\ \A g \in Files : g # f => entry'[g] = entry[g]
      /\ run'[s] = Idle /\ \A t \in Slots : t # s => run'[t] = run[t]
  BY <1>1, FinishMoves
<1>3. entry'[f] \in Entry /\ entry'[f].holder = NoLock
  <2>1. entry[f] \in Entry /\ MaxAttempts \in Nat
    BY FileAssumption DEF FileAssumption, TypeOK
  <2>2. Complete(entry[f]) \in Entry /\ Fail(entry[f], MaxAttempts) \in Entry
    BY <2>1, EntryOperations
  <2>3. Complete(entry[f]).holder = NoLock /\ Fail(entry[f], MaxAttempts).holder = NoLock
    BY DEF Complete, Fail
  <2> QED
    BY <1>2, <2>2, <2>3
<1>4. \A t \in Slots : IF run[t].file = f THEN run'[t] = Idle ELSE run'[t] = run[t]
  BY <1>1, <1>2, Runner
<1> QED
  BY <1>2, <1>3, <1>4, FileQueue, LockAssumption DEF LockAssumption

LEMMA FileTake ==
  ASSUME TypeOK, FileInv, NEW s \in Slots, NEW f \in Files, TakeFile(s, f)
  PROVE  FileInv'
<1>1. /\ UNCHANGED <<upload, blob, row, delete, download, announced, overlap, faults>>
      /\ run[s].pc = "idle" /\ entry[f].st = "waiting" /\ entry'[f] = Take(entry[f], s)
      /\ \A g \in Files : g # f => entry'[g] = entry[g]
      /\ \A t \in Slots : t # s => run'[t] = run[t]
      /\ run'[s] = [pc |-> "read", file |-> f]
  BY DEF TakeFile, TypeOK
<1>2. entry'[f].st = "active" /\ entry'[f].holder = s
  <2>1. entry[f] \in Entry
    BY DEF TypeOK
  <2> QED
    BY <1>1, <2>1 DEF Take, Entry
<1>3. /\ ~ AtRest(f) /\ upload[f] # "store" /\ row[f] # "NONE"
      /\ f \notin overlap => row[f] # "DELETED" /\ f \in blob
      /\ upload[f] \notin {"store", "create", "add"}
  BY <1>1, AliveFile DEF Alive, FileInv, Birth, Absent
<1>4. ASSUME NEW g \in Files, g # f PROVE entry[g].holder # s
  BY <1>1, Runner
<1>5. ASSUME NEW g \in Files PROVE AtRest(g) => AtRest(g)'
  <2>1. CASE g = f
    BY <1>3, <2>1
  <2>2. CASE g # f
    BY <1>1, <2>2, RestKept
  <2> QED
    BY <2>1, <2>2
<1>6. ASSUME NEW g \in Files PROVE Birth(g)'
  <2>1. CASE g = f
    BY <1>1, <1>2, <1>3, <2>1 DEF FileInv, Birth
  <2>2. CASE g # f
    BY <1>1, <1>4, <2>2, BirthKept DEF FileInv
  <2> QED
    BY <2>1, <2>2
<1>7. ASSUME NEW g \in Files PROVE Kept(g)' /\ Leftover(g)'
  BY <1>1, <1>5, KeptKept, LeftoverKept DEF FileInv
<1>8. ASSUME NEW t \in Slots PROVE Busy(t)'
  <2>1. CASE t = s
    BY <1>1, <1>2, <2>1 DEF Busy
  <2>2. CASE t # s
    <3>1. run[t].pc # "idle" => run[t].file \in Files /\ run[t].file # f
      BY <1>1, Runner
    <3> QED
      BY <1>1, <2>2, <3>1, BusyKept DEF FileInv
  <2> QED
    BY <2>1, <2>2
<1>9. Found'
  BY <1>1, FoundKept DEF FileInv
<1> QED
  BY <1>6, <1>7, <1>8, <1>9 DEF FileInv

LEMMA FileCrash ==
  ASSUME TypeOK, FileInv, NEW dead \in SUBSET Slots, Crash(dead)
  PROVE  FileInv'
<1>1. /\ UNCHANGED <<upload, blob, row, delete, download, announced, overlap>>
      /\ \A g \in Files : entry'[g] = IF entry[g].holder \in dead
                                        THEN [entry[g] EXCEPT !.holder = Orphan] ELSE entry[g]
      /\ \A t \in Slots : run'[t] = IF t \in dead THEN Idle ELSE run[t]
      /\ faults'.error = faults.error
  BY DEF Crash, TypeOK
<1>2. ASSUME NEW g \in Files
      PROVE  /\ entry'[g].st = entry[g].st
             /\ entry[g].holder \in dead => entry'[g].holder = Orphan /\ entry[g].st = "active"
             /\ entry[g].holder \notin dead => entry'[g] = entry[g]
  <2>1. entry[g] \in Entry /\ (entry[g].holder \in dead => entry[g].st = "active")
    BY Runner DEF TypeOK
  <2> QED
    BY <1>1, <2>1 DEF Entry
<1>3. ASSUME NEW g \in Files PROVE AtRest(g) => AtRest(g)'
  <2>1. \A t \in Slots : run'[t].file = run[t].file \/ run'[t].file # g
    BY <1>1, FileAssumption DEF FileAssumption, Idle
  <2> QED
    BY <1>1, <1>2, <2>1, RestKept
<1>4. ASSUME NEW g \in Files PROVE Birth(g)'
  <2>1. CASE entry[g].holder \in dead
    BY <1>1, <1>2, <2>1, LockAssumption DEF LockAssumption, FileInv, Birth, Absent
  <2>2. CASE entry[g].holder \notin dead
    BY <1>1, <1>2, <2>2, BirthKept DEF FileInv
  <2> QED
    BY <2>1, <2>2
<1>5. ASSUME NEW g \in Files PROVE Kept(g)' /\ Leftover(g)'
  BY <1>1, <1>3, KeptKept, LeftoverKept DEF FileInv
<1>6. ASSUME NEW t \in Slots PROVE Busy(t)'
  <2>1. CASE t \in dead
    BY <1>1, <2>1 DEF Busy, Idle
  <2>2. CASE t \notin dead
    <3>1. run[t].pc # "idle" => run[t].file \in Files /\ entry[run[t].file].holder = t
      BY Runner
    <3> QED
      BY <1>1, <1>2, <2>2, <3>1, BusyKept DEF FileInv
  <2> QED
    BY <2>1, <2>2
<1>7. Found'
  BY <1>1, FoundKept DEF FileInv
<1> QED
  BY <1>4, <1>5, <1>6, <1>7 DEF FileInv

\* What a timer of the queue does to an entry that no slot works on.
Moves(e, new) ==
  \/ e.st = "active" /\ e.holder = Orphan /\ new = ReleaseLock(e)
  \/ e.st = "active" /\ e.holder = NoLock /\ new = Stall(e)
  \/ e.st = "delayed" /\ e.holder = NoLock /\ new = Promote(e)
  \/ e.st = "completed" /\ e.holder = NoLock /\ new = Absent

LEMMA TimerMoves ==
  ASSUME TypeOK, FileInv, NEW f \in Files, QueueTimer(f) \/ Trim(f)
  PROVE  /\ UNCHANGED <<upload, blob, row, run, delete, download, announced, overlap, faults>>
         /\ \A g \in Files : g # f => entry'[g] = entry[g]
         /\ entry'[f] \in Entry /\ Moves(entry[f], entry'[f])
         /\ entry[f].holder \notin Slots /\ entry'[f].holder = NoLock
<1>1. entry[f] \in Entry /\ (entry[f].holder # NoLock => entry[f].st = "active")
  BY DEF FileInv, Birth, TypeOK
<1>2. \E new \in Entry : QueueStep(f, new) /\ Moves(entry[f], new)
  <2>1. CASE ExpireLock(f)
    BY <1>1, <2>1, EntryOperations, LockAssumption DEF LockAssumption, ExpireLock, Moves
  <2>2. CASE StalledCheck(f)
    BY <1>1, <2>2, EntryOperations DEF StalledCheck, Moves
  <2>3. CASE EndBackoff(f)
    BY <1>1, <2>3, EntryOperations DEF EndBackoff, Moves
  <2>4. CASE Trim(f)
    BY <1>1, <2>4, EntryOperations DEF Trim, Moves
  <2> QED
    BY <2>1, <2>2, <2>3, <2>4 DEF QueueTimer
<1>3. PICK new \in Entry : QueueStep(f, new) /\ Moves(entry[f], new)
  BY <1>2
<1>4. entry'[f] = new /\ \A g \in Files : g # f => entry'[g] = entry[g]
  BY <1>3 DEF QueueStep, TypeOK
<1>5. entry[f].holder \notin Slots /\ new.holder = NoLock
  BY <1>1, <1>3, LockAssumption DEF LockAssumption, Moves, ReleaseLock, Stall, Promote, Absent, Entry
<1> QED
  BY <1>3, <1>4, <1>5 DEF QueueStep

LEMMA FileTimers ==
  ASSUME TypeOK, FileInv, NEW f \in Files, QueueTimer(f) \/ Trim(f)
  PROVE  FileInv'
<1>1. /\ UNCHANGED <<upload, blob, row, run, delete, download, overlap, faults>>
      /\ \A g \in Files : g # f => entry'[g] = entry[g]
      /\ entry'[f] \in Entry /\ Moves(entry[f], entry'[f])
      /\ entry[f].holder \notin Slots /\ entry'[f].holder = NoLock
  BY TimerMoves
<1>2. /\ entry[f].st # "absent"
      /\ entry[f].st \in {"completed", "failed"} => entry'[f].st \in {entry[f].st, "absent"}
  BY <1>1 DEF Moves, Absent
<1>3. \A t \in Slots : IF run[t].file = f THEN run'[t] = Idle ELSE run'[t] = run[t]
  BY <1>1, Runner
<1> QED
  BY <1>1, <1>2, <1>3, FileQueue, LockAssumption DEF LockAssumption

LEMMA FileStep ==
  ASSUME TypeOK, FileInv, Next
  PROVE  FileInv'
<1>1. ASSUME NEW s \in Slots, Process(s) PROVE FileInv'
  <2>1. run[s].file \in Files
    <3>1. run[s].pc # "idle"
      BY <1>1 DEF Process, ReadFile, MarkProcessing, Extract, MarkReady, AnnounceReady, MarkFailed,
                  AnnounceFailed, Await, Ack, Nack, Finish
    <3> QED
      BY <3>1, BusySlot
  <2> QED
    BY <1>1, <2>1, ProcessWorks, FileWork, FileFinish
<1> QED
  BY <1>1, FileUpload, FileDelete, FileDownload, FileTake, FileCrash, FileTimers DEF Next

LEMMA FileInit == Init => FileInv
<1> SUFFICES ASSUME Init PROVE FileInv
  OBVIOUS
<1>1. ASSUME NEW f \in Files PROVE Birth(f) /\ Kept(f) /\ Leftover(f)
  BY LockAssumption, FileAssumption
  DEF LockAssumption, FileAssumption, Init, Birth, Kept, Leftover, Absent, Idle, Hidden
<1>2. Found /\ \A s \in Slots : Busy(s)
  BY DEF Init, Found, Busy, Idle
<1> QED
  BY <1>1, <1>2 DEF FileInv

LEMMA FileAlways == Spec => [](TypeOK /\ FileInv)
<1>1. FileInv /\ UNCHANGED vars => FileInv'
  BY DEF vars, FileInv, Birth, Kept, Leftover, Busy, Found, AtRest
<1> QED
  BY FileInit, FileStep, TypeCorrect, <1>1, PTL DEF Spec

\* A file that clients can see has its content, unless it was deleted while it was
\* being processed.
THEOREM VisibleIsThere == Spec => []VisibleHasContent
<1>1. FileInv => VisibleHasContent
  BY DEF FileInv, Kept, VisibleHasContent
<1> QED
  BY FileAlways, <1>1, PTL

\* A download that finds no content behind the READY row it read has met a delete that
\* was sent after the file had settled, whatever other calls failed.
THEOREM OnlyDeletedMiss == Spec => []DownloadMissesOnlyDeleted
<1>1. TypeOK /\ FileInv => DownloadMissesOnlyDeleted
  BY DEF TypeOK, FileInv, Kept, DownloadMissesOnlyDeleted
<1> QED
  BY FileAlways, <1>1, PTL

\* Without failed calls no content stays behind a deleted row, whatever deletes and
\* processing do to each other.
THEOREM ContentGoesWithRow == Spec => []NothingLeftBehind
<1>1. TypeOK /\ FileInv => NothingLeftBehind
  BY DEF TypeOK, FileInv, Birth, Leftover, Unlinking, NothingLeftBehind, Hidden
<1> QED
  BY FileAlways, <1>1, PTL

-----------------------------------------------------------------------------
\* Faults are only added: what is calm now was calm before.
LEMMA FaultsGrow ==
  ASSUME TypeOK, Next
  PROVE  /\ faults.error \in Nat /\ faults'.error \in Nat /\ faults.error <= faults'.error
         /\ faults.crash \in Nat /\ faults'.crash \in Nat /\ faults.crash <= faults'.crash
         /\ faults.uncaught \in Nat /\ faults'.uncaught \in Nat /\ faults.uncaught <= faults'.uncaught
         /\ Calm' => Calm
<1>1. /\ faults.error \in Nat /\ faults.crash \in Nat /\ faults.uncaught \in Nat
      /\ faults \in FaultCount
  BY FaultType
<1>2. faults' = faults \/ CountError \/ CountUncaught \/ \E dead \in SUBSET Slots : Crash(dead)
  BY DEF Next, Uploading, StoreBlob, CreateFile, AddFile, AbortUpload, DeleteRow, DeleteBlob, AbortDelete,
         DeleteRead, DownloadBlob, DownloadRead, Process, ReadFile, MarkProcessing, Extract, MarkReady,
         AnnounceReady, MarkFailed, AnnounceFailed, Await, Ack, Nack, Finish, TakeFile, QueueTimer,
         ExpireLock, StalledCheck, EndBackoff, Trim, QueueStep
<1>3. ASSUME NEW dead \in SUBSET Slots, Crash(dead)
      PROVE  faults'.error = faults.error /\ faults'.crash = faults.crash + 1
             /\ faults'.uncaught = faults.uncaught
  <2>1. faults' = [faults EXCEPT !.crash = faults.crash + 1]
    BY <1>3 DEF Crash
  <2> QED
    BY <1>1, <2>1 DEF FaultCount
<1>4. /\ faults'.error \in Nat /\ faults.error <= faults'.error
      /\ faults'.crash \in Nat /\ faults.crash <= faults'.crash
      /\ faults'.uncaught \in Nat /\ faults.uncaught <= faults'.uncaught
  BY <1>1, <1>2, <1>3, FaultType
<1>5. Calm' => Calm
  <2>1. MaxStalledCount \in Nat /\ MaxAttempts \in Nat
    BY StalledAssumption, FileAssumption DEF StalledAssumption, FileAssumption
  <2> QED
    BY <1>1, <1>4, <2>1 DEF Calm
<1> QED
  BY <1>1, <1>4, <1>5

\* A step that leaves a file's entry, slot and events alone, and its row unless it
\* deletes it when no slot works on it.
LEMMA StoryKept ==
  ASSUME TypeOK, Next, NEW f \in Files, Story(f), entry'[f] = entry[f], announced'[f] = announced[f],
         row'[f] = row[f] \/ (row'[f] = "DELETED" /\ entry[f].holder \notin Slots),
         upload'[f] = "done" /\ entry[f].st = "absent" => upload[f] = "done",
         entry[f].holder \in Slots => run'[entry[f].holder].pc = run[entry[f].holder].pc
  PROVE  Story(f)'
<1>1. /\ faults.error \in Nat /\ faults'.error \in Nat /\ faults.error <= faults'.error
      /\ faults.crash \in Nat /\ faults'.crash \in Nat /\ faults.crash <= faults'.crash
      /\ faults'.uncaught = 0 => faults.uncaught = 0
  BY FaultsGrow
<1>2. entry[f] \in Entry
  BY DEF TypeOK
<1>3. Failing(f)' = Failing(f) /\ Failing(f) \in Nat
  BY DEF Failing
<1>4. Cut(entry[f]) \in Nat /\ entry[f].made \in Nat
  BY <1>2 DEF Cut, Entry
<1>5. entry[f].st \in Alive =>
        /\ Cut(entry'[f]) <= faults'.crash /\ entry'[f].made + Failing(f)' <= faults'.error
        /\ entry'[f].made < MaxAttempts
  BY <1>1, <1>3, <1>4 DEF Story
<1>6. entry[f].holder \in Slots =>
        HeldStory(run'[entry[f].holder].pc, row'[f], announced'[f], faults'.uncaught = 0)
  BY <1>1 DEF Story, HeldStory
<1> QED
  BY <1>5, <1>6 DEF Story

LEMMA StoryUpload ==
  ASSUME TypeOK, FileInv, Next, NEW g \in Files, Uploading(g) \/ AbortUpload(g),
         NEW f \in Files, Story(f)
  PROVE  Story(f)'
<1>1. run' = run /\ announced' = announced /\ upload[g] \in {"store", "create", "add"}
  BY DEF Uploading, StoreBlob, CreateFile, AddFile, AbortUpload
<1>2. CASE f # g
  <2>1. upload'[f] = upload[f] /\ row'[f] = row[f] /\ entry'[f] = entry[f]
    BY <1>2 DEF Uploading, StoreBlob, CreateFile, AddFile, AbortUpload, updateFileStatus, TypeOK
  <2> QED
    BY <1>1, <2>1, StoryKept
<1>3. CASE f = g
  <2>1. entry[f] = Absent
    BY <1>1, <1>3 DEF FileInv, Birth
  <2>2. \/ entry'[f] = Absent /\ upload'[f] # "done"
        \/ entry'[f] = Add(Absent)
    <3>1. CASE StoreBlob(f) \/ CreateFile(f)
      BY <2>1, <3>1 DEF StoreBlob, CreateFile, TypeOK
    <3>2. CASE AddFile(f)
      BY <2>1, <3>2 DEF AddFile, TypeOK
    <3>3. CASE AbortUpload(f)
      BY <2>1, <3>3 DEF AbortUpload, TypeOK
    <3> QED
      BY <1>3, <3>1, <3>2, <3>3 DEF Uploading
  <2>3. CASE entry'[f] = Absent /\ upload'[f] # "done"
    BY <2>3, LockAssumption DEF LockAssumption, Story, Absent, Alive
  <2>4. CASE entry'[f] = Add(Absent)
    <3>1. /\ entry'[f].st = "waiting" /\ entry'[f].made = 0 /\ entry'[f].stalls = 0
          /\ entry'[f].holder = NoLock
      BY <2>4 DEF Add, Absent
    <3>2. Cut(entry'[f]) = 0 /\ Failing(f)' = 0
      BY <3>1, LockAssumption DEF LockAssumption, Cut, Failing
    <3>3. faults'.error \in Nat /\ faults'.crash \in Nat /\ MaxAttempts \in Nat \ {0}
      BY FaultsGrow, FileAssumption DEF FileAssumption
    <3> QED
      BY <3>1, <3>2, <3>3, LockAssumption DEF LockAssumption, Story
  <2> QED
    BY <2>2, <2>3, <2>4
<1> QED
  BY <1>2, <1>3

LEMMA StoryRequests ==
  ASSUME TypeOK, FileInv, Next, NEW f \in Files, f \notin overlap', Story(f),
         \/ \E r \in Deletes :
              DeleteRow(r) \/ DeleteBlob(r) \/ AbortDelete(r) \/ \E g \in Files : DeleteRead(r, g)
         \/ \E r \in Downloads : DownloadBlob(r) \/ \E g \in Files : DownloadRead(r, g)
  PROVE  Story(f)'
<1>1. ASSUME NEW r \in Deletes,
             DeleteRow(r) \/ DeleteBlob(r) \/ AbortDelete(r) \/ \E g \in Files : DeleteRead(r, g)
      PROVE  Story(f)'
  <2>1. UNCHANGED <<upload, entry, run, announced>>
    BY <1>1, DeleteMoves
  <2>2. row'[f] = row[f] \/ (row'[f] = "DELETED" /\ delete[r].file = f)
    BY <1>1, DeleteMoves
  <2>3. f \notin overlap
    BY <1>1, DeleteMoves
  <2>4. delete[r].file = f => entry[f].holder \notin Slots
    <3>1. delete[r].file = f => AtRest(f)
      BY <2>3 DEF FileInv, Kept
    <3> QED
      BY <3>1, Runner DEF AtRest
  <2> QED
    BY <2>1, <2>2, <2>4, StoryKept
<1>2. ASSUME NEW r \in Downloads, DownloadBlob(r) \/ \E g \in Files : DownloadRead(r, g)
      PROVE  Story(f)'
  <2>1. UNCHANGED <<upload, entry, run, row, announced>>
    BY <1>2 DEF DownloadBlob, DownloadRead
  <2> QED
    BY <2>1, StoryKept
<1> QED
  BY <1>1, <1>2

LEMMA StoryWork ==
  ASSUME TypeOK, FileInv, Next, NEW s \in Slots, NEW g \in Files, run[s].file = g,
         NEW how \in Endings, Worked(s, g, how), NEW f \in Files, f \notin overlap, Story(f)
  PROVE  Story(f)'
<1>1. /\ UNCHANGED <<upload, entry>>
      /\ \A t \in Slots : t # s => run'[t] = run[t]
      /\ f # g => row'[f] = row[f] /\ announced'[f] = announced[f]
  BY DEF Worked
<1>2. run[s].pc # "idle" /\ entry[g].st = "active" /\ entry[g].holder = s
  BY Runner
<1>3. CASE f # g
  <2>1. entry[f].holder # s
    BY <1>3, Runner
  <2> QED
    BY <1>1, <1>3, <2>1, StoryKept
<1>4. CASE f = g
  <2>1. ~ Hidden(row[f])
    BY <1>2, <1>4, AliveFile DEF Alive, Hidden
  <2>2. /\ Wrote(how, run[s].pc, row[f], announced[f], run'[s].pc, row'[f], announced'[f])
        /\ Counted(how)
    BY <1>4 DEF Worked
  <2>3. /\ faults.error \in Nat /\ faults.uncaught \in Nat /\ faults.crash \in Nat
        /\ faults'.error = faults.error + (IF how = "done" THEN 0 ELSE 1)
        /\ faults'.uncaught = faults.uncaught + (IF how = "uncaught" THEN 1 ELSE 0)
        /\ faults'.crash = faults.crash
    BY <2>2, FaultsGrow DEF Counted
  <2>4. /\ Cut(entry[f]) <= faults.crash /\ entry[f].made + Failing(f) <= faults.error
        /\ entry[f].made < MaxAttempts /\ entry[f].made \in Nat
        /\ HeldStory(run[s].pc, row[f], announced[f], faults.uncaught = 0)
    BY <1>2, <1>4 DEF Story, Alive, TypeOK, Entry
  <2>5. /\ Failing(f) = (IF run[s].pc \in CatchSteps \cup {"nack"} THEN 1 ELSE 0)
        /\ Failing(f)' = (IF run'[s].pc \in CatchSteps \cup {"nack"} THEN 1 ELSE 0)
    BY <1>1, <1>2, <1>4 DEF Failing
  <2>6. Failing(f)' <= Failing(f) + (IF how = "done" THEN 0 ELSE 1)
    BY <2>1, <2>2, <2>5 DEF Wrote, Called, CatchSteps
  <2>7. entry[f].made + Failing(f)' <= faults'.error
    <3>1. Failing(f) \in Nat /\ Failing(f)' \in Nat
      BY <2>5
    <3> QED
      BY <2>3, <2>4, <2>6, <3>1
  <2>8. HeldStory(run'[s].pc, row'[f], announced'[f], faults'.uncaught = 0)
    BY <2>1, <2>2, <2>3, <2>4 DEF Wrote, Called, HeldStory
  <2> QED
    BY <1>1, <1>2, <1>4, <2>3, <2>4, <2>7, <2>8 DEF Story
<1> QED
  BY <1>3, <1>4

LEMMA StoryFinish ==
  ASSUME TypeOK, FileInv, Next, Calm, NEW s \in Slots, Ack(s) \/ Nack(s),
         NEW f \in Files, Story(f)
  PROVE  Story(f)'
<1>1. PICK g \in Files : g = run[s].file
  BY Runner DEF Ack, Nack, Finish
<1>2. /\ UNCHANGED <<upload, blob, row, delete, download, announced, overlap, faults>>
      /\ entry[g].st = "active" /\ entry[g].holder = s
      /\ \/ run[s].pc = "ack" /\ entry'[g] = Complete(entry[g])
         \/ run[s].pc = "nack" /\ entry'[g] = Fail(entry[g], MaxAttempts)
      /\ \A x \in Files : x # g => entry'[x] = entry[x]
      /\ run'[s] = Idle /\ \A t \in Slots : t # s => run'[t] = run[t]
  BY <1>1, FinishMoves
<1>3. CASE f # g
  <2>1. entry[f].holder # s
    BY <1>1, <1>3, Runner
  <2> QED
    BY <1>2, <1>3, <2>1, StoryKept
<1>4. CASE f = g
  <2>1. /\ Cut(entry[f]) <= faults.crash /\ entry[f].made + Failing(f) <= faults.error
        /\ entry[f].made < MaxAttempts /\ entry[f] \in Entry
        /\ HeldStory(run[s].pc, row[f], announced[f], faults.uncaught = 0)
    BY <1>2, <1>4 DEF Story, Alive, TypeOK
  <2>2. CASE run[s].pc = "ack" /\ entry'[f] = Complete(entry[f])
    <3>1. entry'[f].st = "completed" /\ entry'[f].holder = NoLock
      BY <2>2 DEF Complete
    <3>2. row'[f] = "READY" /\ "processed" \in announced'[f]
      BY <1>2, <2>1, <2>2 DEF HeldStory
    <3> QED
      BY <3>1, <3>2, LockAssumption DEF LockAssumption, Story, Alive
  <2>3. CASE run[s].pc = "nack" /\ entry'[f] = Fail(entry[f], MaxAttempts)
    <3>1. /\ entry'[f].st = (IF entry[f].made + 1 < MaxAttempts THEN "delayed" ELSE "failed")
          /\ entry'[f].made = entry[f].made + 1 /\ entry'[f].stalls = entry[f].stalls
          /\ entry'[f].holder = NoLock
      BY <2>3 DEF Fail
    <3>2. Failing(f) = 1 /\ Failing(f)' = 0
      BY <1>2, <1>4, <2>3, <3>1, LockAssumption DEF LockAssumption, Failing
    <3>3. /\ entry[f].made \in Nat /\ faults.error \in Nat /\ MaxAttempts \in Nat
          /\ entry[f].made + 1 <= faults.error
      BY <2>1, <3>2, FaultsGrow, FileAssumption DEF FileAssumption, Entry
    <3>4. CASE entry[f].made + 1 < MaxAttempts
      <4>1. Cut(entry'[f]) = entry[f].stalls /\ Cut(entry[f]) = entry[f].stalls
        BY <1>2, <1>4, <2>1, <3>1, <3>4 DEF Cut, Entry
      <4> QED
        BY <1>2, <2>1, <3>1, <3>2, <3>3, <3>4, <4>1, LockAssumption DEF LockAssumption, Story
    <3>5. CASE ~ (entry[f].made + 1 < MaxAttempts)
      <4>1. faults.uncaught = 0
        BY <3>3, <3>5 DEF Calm
      <4>2. row'[f] = "FAILED" /\ "failed" \in announced'[f]
        BY <1>2, <2>1, <2>3, <4>1 DEF HeldStory
      <4> QED
        BY <3>1, <3>5, <4>2, LockAssumption DEF LockAssumption, Story, Alive
    <3> QED
      BY <3>4, <3>5
  <2> QED
    BY <1>2, <1>4, <2>2, <2>3
<1> QED
  BY <1>3, <1>4

LEMMA StoryTake ==
  ASSUME TypeOK, FileInv, Next, NEW s \in Slots, NEW g \in Files, TakeFile(s, g),
         NEW f \in Files, Story(f)
  PROVE  Story(f)'
<1>1. /\ UNCHANGED <<upload, row, announced, faults>>
      /\ run[s].pc = "idle" /\ entry[g].st = "waiting" /\ entry'[g] = Take(entry[g], s)
      /\ \A x \in Files : x # g => entry'[x] = entry[x]
      /\ \A t \in Slots : t # s => run'[t] = run[t]
      /\ run'[s] = [pc |-> "read", file |-> g]
  BY DEF TakeFile, TypeOK
<1>2. CASE f # g
  <2>1. entry[f].holder # s
    BY <1>1, Runner
  <2> QED
    BY <1>1, <1>2, <2>1, StoryKept
<1>3. CASE f = g
  <2>1. entry[f] \in Entry /\ entry'[f] = Take(entry[f], s)
    BY <1>1, <1>3 DEF TypeOK
  <2>2. /\ entry'[f].st = "active" /\ entry'[f].holder = s /\ entry'[f].made = entry[f].made
        /\ entry'[f].stalls = entry[f].stalls
    BY <2>1 DEF Take, Entry
  <2>3. Cut(entry'[f]) = Cut(entry[f]) /\ Failing(f)' = 0
    BY <1>1, <1>3, <2>2 DEF Cut, Failing, CatchSteps
  <2>4. /\ Cut(entry[f]) <= faults.crash /\ entry[f].made + Failing(f) <= faults.error
        /\ entry[f].made < MaxAttempts
    BY <1>1, <1>3 DEF Story, Alive
  <2>5. entry[f].made + 0 <= faults.error
    BY <2>1, <2>4, FaultsGrow DEF Failing, Entry
  <2> QED
    BY <1>1, <2>2, <2>3, <2>4, <2>5 DEF Story, HeldStory
<1> QED
  BY <1>2, <1>3

LEMMA StoryCrash ==
  ASSUME TypeOK, FileInv, Next, NEW dead \in SUBSET Slots, Crash(dead), NEW f \in Files, Story(f)
  PROVE  Story(f)'
<1>1. /\ UNCHANGED <<upload, row, announced>>
      /\ entry'[f] = IF entry[f].holder \in dead
                       THEN [entry[f] EXCEPT !.holder = Orphan] ELSE entry[f]
      /\ \A t \in Slots : run'[t] = IF t \in dead THEN Idle ELSE run[t]
      /\ faults'.error = faults.error /\ faults'.crash = faults.crash + 1
  BY DEF Crash, TypeOK
<1>2. entry[f] \in Entry /\ faults.crash \in Nat /\ faults.error \in Nat
  BY FaultsGrow DEF TypeOK
<1>3. CASE entry[f].holder \notin dead
  BY <1>1, <1>3, StoryKept
<1>4. CASE entry[f].holder \in dead
  <2>1. /\ entry'[f].st = "active" /\ entry'[f].made = entry[f].made /\ entry[f].st = "active"
        /\ entry'[f].stalls = entry[f].stalls /\ entry'[f].holder = Orphan
    <3>1. entry[f].st = "active"
      BY <1>4, Runner
    <3> QED
      BY <1>1, <1>2, <1>4, <3>1 DEF Entry
  <2>2. Cut(entry'[f]) = Cut(entry[f]) + 1 /\ Cut(entry[f]) \in Nat /\ Failing(f)' = 0
    BY <1>2, <1>4, <2>1, LockAssumption DEF LockAssumption, Cut, Failing, Entry
  <2>3. /\ Cut(entry[f]) <= faults.crash /\ entry[f].made + Failing(f) <= faults.error
        /\ entry[f].made < MaxAttempts
    BY <2>1 DEF Story, Alive
  <2>4. entry[f].made + 0 <= faults.error
    BY <1>2, <2>3 DEF Failing, Entry
  <2> QED
    BY <1>1, <1>2, <2>1, <2>2, <2>3, <2>4, LockAssumption DEF LockAssumption, Story
<1> QED
  BY <1>3, <1>4

LEMMA StoryTimers ==
  ASSUME TypeOK, FileInv, Next, Calm, NEW g \in Files, QueueTimer(g) \/ Trim(g),
         NEW f \in Files, Story(f)
  PROVE  Story(f)'
<1>1. /\ UNCHANGED <<upload, row, run, announced, faults>>
      /\ \A x \in Files : x # g => entry'[x] = entry[x]
      /\ entry'[g] \in Entry /\ Moves(entry[g], entry'[g])
      /\ entry[g].holder \notin Slots /\ entry'[g].holder = NoLock
  BY TimerMoves
<1>2. CASE f # g
  BY <1>1, <1>2, StoryKept
<1>3. CASE f = g
  <2>1. /\ faults.crash \in Nat /\ faults.error \in Nat /\ MaxStalledCount \in Nat
        /\ faults.crash <= MaxStalledCount /\ entry[f] \in Entry
    BY FaultsGrow, StalledAssumption DEF StalledAssumption, Calm, TypeOK
  <2>2. Failing(f) = 0 /\ Failing(f)' = 0
    BY <1>1, <1>3, LockAssumption DEF LockAssumption, Failing
  <2>3. CASE entry[f].st = "active" /\ entry[f].holder = Orphan /\ entry'[f] = ReleaseLock(entry[f])
    <3>1. /\ entry'[f].st = "active" /\ entry'[f].made = entry[f].made
          /\ entry'[f].stalls = entry[f].stalls
      BY <2>1, <2>3 DEF ReleaseLock, Entry
    <3>2. Cut(entry'[f]) = Cut(entry[f])
      BY <1>1, <1>3, <2>3, <3>1, LockAssumption DEF LockAssumption, Cut
    <3> QED
      BY <1>1, <1>3, <2>2, <2>3, <3>1, <3>2, LockAssumption DEF LockAssumption, Story, Alive
  <2>4. CASE entry[f].st = "active" /\ entry[f].holder = NoLock /\ entry'[f] = Stall(entry[f])
    <3>1. entry[f].stalls + 1 <= faults.crash /\ entry[f].stalls \in Nat
      BY <2>1, <2>4, LockAssumption DEF LockAssumption, Story, Alive, Cut, Entry
    <3>2. /\ entry'[f].st = "waiting" /\ entry'[f].made = entry[f].made
          /\ entry'[f].stalls = entry[f].stalls + 1
      BY <2>1, <2>4, <3>1 DEF Stall
    <3>3. Cut(entry'[f]) <= faults.crash
      BY <3>1, <3>2 DEF Cut
    <3> QED
      BY <1>1, <1>3, <2>2, <2>4, <3>2, <3>3, LockAssumption DEF LockAssumption, Story, Alive
  <2>5. CASE entry[f].st = "delayed" /\ entry'[f] = Promote(entry[f])
    <3>1. /\ entry'[f].st = "waiting" /\ entry'[f].made = entry[f].made
          /\ entry'[f].stalls = entry[f].stalls
      BY <2>1, <2>5 DEF Promote, Entry
    <3>2. Cut(entry'[f]) = Cut(entry[f])
      BY <2>5, <3>1 DEF Cut
    <3> QED
      BY <1>1, <1>3, <2>2, <2>5, <3>1, <3>2, LockAssumption DEF LockAssumption, Story, Alive
  <2>6. CASE entry[f].st = "completed" /\ entry'[f] = Absent
    BY <1>1, <2>6, LockAssumption DEF LockAssumption, Story, Alive, Absent
  <2> QED
    BY <1>1, <1>3, <2>3, <2>4, <2>5, <2>6 DEF Moves
<1> QED
  BY <1>2, <1>3

LEMMA StoryStep ==
  ASSUME TypeOK, FileInv, StoryInv, Next
  PROVE  StoryInv'
<1> SUFFICES ASSUME Calm', NEW f \in Files, f \notin overlap' PROVE Story(f)'
  BY DEF StoryInv
<1>1. Calm /\ f \notin overlap /\ Story(f)
  <2>1. overlap \subseteq overlap'
    <3>1. overlap' = overlap \/ \E r \in Deletes, g \in Files : DeleteRead(r, g)
      BY DEF Next, Uploading, StoreBlob, CreateFile, AddFile, AbortUpload, DeleteRow, DeleteBlob, AbortDelete,
             DownloadBlob, DownloadRead, Process, ReadFile, MarkProcessing, Extract, MarkReady,
             AnnounceReady, MarkFailed, AnnounceFailed, Await, Ack, Nack, Finish, TakeFile, QueueTimer,
             ExpireLock, StalledCheck, EndBackoff, Trim, QueueStep, Crash
    <3> QED
      BY <3>1 DEF DeleteRead
  <2>2. Calm
    BY FaultsGrow
  <2> QED
    BY <2>1, <2>2 DEF StoryInv
<1>2. ASSUME NEW s \in Slots, Process(s) PROVE Story(f)'
  <2>1. run[s].file \in Files
    <3>1. run[s].pc # "idle"
      BY <1>2 DEF Process, ReadFile, MarkProcessing, Extract, MarkReady, AnnounceReady, MarkFailed,
                  AnnounceFailed, Await, Ack, Nack, Finish
    <3> QED
      BY <3>1, BusySlot
  <2>2. CASE Ack(s) \/ Nack(s)
    BY <1>1, <2>2, StoryFinish
  <2>3. CASE ~ Ack(s) /\ ~ Nack(s)
    BY <1>1, <1>2, <2>1, <2>3, ProcessWorks, StoryWork
  <2> QED
    BY <2>2, <2>3
<1>3. ASSUME NEW s \in Slots, NEW g \in Files, TakeFile(s, g) PROVE Story(f)'
  BY <1>1, <1>3, StoryTake
<1>4. ASSUME NEW g \in Files, Uploading(g) \/ AbortUpload(g) PROVE Story(f)'
  BY <1>1, <1>4, StoryUpload
<1>5. ASSUME NEW g \in Files, QueueTimer(g) \/ Trim(g) PROVE Story(f)'
  BY <1>1, <1>5, StoryTimers
<1>6. ASSUME NEW dead \in SUBSET Slots, Crash(dead) PROVE Story(f)'
  BY <1>1, <1>6, StoryCrash
<1>7. ASSUME \/ \E r \in Deletes :
                  DeleteRow(r) \/ DeleteBlob(r) \/ AbortDelete(r) \/ \E g \in Files : DeleteRead(r, g)
             \/ \E r \in Downloads : DownloadBlob(r) \/ \E g \in Files : DownloadRead(r, g)
      PROVE  Story(f)'
  BY <1>1, <1>7, StoryRequests
<1> QED
  BY <1>2, <1>3, <1>4, <1>5, <1>6, <1>7 DEF Next

\* Once an uploaded file is processed its row, its events, the queue and, without failed
\* calls, the disk tell one story, however many of the processor's calls failed, as long
\* as its own catch block could report it.
THEOREM SettledAsTold == Spec => []SettledFile
<1>1. Init => StoryInv
  <2> SUFFICES ASSUME Init, NEW f \in Files PROVE Story(f)
    BY DEF StoryInv
  <2> QED
    BY LockAssumption DEF LockAssumption, Init, Story, Absent, Alive
<1>2. StoryInv /\ UNCHANGED vars => StoryInv'
  BY DEF vars, StoryInv, Story, Calm, Failing, Cut, HeldStory
<1>3. ASSUME TypeOK, FileInv, StoryInv PROVE SettledFile
  <2> SUFFICES ASSUME Calm, NEW f \in Files \ overlap, upload[f] = "done", AtRest(f)
               PROVE  /\ row[f] \in {"READY", "FAILED", "DELETED"}
                      /\ row[f] = "READY" => "processed" \in announced[f]
                      /\ row[f] = "FAILED" => "failed" \in announced[f] /\ entry[f].st = "failed"
                      /\ entry[f].st = "failed" => row[f] \in {"FAILED", "DELETED"}
                      /\ faults.error = 0 /\ ~ Unlinking(f) => (f \in blob <=> row[f] # "DELETED")
    BY DEF SettledFile
  <2>1. Story(f) /\ entry[f].st \in {"completed", "failed", "absent"}
    BY <1>3 DEF StoryInv, AtRest, Finished
  <2>2. /\ row[f] \in {"READY", "FAILED", "DELETED"}
        /\ row[f] = "READY" => "processed" \in announced[f]
        /\ row[f] = "FAILED" => "failed" \in announced[f] /\ entry[f].st = "failed"
        /\ entry[f].st = "failed" => row[f] \in {"FAILED", "DELETED"}
    BY <2>1 DEF Story
  <2>3. row[f] # "DELETED" => f \in blob
    BY <1>3, <2>2 DEF FileInv, Kept, Hidden
  <2>4. faults.error = 0 /\ ~ Unlinking(f) /\ f \in blob => row[f] # "DELETED"
    BY <1>3 DEF FileInv, Leftover, Unlinking
  <2> QED
    BY <2>2, <2>3, <2>4
<1> QED
  BY FileAlways, StoryStep, <1>1, <1>2, <1>3, PTL DEF Spec
=============================================================================
