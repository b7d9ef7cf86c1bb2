---------------------------- MODULE JobLifecycle ----------------------------
(***************************************************************************)
(* The life of a job: the API creates a row in PostgreSQL and an entry in  *)
(* the BullMQ queue, worker slots process the entry and write the outcome  *)
(* back to the row, clients cancel.                                        *)
(*                                                                         *)
(* Row and entry are two stores that no transaction spans.  Each await of  *)
(* the source is a step of its own: the API process, the worker slots and  *)
(* the queue's timers interleave between any two of them.                  *)
(***************************************************************************)
EXTENDS BullQueue

CONSTANTS
  Jobs,           \* the jobs clients may submit
  NoJob,          \* the job of an idle slot or an unused cancel request
  Procs,          \* worker processes
  ProcOf,         \* the process a slot belongs to
  Cancels,        \* DELETE /v1/jobs/:id requests
  MaxAttempts,    \* maxAttempts of each job
  MaxCrashes,     \* bound on worker process crashes
  MaxDbErrors,    \* bound on rejected database or dispatch calls of workers
  MaxLockLosses,  \* bound on live slots that lose the entry's lock
  MaxApiFaults,   \* bound on API requests cut off half way
  MaxEarlyCancels \* bound on cancellations of a job whose POST has not answered
                  \* yet, by clients that see the job in GET /v1/jobs

ASSUME NoJobAssumption == NoJob \notin Jobs

ASSUME ProcAssumption == ProcOf \in [Slots -> Procs]

\* src/api/v1/jobs.ts validates maxAttempts with z.number().int().min(1).max(10).
ASSUME AttemptsAssumption == MaxAttempts \in [Jobs -> 1..10]

ASSUME BudgetAssumption ==
  /\ MaxCrashes \in Nat
  /\ MaxDbErrors \in Nat
  /\ MaxLockLosses \in Nat
  /\ MaxApiFaults \in Nat
  /\ MaxEarlyCancels \in Nat

VARIABLES
  post,       \* how far the POST that creates the job has come
  row,        \* the job's row in PostgreSQL, with its log messages
  entry,      \* the job's entry in the job-processing queue
  run,        \* what each worker slot is doing
  cancel,     \* the cancel requests
  announced,  \* how often each verdict went to dispatchEvent
  starts,     \* how often a processor was invoked for the job (history)
  faults      \* faults and early cancellations so far

vars == <<post, row, entry, run, cancel, announced, starts, faults>>

Terminal == {"SUCCEEDED", "FAILED", "CANCELLED"}
JobStatus == {"NONE", "QUEUED", "RUNNING"} \cup Terminal
LogMessage == {"queued", "started", "completed", "failed", "exhausted", "cancelled"}

Row == [status : JobStatus, attempts : Nat, logs : SUBSET LogMessage]
NoRow == [status |-> "NONE", attempts |-> 0, logs |-> {}]

TrySteps == {"markRunning", "logStarted", "handle", "markSucceeded",
             "logCompleted", "announceDone"}
CatchSteps == {"count", "logFailed", "markFailed", "logExhausted", "announceFailed"}
RunStep == {"idle", "ack", "nack"} \cup TrySteps \cup CatchSteps

\* exhausted: attempts >= maxAttempts in the row that incrementAttempts returned
Run == [pc : RunStep, job : Jobs \cup {NoJob}, exhausted : BOOLEAN]
Idle == [pc |-> "idle", job |-> NoJob, exhausted |-> FALSE]

Faults == [crash : Nat, db : Nat, lock : Nat, api : Nat, early : Nat]

CancelStep == {"idle", "lookup", "remove", "update", "ok", "conflict", "notFound", "error"}

Init ==
  /\ post = [j \in Jobs |-> "unborn"]
  /\ row = [j \in Jobs |-> NoRow]
  /\ entry = [j \in Jobs |-> Absent]
  /\ run = [s \in Slots |-> Idle]
  /\ cancel = [c \in Cancels |-> [pc |-> "idle", job |-> NoJob]]
  /\ announced = [j \in Jobs |-> [completed |-> 0, failed |-> 0]]
  /\ starts = [j \in Jobs |-> 0]
  /\ faults = [crash |-> 0, db |-> 0, lock |-> 0, api |-> 0, early |-> 0]

(***************************************************************************)
(* Helpers named after the functions of jobs.service.ts and                *)
(* webhooks.service.ts.  None of the writes looks at the current status.   *)
(***************************************************************************)
updateJobStatus(j, status) == [row EXCEPT ![j].status = status]

addJobLog(j, message) == [row EXCEPT ![j].logs = @ \cup {message}]

incrementAttempts(j) == [row EXCEPT ![j].attempts = @ + 1]

dispatchEvent(j, event) == [announced EXCEPT ![j][event] = @ + 1]

\* cancelJob's status check, and a form that only guards against repeats.
CancellableUnlessCancelled(j) == row[j].status # "CANCELLED"
Cancellable(j) == row[j].status \in {"QUEUED", "RUNNING"}

\* The comparison of the catch block, and the same one try too late.
ExhaustedTooLate(j, attempts) == attempts > MaxAttempts[j]
Exhausted(j, attempts) == attempts >= MaxAttempts[j]

\* The attempts option of Queue.add, and the queue's default in its place.
DefaultAttempts(j) == 3
attemptsOption(j) == MaxAttempts[j]

\* The slot after its processor settled.
FreedKeepingJob(r) == [r EXCEPT !.pc = "idle"]
Freed(r) == Idle

(***************************************************************************)
(* createJob: one row with its "Job queued" message, then the queue entry. *)
(***************************************************************************)
CreateRow(j) ==
  /\ post[j] = "unborn"
  /\ post' = [post EXCEPT ![j] = "row"]
  /\ row' = [row EXCEPT ![j] = [status |-> "QUEUED", attempts |-> 0, logs |-> {"queued"}]]
  /\ UNCHANGED <<entry, run, cancel, announced, starts, faults>>

Enqueue(j) ==
  /\ post[j] = "row"
  /\ post' = [post EXCEPT ![j] = "posted"]
  /\ entry' = [entry EXCEPT ![j] = Add(@)]
  /\ UNCHANGED <<row, run, cancel, announced, starts, faults>>

\* The queue's add rejects, or the API process dies: the row stays, and the
\* entry may or may not have reached Redis.
AbortPost(j) ==
  /\ post[j] = "row"
  /\ faults.api < MaxApiFaults
  /\ faults' = [faults EXCEPT !.api = @ + 1]
  /\ post' = [post EXCEPT ![j] = "aborted"]
  /\ entry' \in {entry, [entry EXCEPT ![j] = Add(@)]}
  /\ UNCHANGED <<row, run, cancel, announced, starts>>

(***************************************************************************)
(* cancelJob: read the row, look the entry up, remove it, write the row.   *)
(***************************************************************************)
CancelRead(c, j) ==
  /\ cancel[c].pc = "idle"
  /\ IF post[j] = "row"
       THEN /\ faults.early < MaxEarlyCancels
            /\ faults' = [faults EXCEPT !.early = @ + 1]
       ELSE UNCHANGED faults
  /\ cancel' = [cancel EXCEPT ![c] =
       [job |-> j,
        pc  |-> IF post[j] = "unborn" THEN "notFound"
                ELSE IF Cancellable(j) THEN "lookup" ELSE "conflict"]]
  /\ UNCHANGED <<post, row, entry, run, announced, starts>>

\* queue.getJob(id); an undefined entry skips remove().
AlwaysUpdate(e) == "update"
AfterLookup(e) == IF e.st = "absent" THEN "update" ELSE "remove"

CancelLookup(c) ==
  /\ cancel[c].pc = "lookup"
  /\ cancel' = [cancel EXCEPT ![c].pc = AfterLookup(entry[cancel[c].job])]
  /\ UNCHANGED <<post, row, entry, run, announced, starts, faults>>

CancelRemove(c) ==
  /\ cancel[c].pc = "remove"
  /\ IF Removable(entry[cancel[c].job])
       THEN /\ entry' = [entry EXCEPT ![cancel[c].job] = Absent]
            /\ cancel' = [cancel EXCEPT ![c].pc = "update"]
       ELSE /\ cancel' = [cancel EXCEPT ![c].pc = "error"]
            /\ UNCHANGED entry
  /\ UNCHANGED <<post, row, run, announced, starts, faults>>

CancelUpdate(c) ==
  /\ cancel[c].pc = "update"
  /\ row' = [row EXCEPT ![cancel[c].job].status = "CANCELLED",
                        ![cancel[c].job].logs = @ \cup {"cancelled"}]
  /\ cancel' = [cancel EXCEPT ![c].pc = "ok"]
  /\ UNCHANGED <<post, entry, run, announced, starts, faults>>

\* A Redis or database call rejects, or the API process dies.
CancelAbort(c) ==
  /\ cancel[c].pc \in {"lookup", "remove", "update"}
  /\ faults.api < MaxApiFaults
  /\ faults' = [faults EXCEPT !.api = @ + 1]
  /\ cancel' = [cancel EXCEPT ![c].pc = "error"]
  /\ UNCHANGED <<post, row, entry, run, announced, starts>>

(***************************************************************************)
(* The job processor of workers/index.ts.                                  *)
(***************************************************************************)
TakeJob(s, j) ==
  /\ run[s].pc = "idle"
  /\ entry[j].st = "waiting"
  /\ entry' = [entry EXCEPT ![j] = Take(@, s)]
  /\ run' = [run EXCEPT ![s] = [pc |-> "markRunning", job |-> j, exhausted |-> FALSE]]
  /\ starts' = [starts EXCEPT ![j] = @ + 1]
  /\ UNCHANGED <<post, row, cancel, announced, faults>>

\* The awaited write commits and the processor goes on.
Resolve(s, next, write) ==
  /\ run' = [run EXCEPT ![s].pc = next]
  /\ row' = write
  /\ UNCHANGED faults

\* The awaited write rejects, whether or not it committed: the steps of the
\* try block go to the catch block, those of the catch block leave it.
Reject(s, write) ==
  /\ faults.db < MaxDbErrors
  /\ faults' = [faults EXCEPT !.db = @ + 1]
  /\ run' = [run EXCEPT ![s].pc = IF @ \in TrySteps THEN "count" ELSE "nack"]
  /\ row' \in {row, write}

Await(s, step, next, write) ==
  /\ run[s].pc = step
  /\ Resolve(s, next, write) \/ Reject(s, write)
  /\ UNCHANGED <<post, entry, cancel, announced, starts>>

MarkRunning(s) ==
  Await(s, "markRunning", "logStarted", updateJobStatus(run[s].job, "RUNNING"))

LogStarted(s) ==
  Await(s, "logStarted", "handle", addJobLog(run[s].job, "started"))

\* The handler of the job's type resolves or throws.
Handle(s) ==
  /\ run[s].pc = "handle"
  /\ \E next \in {"markSucceeded", "count"} : run' = [run EXCEPT ![s].pc = next]
  /\ UNCHANGED <<post, row, entry, cancel, announced, starts, faults>>

MarkSucceeded(s) ==
  Await(s, "markSucceeded", "logCompleted", updateJobStatus(run[s].job, "SUCCEEDED"))

LogCompleted(s) ==
  Await(s, "logCompleted", "announceDone", addJobLog(run[s].job, "completed"))

\* dispatchEvent fans out to every webhook and may reject half way.
Announce(s, step, next, event) ==
  /\ run[s].pc = step
  /\ \/ /\ Resolve(s, next, row)
        /\ announced' = dispatchEvent(run[s].job, event)
     \/ /\ Reject(s, row)
        /\ announced' \in {announced, dispatchEvent(run[s].job, event)}
  /\ UNCHANGED <<post, entry, cancel, starts>>

AnnounceDone(s) == Announce(s, "announceDone", "ack", "completed")

\* The catch block starts with incrementAttempts, which returns the row.
Count(s) ==
  LET j == run[s].job IN
  /\ run[s].pc = "count"
  /\ \/ /\ row' = incrementAttempts(j)
        /\ run' = [run EXCEPT ![s] =
             [pc |-> "logFailed", job |-> j,
              exhausted |-> Exhausted(j, row'[j].attempts)]]
        /\ UNCHANGED faults
     \/ Reject(s, incrementAttempts(j))
  /\ UNCHANGED <<post, entry, cancel, announced, starts>>

LogFailed(s) ==
  Await(s, "logFailed", IF run[s].exhausted THEN "markFailed" ELSE "nack",
        addJobLog(run[s].job, "failed"))

MarkFailed(s) ==
  Await(s, "markFailed", "logExhausted", updateJobStatus(run[s].job, "FAILED"))

LogExhausted(s) ==
  Await(s, "logExhausted", "announceFailed", addJobLog(run[s].job, "exhausted"))

AnnounceFailed(s) == Announce(s, "announceFailed", "nack", "failed")

\* BullMQ records the outcome only for the slot that still holds the lock.
Ack(s) ==
  LET j == run[s].job IN
  /\ run[s].pc = "ack"
  /\ entry' = IF entry[j].holder = s THEN [entry EXCEPT ![j] = Complete(@)] ELSE entry
  /\ run' = [run EXCEPT ![s] = Freed(@)]
  /\ UNCHANGED <<post, row, cancel, announced, starts, faults>>

NackSwallowed(s) ==
  LET j == run[s].job IN
  /\ run[s].pc = "nack"
  /\ entry' = IF entry[j].holder = s THEN [entry EXCEPT ![j] = Complete(@)] ELSE entry
  /\ run' = [run EXCEPT ![s] = Freed(@)]
  /\ UNCHANGED <<post, row, cancel, announced, starts, faults>>

\* The catch block rethrows; a handler that swallowed the error would ack.
Nack(s) ==
  LET j == run[s].job IN
  /\ run[s].pc = "nack"
  /\ entry' = IF entry[j].holder = s
                THEN [entry EXCEPT ![j] = Fail(@, attemptsOption(j))] ELSE entry
  /\ run' = [run EXCEPT ![s] = Freed(@)]
  /\ UNCHANGED <<post, row, cancel, announced, starts, faults>>

(***************************************************************************)
(* Faults, and the queue's own timers.                                     *)
(***************************************************************************)
\* A worker process dies and restarts; nothing in src/ drains it first.
Crash(p) ==
  /\ faults.crash < MaxCrashes
  /\ faults' = [faults EXCEPT !.crash = @ + 1]
  /\ run' = [s \in Slots |-> IF ProcOf[s] = p THEN Idle ELSE run[s]]
  /\ entry' = [j \in Jobs |->
       IF entry[j].holder \in {s \in Slots : ProcOf[s] = p}
         THEN [entry[j] EXCEPT !.holder = Orphan] ELSE entry[j]]
  /\ UNCHANGED <<post, row, cancel, announced, starts>>

\* A live slot does not renew its lock in time.
LoseLock(j) ==
  /\ entry[j].holder \in Slots
  /\ faults.lock < MaxLockLosses
  /\ faults' = [faults EXCEPT !.lock = @ + 1]
  /\ entry' = [entry EXCEPT ![j] = ReleaseLock(@)]
  /\ UNCHANGED <<post, row, run, cancel, announced, starts>>

QueueStep(j, new) ==
  /\ entry' = [entry EXCEPT ![j] = new]
  /\ UNCHANGED <<post, row, run, cancel, announced, starts, faults>>

ExpireLock(j) == entry[j].holder = Orphan /\ QueueStep(j, ReleaseLock(entry[j]))

StalledCheck(j) ==
  entry[j].st = "active" /\ entry[j].holder = NoLock /\ QueueStep(j, Stall(entry[j]))

EndBackoff(j) == entry[j].st = "delayed" /\ QueueStep(j, Promote(entry[j]))

\* removeOnComplete and removeOnFail keep the last 100 and 500 entries.
Trim(j) == Finished(entry[j]) /\ QueueStep(j, Absent)

-----------------------------------------------------------------------------
ApiStep(j) == Enqueue(j) \/ AbortPost(j)

CancelNext(c) == CancelLookup(c) \/ CancelRemove(c) \/ CancelUpdate(c)

Process(s) ==
  \/ MarkRunning(s) \/ LogStarted(s) \/ Handle(s)
  \/ MarkSucceeded(s) \/ LogCompleted(s) \/ AnnounceDone(s)
  \/ Count(s) \/ LogFailed(s) \/ MarkFailed(s) \/ LogExhausted(s) \/ AnnounceFailed(s)
  \/ Ack(s) \/ Nack(s)

QueueTimer(j) == ExpireLock(j) \/ StalledCheck(j) \/ EndBackoff(j)

Next ==
  \/ \E j \in Jobs : CreateRow(j) \/ ApiStep(j)
  \/ \E c \in Cancels : CancelNext(c) \/ CancelAbort(c) \/ \E j \in Jobs : CancelRead(c, j)
  \/ \E s \in Slots : Process(s) \/ \E j \in Jobs : TakeJob(s, j)
  \/ \E p \in Procs : Crash(p)
  \/ \E j \in Jobs : LoseLock(j) \/ QueueTimer(j) \/ Trim(j)

Spec == Init /\ [][Next]_vars

\* Node's event loop keeps running what was started, BullMQ keeps handing out
\* waiting entries and its timers fire.  Clients and faults owe nothing.
Fairness ==
  /\ \A j \in Jobs : WF_vars(ApiStep(j)) /\ WF_vars(QueueTimer(j))
  /\ \A j \in Jobs : WF_vars(\E s \in Slots : TakeJob(s, j))
  /\ \A c \in Cancels : WF_vars(CancelNext(c))
  /\ \A s \in Slots : WF_vars(Process(s))

FairSpec == Spec /\ Fairness

-----------------------------------------------------------------------------
(***************************************************************************)
(* Properties.                                                             *)
(***************************************************************************)
\* Every variable has its type; an idle slot holds no job, a busy one holds
\* one, and a cancel request names a job exactly when it was sent.
TypeOK ==
  /\ post \in [Jobs -> {"unborn", "row", "posted", "aborted"}]
  /\ row \in [Jobs -> Row]
  /\ entry \in [Jobs -> Entry]
  /\ run \in [Slots -> Run]
  /\ \A s \in Slots : run[s].pc = "idle" <=> run[s].job = NoJob
  /\ cancel \in [Cancels -> [pc : CancelStep, job : Jobs \cup {NoJob}]]
  /\ \A c \in Cancels : cancel[c].pc = "idle" <=> cancel[c].job = NoJob
  /\ announced \in [Jobs -> [completed : Nat, failed : Nat]]
  /\ starts \in [Jobs -> Nat]
  /\ faults \in Faults

Working(j) == \E s \in Slots : run[s].job = j

Cancelling(j) ==
  \E c \in Cancels : cancel[c].job = j /\ cancel[c].pc \in {"lookup", "remove", "update"}

Published(j) == post[j] \in {"posted", "aborted"}

Settled(j) ==
  /\ Published(j)
  /\ Finished(entry[j]) \/ entry[j].st = "absent"
  /\ ~ Working(j)
  /\ ~ Cancelling(j)

\* The queue invokes the processor for a job at most maxAttempts times plus
\* once per tolerated stall, whatever crashes, lost locks, database errors
\* and cancellations do to it: the bound on a handler's side effects.
BoundedExecutions ==
  \A j \in Jobs : starts[j] <= MaxAttempts[j] + MaxStalledCount

\* What makes BoundedExecutions inductive: the entry's own counters account
\* for every invocation, and an entry that can still be taken has some left.
CountersAccount ==
  \A j \in Jobs :
    /\ post[j] \in {"unborn", "row"} => entry[j] = Absent /\ starts[j] = 0
    /\ entry[j].holder # NoLock => entry[j].st = "active"
    /\ entry[j].st # "absent" =>
         starts[j] = entry[j].made + entry[j].stalls
                     + (IF entry[j].st = "active" THEN 1 ELSE 0)
    /\ entry[j].st \in {"waiting", "active", "delayed"} =>
         entry[j].made < MaxAttempts[j] /\ entry[j].stalls <= MaxStalledCount

\* No live slot has lost its lock, and no client has cancelled a job before its
\* POST was over.
Undisturbed == faults.lock = 0 /\ faults.early = 0

\* A job whose cancellation was written never leaves CANCELLED: cancelJob's
\* unconditional update and the processor's unconditional updates do not
\* overtake each other, because remove() rejects for a locked entry.
CancelledIsFinal ==
  [][\A j \in Jobs :
       Undisturbed /\ row[j].status = "CANCELLED" => row'[j].status = "CANCELLED"]_vars

\* README: DELETE cancels a queued job, so its processor is not invoked after.
CancelledNeverStarts ==
  [][\A j \in Jobs :
       Undisturbed /\ row[j].status = "CANCELLED" => starts'[j] = starts[j]]_vars

\* What both rest on.  A slot at work holds the lock of its active entry; a
\* request is accepted only for a job whose POST is over; and a job whose
\* cancellation is past remove() has no entry to be taken.
WorkersHoldLocks ==
  \A s \in Slots : run[s].pc # "idle" =>
    entry[run[s].job].st = "active" /\ entry[run[s].job].holder = s

CancelsFollowPosts ==
  \A c \in Cancels : cancel[c].pc \notin {"idle", "notFound"} => Published(cancel[c].job)

PastRemove(j) ==
  \/ row[j].status = "CANCELLED"
  \/ \E c \in Cancels : cancel[c].pc = "update" /\ cancel[c].job = j

CancelledLeavesQueue ==
  \A j \in Jobs : PastRemove(j) => entry[j].st = "absent" /\ Published(j)

Protected == WorkersHoldLocks /\ CancelsFollowPosts /\ CancelledLeavesQueue

LockProtects == Undisturbed => Protected

\* The two half-done requests that nobody repairs: a row whose entry never
\* came, and an entry that was removed for a cancellation that was not written.
NeverQueued(j) == post[j] = "aborted" /\ starts[j] = 0 /\ row[j].status = "QUEUED"

HalfCancelled(j) ==
  /\ row[j].status # "CANCELLED"
  /\ entry[j].st = "absent"
  /\ \E c \in Cancels : cancel[c] = [pc |-> "error", job |-> j]

\* Row, log and queue tell one story: the status is terminal, the log holds
\* the message of that verdict, and an entry BullMQ still keeps as completed
\* (failed) belongs to a SUCCEEDED (FAILED) row.
Agreed(j) ==
  /\ row[j].status \in Terminal
  /\ row[j].status = "SUCCEEDED" => "completed" \in row[j].logs
  /\ row[j].status = "FAILED" => {"failed", "exhausted"} \subseteq row[j].logs
  /\ row[j].status = "CANCELLED" => "cancelled" \in row[j].logs
  /\ entry[j].st = "completed" => row[j].status = "SUCCEEDED"
  /\ entry[j].st = "failed" => row[j].status = "FAILED"

\* Once nothing works on a job any more, its stores agree on how it ended, or
\* one of the half-done requests is why it did not.  It takes a rejected write
\* of the worker, a lost lock, or one crash more than BullMQ tolerates, to
\* leave a job in any other state.
SettledAgreement ==
  Undisturbed /\ faults.db = 0 /\ faults.crash <= MaxStalledCount =>
    \A j \in Jobs : Settled(j) => Agreed(j) \/ NeverQueued(j) \/ HalfCancelled(j)

\* Every job whose POST was answered comes to rest in a terminal status.
EventuallySettles ==
  \A j \in Jobs : post[j] = "posted" ~> Settled(j) /\ row[j].status \in Terminal

-----------------------------------------------------------------------------
(***************************************************************************)
(* What a test says and the code does not keep.                            *)
(***************************************************************************)
\* tests/jobs.test.ts: a job that has ended cannot be cancelled any more.
EndedNotCancelled ==
  [][\A j \in Jobs : row[j].status \in {"SUCCEEDED", "FAILED"} => row'[j].status # "CANCELLED"]_vars

-----------------------------------------------------------------------------
(***************************************************************************)
(* The refinement of JobContract.                                          *)
(***************************************************************************)
statusBar == [j \in Jobs |-> row[j].status]
triesBar == [j \in Jobs |-> row[j].attempts]
acceptedBar == [c \in Cancels |->
  IF cancel[c].pc \in {"lookup", "remove", "update"} THEN cancel[c].job ELSE NoJob]

Contract == INSTANCE JobContract
  WITH status <- statusBar, runs <- starts, tries <- triesBar, told <- announced,
       accepted <- acceptedBar, lost <- faults.crash

\* The API, the worker and the queue together keep the lifecycle promised to
\* clients, crashes of worker processes included: no status is skipped or taken
\* back without a crash, the handler does not run more often than its attempts
\* and the crashes allow, no attempt is counted that was not made, subscribers
\* are told one verdict, and only an accepted request cancels.
ImplementsContract == Contract!Spec
=============================================================================
