------------------------- MODULE JobLifecycleProofs -------------------------
(***************************************************************************)
(* Theorems of JobLifecycle, and of JobFeed, which extends it, for every   *)
(* set of jobs, slots, cancel requests and viewers and for every fault     *)
(* budget.                                                                 *)
(***************************************************************************)
EXTENDS JobFeed, TLAPS

-----------------------------------------------------------------------------
\* Every operation of the queue returns an entry.
LEMMA EntryOperations ==
  ASSUME NEW e \in Entry
  PROVE  /\ Absent \in Entry
         /\ Add(e) \in Entry
         /\ \A s \in Slots : Take(e, s) \in Entry
         /\ Complete(e) \in Entry
         /\ \A n \in Nat : Fail(e, n) \in Entry
         /\ Promote(e) \in Entry
         /\ ReleaseLock(e) \in Entry
         /\ Stall(e) \in Entry
         /\ [e EXCEPT !.holder = Orphan] \in Entry
<1> USE DEF Entry, EntryState
<1>1. Absent \in Entry /\ Add(e) \in Entry
  BY DEF Absent, Add
<1>2. \A s \in Slots : Take(e, s) \in Entry
  BY DEF Take
<1>3. Complete(e) \in Entry
  BY DEF Complete
<1>4. \A n \in Nat : Fail(e, n) \in Entry
  BY DEF Fail
<1>5. Promote(e) \in Entry /\ ReleaseLock(e) \in Entry
  BY DEF Promote, ReleaseLock
<1>6. Stall(e) \in Entry
  BY DEF Stall
<1>7. [e EXCEPT !.holder = Orphan] \in Entry
  OBVIOUS
<1> QED
  BY <1>1, <1>2, <1>3, <1>4, <1>5, <1>6, <1>7

\* The writes of the processor and of cancelJob keep rows well formed.
LEMMA RowWrites ==
  ASSUME row \in [Jobs -> Row], NEW j \in Jobs
  PROVE  /\ \A status \in JobStatus : updateJobStatus(j, status) \in [Jobs -> Row]
         /\ \A message \in LogMessage : addJobLog(j, message) \in [Jobs -> Row]
         /\ incrementAttempts(j) \in [Jobs -> Row]
BY DEF updateJobStatus, addJobLog, incrementAttempts, Row

\* A busy slot works on a job.
LEMMA BusySlot ==
  ASSUME TypeOK, NEW s \in Slots, run[s].pc # "idle"
  PROVE  run[s].job \in Jobs /\ run[s].job # NoJob
BY NoJobAssumption DEF TypeOK, Run

LEMMA TypeInit == Init => TypeOK
BY LockAssumption, NoJobAssumption
   DEF LockAssumption, NoJobAssumption, Init, TypeOK, Faults, Row, NoRow, JobStatus, Terminal, LogMessage, Entry, EntryState, Absent,
       Run, Idle, RunStep, TrySteps, CatchSteps, CancelStep

\* Counting a fault keeps the counters natural numbers.
LEMMA FaultCounters ==
  ASSUME faults \in Faults
  PROVE  /\ [faults EXCEPT !.crash = @ + 1] \in Faults
         /\ [faults EXCEPT !.db = @ + 1] \in Faults
         /\ [faults EXCEPT !.lock = @ + 1] \in Faults
         /\ [faults EXCEPT !.api = @ + 1] \in Faults
         /\ [faults EXCEPT !.early = @ + 1] \in Faults
<1>1. [faults EXCEPT !.crash = @ + 1] \in Faults
  BY DEF Faults
<1>2. [faults EXCEPT !.db = @ + 1] \in Faults
  BY DEF Faults
<1>3. [faults EXCEPT !.lock = @ + 1] \in Faults
  BY DEF Faults
<1>4. [faults EXCEPT !.api = @ + 1] \in Faults
  BY DEF Faults
<1>5. [faults EXCEPT !.early = @ + 1] \in Faults
  BY DEF Faults
<1> QED
  BY <1>1, <1>2, <1>3, <1>4, <1>5

RunType(r) == r \in [Slots -> Run] /\ \A t \in Slots : r[t].pc = "idle" <=> r[t].job = NoJob

\* A busy slot that moves on to another step keeps its job.
LEMMA SlotStep ==
  ASSUME TypeOK, NEW s \in Slots, run[s].pc # "idle", NEW p \in RunStep \ {"idle"},
         run' = [run EXCEPT ![s].pc = p]
  PROVE  RunType(run')
BY DEF RunType, TypeOK, Run

\* An awaited write of the processor leaves a well-formed slot and row behind.
LEMMA AwaitType ==
  ASSUME TypeOK, NEW s \in Slots, run[s].pc \in TrySteps \cup CatchSteps,
         NEW next \in RunStep \ {"idle"}, NEW write \in [Jobs -> Row],
         Resolve(s, next, write) \/ Reject(s, write)
  PROVE  /\ faults' \in Faults
         /\ row' \in [Jobs -> Row]
         /\ RunType(run')
<1>1. faults' \in Faults
  BY FaultCounters DEF TypeOK, Resolve, Reject
<1>2. row' \in [Jobs -> Row]
  BY DEF TypeOK, Resolve, Reject
<1>3. PICK p \in RunStep \ {"idle"} : run' = [run EXCEPT ![s].pc = p]
  BY DEF Resolve, Reject, RunStep, TrySteps, CatchSteps
<1>4. run[s].pc # "idle"
  BY DEF TrySteps, CatchSteps
<1> QED
  BY <1>1, <1>2, <1>3, <1>4, SlotStep

-----------------------------------------------------------------------------
\* Each group of actions preserves TypeOK.
LEMMA TypeApi ==
  ASSUME TypeOK, NEW j \in Jobs, CreateRow(j) \/ Enqueue(j) \/ AbortPost(j)
  PROVE  TypeOK'
<1>1. CASE CreateRow(j)
  BY <1>1 DEF TypeOK, CreateRow, Row, JobStatus, LogMessage
<1>2. CASE Enqueue(j)
  BY <1>2, EntryOperations DEF TypeOK, Enqueue
<1>3. CASE AbortPost(j)
  <2>1. entry' \in [Jobs -> Entry]
    <3>1. Add(entry[j]) \in Entry /\ entry \in [Jobs -> Entry]
      BY EntryOperations DEF TypeOK
    <3>2. [entry EXCEPT ![j] = Add(entry[j])] \in [Jobs -> Entry]
      BY <3>1
    <3> QED
      BY <1>3, <3>1, <3>2 DEF AbortPost
  <2>2. faults' \in Faults
    BY <1>3, FaultCounters DEF TypeOK, AbortPost
  <2> QED
    BY <1>3, <2>1, <2>2 DEF TypeOK, AbortPost
<1> QED
  BY <1>1, <1>2, <1>3

CancelType(q) ==
  /\ q \in [Cancels -> [pc : CancelStep, job : Jobs \cup {NoJob}]]
  /\ \A c \in Cancels : q[c].pc = "idle" <=> q[c].job = NoJob

\* An accepted request that moves on keeps its job.
LEMMA CancelMoves ==
  ASSUME TypeOK, NEW c \in Cancels, cancel[c].pc # "idle", NEW p \in CancelStep \ {"idle"},
         cancel' = [cancel EXCEPT ![c].pc = p]
  PROVE  cancel[c].job \in Jobs /\ CancelType(cancel')
BY DEF CancelType, TypeOK

LEMMA TypeCancel ==
  ASSUME TypeOK, NEW c \in Cancels,
         CancelNext(c) \/ CancelAbort(c) \/ \E j \in Jobs : CancelRead(c, j)
  PROVE  TypeOK'
<1>1. ASSUME NEW j \in Jobs, CancelRead(c, j) PROVE TypeOK'
  <2>1. faults' \in Faults
    BY <1>1, FaultCounters DEF TypeOK, CancelRead
  <2>2. CancelType(cancel')
    BY <1>1, NoJobAssumption DEF NoJobAssumption, TypeOK, CancelStep, CancelRead, CancelType
  <2> QED
    BY <1>1, <2>1, <2>2 DEF TypeOK, CancelRead, CancelType
<1>2. CASE CancelLookup(c)
  <2>1. CancelType(cancel')
    BY <1>2, CancelMoves DEF CancelLookup, AfterLookup, CancelStep
  <2> QED
    BY <1>2, <2>1 DEF CancelLookup, TypeOK, CancelType
<1>3. CASE CancelRemove(c)
  <2>1. cancel[c].job \in Jobs /\ CancelType(cancel')
    BY <1>3, CancelMoves DEF CancelRemove, CancelStep
  <2>2. entry' \in [Jobs -> Entry]
    BY <1>3, <2>1, EntryOperations DEF CancelRemove, TypeOK
  <2> QED
    BY <1>3, <2>1, <2>2 DEF CancelRemove, TypeOK, CancelType
<1>4. CASE CancelUpdate(c)
  <2>1. cancel[c].job \in Jobs /\ CancelType(cancel')
    BY <1>4, CancelMoves DEF CancelUpdate, CancelStep
  <2> DEFINE j == cancel[c].job
  <2>2. row[j] \in Row
    BY <2>1 DEF TypeOK
  <2>3. [row[j] EXCEPT !.status = "CANCELLED", !.logs = @ \cup {"cancelled"}] \in Row
    BY <2>2 DEF Row, JobStatus, Terminal, LogMessage
  <2>4. row' = [row EXCEPT ![j] = [row[j] EXCEPT !.status = "CANCELLED", !.logs = @ \cup {"cancelled"}]]
    BY <1>4, <2>1 DEF CancelUpdate, TypeOK
  <2>5. row' \in [Jobs -> Row]
    BY <2>1, <2>3, <2>4 DEF TypeOK
  <2> QED
    BY <1>4, <2>1, <2>5 DEF CancelUpdate, TypeOK, CancelType
<1>5. CASE CancelAbort(c)
  <2>1. CancelType(cancel')
    BY <1>5, CancelMoves DEF CancelAbort, CancelStep
  <2>2. faults' \in Faults
    BY <1>5, FaultCounters DEF TypeOK, CancelAbort
  <2> QED
    BY <1>5, <2>1, <2>2 DEF CancelAbort, TypeOK, CancelType
<1> QED
  BY <1>1, <1>2, <1>3, <1>4, <1>5 DEF CancelNext

LEMMA TypeTake ==
  ASSUME TypeOK, NEW s \in Slots, NEW j \in Jobs, TakeJob(s, j)
  PROVE  TypeOK'
<1>1. entry' \in [Jobs -> Entry]
  BY EntryOperations DEF TypeOK, TakeJob
<1>2. RunType(run')
  BY NoJobAssumption DEF NoJobAssumption, RunType, TypeOK, TakeJob, Run, RunStep, TrySteps
<1>3. starts' \in [Jobs -> Nat]
  BY DEF TypeOK, TakeJob
<1> QED
  BY <1>1, <1>2, <1>3 DEF TypeOK, TakeJob, RunType

\* dispatchEvent counts one announcement.
LEMMA AnnounceType ==
  ASSUME TypeOK, NEW s \in Slots, NEW step \in TrySteps \cup CatchSteps,
         NEW next \in RunStep \ {"idle"}, NEW event \in {"completed", "failed"},
         Announce(s, step, next, event)
  PROVE  TypeOK'
<1>0. run[s].pc # "idle" /\ run[s].job \in Jobs
  BY BusySlot DEF Announce, TrySteps, CatchSteps
<1> DEFINE j == run[s].job
           n == announced[j]
<1>1. dispatchEvent(j, event) \in [Jobs -> [completed : Nat, failed : Nat]]
  <2>1. n \in [completed : Nat, failed : Nat]
    BY <1>0 DEF TypeOK
  <2>2. [n EXCEPT ![event] = @ + 1] \in [completed : Nat, failed : Nat]
    <3>1. CASE event = "completed"
      BY <2>1, <3>1
    <3>2. CASE event = "failed"
      BY <2>1, <3>2
    <3> QED
      BY <3>1, <3>2
  <2>3. dispatchEvent(j, event) = [announced EXCEPT ![j] = [n EXCEPT ![event] = @ + 1]]
    BY <1>0 DEF dispatchEvent, TypeOK
  <2> QED
    BY <1>0, <2>2, <2>3 DEF TypeOK
<1>2. announced' \in [Jobs -> [completed : Nat, failed : Nat]]
  BY <1>1 DEF Announce, TypeOK
<1>3. /\ faults' \in Faults
      /\ row' \in [Jobs -> Row]
      /\ RunType(run')
  BY AwaitType DEF Announce, TypeOK
<1> QED
  BY <1>2, <1>3 DEF Announce, TypeOK, RunType

LEMMA TypeProcess ==
  ASSUME TypeOK, NEW s \in Slots, Process(s)
  PROVE  TypeOK'
<1> DEFINE j == run[s].job
<1>0. run[s].pc # "idle" => j \in Jobs
  BY BusySlot
<1> USE DEF TrySteps, CatchSteps, RunStep, JobStatus, Terminal, LogMessage
<1>1. CASE MarkRunning(s)
  BY <1>0, <1>1, RowWrites, AwaitType DEF MarkRunning, TypeOK, Await, RunType
<1>2. CASE LogStarted(s)
  BY <1>0, <1>2, RowWrites, AwaitType
     DEF LogStarted, TypeOK, Await, RunType
<1>3. CASE Handle(s)
  <2>1. RunType(run')
    BY <1>3, SlotStep DEF Handle
  <2> QED
    BY <1>3, <2>1 DEF Handle, TypeOK, RunType
<1>4. CASE MarkSucceeded(s)
  BY <1>0, <1>4, RowWrites, AwaitType DEF MarkSucceeded, TypeOK, Await, RunType
<1>5. CASE LogCompleted(s)
  BY <1>0, <1>5, RowWrites, AwaitType
     DEF LogCompleted, TypeOK, Await, RunType
<1>6. CASE AnnounceDone(s)
  BY <1>6, AnnounceType DEF AnnounceDone
<1>7. CASE Count(s)
  <2>0. run[s].pc = "count" /\ incrementAttempts(j) \in [Jobs -> Row]
    BY <1>0, <1>7, RowWrites DEF Count, TypeOK
  <2>1. CASE Reject(s, incrementAttempts(j))
    BY <1>7, <2>0, <2>1, AwaitType DEF Count, TypeOK, RunType
  <2>2. CASE ~ Reject(s, incrementAttempts(j))
    <3>1. PICK b \in BOOLEAN :
            run' = [run EXCEPT ![s] = [pc |-> "logFailed", job |-> j, exhausted |-> b]]
      <4> DEFINE x == Exhausted(j, row'[j].attempts)
      <4>1. x \in BOOLEAN
        BY DEF Exhausted
      <4>2. run' = [run EXCEPT ![s] = [pc |-> "logFailed", job |-> j, exhausted |-> x]]
        BY <1>7, <2>2, Zenon DEF Count
      <4> HIDE DEF x
      <4> QED
        BY <4>1, <4>2
    <3>2. RunType(run')
      BY <1>0, <2>0, <3>1, NoJobAssumption DEF NoJobAssumption, TypeOK, Run, RunType
    <3> QED
      BY <1>7, <2>0, <2>2, <3>2 DEF Count, TypeOK, RunType
  <2> QED
    BY <2>1, <2>2
<1>8. CASE LogFailed(s)
  BY <1>0, <1>8, RowWrites, AwaitType DEF LogFailed, TypeOK, Await, RunType
<1>9. CASE MarkFailed(s)
  BY <1>0, <1>9, RowWrites, AwaitType DEF MarkFailed, TypeOK, Await, RunType
<1>10. CASE LogExhausted(s)
  BY <1>0, <1>10, RowWrites, AwaitType
     DEF LogExhausted, TypeOK, Await, RunType
<1>11. CASE AnnounceFailed(s)
  BY <1>11, AnnounceType DEF AnnounceFailed
<1>12. CASE Ack(s)
  <2>1. entry' \in [Jobs -> Entry]
    BY <1>0, <1>12, EntryOperations DEF Ack, TypeOK
  <2> QED
    BY <1>12, <2>1 DEF Ack, Freed, Idle, TypeOK, Run
<1>13. CASE Nack(s)
  <2>0. j \in Jobs /\ attemptsOption(j) \in Nat
    BY <1>0, <1>13, AttemptsAssumption DEF AttemptsAssumption, attemptsOption, Nack
  <2>1. entry' \in [Jobs -> Entry]
    BY <1>13, <2>0, EntryOperations DEF Nack, TypeOK
  <2> QED
    BY <1>13, <2>1 DEF Nack, Freed, Idle, TypeOK, Run
<1> QED
  BY <1>1, <1>2, <1>3, <1>4, <1>5, <1>6, <1>7, <1>8, <1>9, <1>10, <1>11, <1>12, <1>13 DEF Process

LEMMA TypeQueue ==
  ASSUME TypeOK, NEW j \in Jobs, LoseLock(j) \/ QueueTimer(j) \/ Trim(j)
  PROVE  TypeOK'
<1>1. CASE LoseLock(j)
  <2>1. entry' \in [Jobs -> Entry] /\ faults' \in Faults
    BY <1>1, EntryOperations, FaultCounters DEF TypeOK, LoseLock
  <2> QED
    BY <1>1, <2>1 DEF TypeOK, LoseLock
<1>2. CASE QueueTimer(j) \/ Trim(j)
  <2>1. PICK e \in Entry : QueueStep(j, e)
    BY <1>2, EntryOperations
       DEF TypeOK, QueueTimer, ExpireLock, StalledCheck, EndBackoff, Trim
  <2> QED
    BY <2>1 DEF TypeOK, QueueStep
<1> QED
  BY <1>1, <1>2

LEMMA TypeCrash ==
  ASSUME TypeOK, NEW p \in Procs, Crash(p)
  PROVE  TypeOK'
<1>1. entry' \in [Jobs -> Entry]
  BY EntryOperations DEF TypeOK, Crash
<1>2. RunType(run')
  BY NoJobAssumption DEF TypeOK, Crash, Idle, Run, RunStep, RunType
<1>3. faults' \in Faults
  BY FaultCounters DEF TypeOK, Crash
<1> QED
  BY <1>1, <1>2, <1>3 DEF TypeOK, Crash, RunType

\* Type correctness, under every interleaving and every number of faults.
THEOREM TypeCorrect == Spec => []TypeOK
<1>1. TypeOK /\ [Next]_vars => TypeOK'
  <2> SUFFICES ASSUME TypeOK, [Next]_vars PROVE TypeOK'
    OBVIOUS
  <2>1. CASE UNCHANGED vars
    BY <2>1 DEF vars, TypeOK
  <2>2. CASE Next
    BY <2>2, TypeApi, TypeCancel, TypeTake, TypeProcess, TypeQueue, TypeCrash
       DEF Next, ApiStep
  <2> QED
    BY <2>1, <2>2
<1> QED
  BY TypeInit, <1>1, PTL DEF Spec
-----------------------------------------------------------------------------
(***************************************************************************)
(* The bound on executions.  Accounts states CountersAccount and           *)
(* BoundedExecutions for one job: p is how far its POST has come, e its    *)
(* entry, n how often its processor was invoked and m its maxAttempts.     *)
(***************************************************************************)
Accounts(p, e, n, m) ==
  /\ p \in {"unborn", "row"} => e = Absent /\ n = 0
  /\ e.holder # NoLock => e.st = "active"
  /\ e.st # "absent" => n = e.made + e.stalls + (IF e.st = "active" THEN 1 ELSE 0)
  /\ e.st \in {"waiting", "active", "delayed"} => e.made < m /\ e.stalls <= MaxStalledCount
  /\ n <= m + MaxStalledCount

AccountsInv == \A j \in Jobs : Accounts(post[j], entry[j], starts[j], MaxAttempts[j])

LEMMA AccountsMeaning == AccountsInv <=> CountersAccount /\ BoundedExecutions
BY DEF AccountsInv, Accounts, CountersAccount, BoundedExecutions

\* Each operation of the queue keeps one job's account.
LEMMA AccountsOperations ==
  ASSUME NEW p, p \notin {"unborn", "row"}, NEW e \in Entry, NEW n \in Nat, NEW m \in 1..10,
         Accounts(p, e, n, m)
  PROVE  /\ Accounts(p, Absent, n, m)
         /\ \A s \in Slots : e.st = "waiting" => Accounts(p, Take(e, s), n + 1, m)
         /\ e.st = "active" => Accounts(p, Complete(e), n, m) /\ Accounts(p, Fail(e, m), n, m)
         /\ e.st = "delayed" => Accounts(p, Promote(e), n, m)
         /\ Accounts(p, ReleaseLock(e), n, m)
         /\ e.st = "active" /\ e.holder = NoLock => Accounts(p, Stall(e), n, m)
         /\ e.st = "active" => Accounts(p, [e EXCEPT !.holder = Orphan], n, m)
<1> USE StalledAssumption DEF StalledAssumption, Accounts, Entry, EntryState
<1>1. Accounts(p, Absent, n, m)
  BY DEF Absent
<1>2. ASSUME NEW s \in Slots, e.st = "waiting" PROVE Accounts(p, Take(e, s), n + 1, m)
  BY <1>2 DEF Take
<1>3. ASSUME e.st = "active" PROVE Accounts(p, Complete(e), n, m)
  BY <1>3 DEF Complete
<1>4. ASSUME e.st = "active" PROVE Accounts(p, Fail(e, m), n, m)
  BY <1>4 DEF Fail
<1>5. ASSUME e.st = "delayed" PROVE Accounts(p, Promote(e), n, m)
  BY <1>5 DEF Promote
<1>6. Accounts(p, ReleaseLock(e), n, m)
  BY DEF ReleaseLock
<1>7. ASSUME e.st = "active", e.holder = NoLock PROVE Accounts(p, Stall(e), n, m)
  BY <1>7 DEF Stall
<1>8. ASSUME e.st = "active" PROVE Accounts(p, [e EXCEPT !.holder = Orphan], n, m)
  BY <1>8
<1> QED
  BY <1>1, <1>2, <1>3, <1>4, <1>5, <1>6, <1>7, <1>8

\* The entry a job's POST adds has an empty account.
LEMMA AccountsAdd ==
  ASSUME NEW p, NEW m \in 1..10
  PROVE  Accounts(p, Absent, 0, m) /\ (p \notin {"unborn", "row"} => Accounts(p, Add(Absent), 0, m))
BY StalledAssumption DEF StalledAssumption, Accounts, Add, Absent

LEMMA AccountsStep ==
  ASSUME TypeOK, AccountsInv, Next
  PROVE  AccountsInv'
<1> SUFFICES ASSUME NEW i \in Jobs
             PROVE  Accounts(post'[i], entry'[i], starts'[i], MaxAttempts[i])
  BY DEF AccountsInv
<1> DEFINE m == MaxAttempts[i]
<1>0. /\ entry[i] \in Entry /\ starts[i] \in Nat /\ m \in 1..10
      /\ Accounts(post[i], entry[i], starts[i], m)
  BY AttemptsAssumption DEF AttemptsAssumption, TypeOK, AccountsInv
<1>a. post[i] \in {"unborn", "row"} => entry[i] = Absent /\ starts[i] = 0
  BY <1>0 DEF Accounts
<1>b. entry[i].holder # NoLock => entry[i].st = "active"
  BY <1>0 DEF Accounts
<1> HIDE DEF m
<1>1. ASSUME NEW j \in Jobs, CreateRow(j) \/ ApiStep(j)
      PROVE  Accounts(post'[i], entry'[i], starts'[i], m)
  <2>1. CASE CreateRow(j)
    BY <1>0, <1>a, <2>1, AccountsAdd DEF CreateRow, TypeOK
  <2>2. CASE Enqueue(j)
    BY <1>0, <1>a, <2>2, AccountsAdd DEF Enqueue, TypeOK
  <2>3. CASE AbortPost(j)
    BY <1>0, <1>a, <2>3, AccountsAdd DEF AbortPost, TypeOK
  <2> QED
    BY <1>1, <2>1, <2>2, <2>3 DEF ApiStep
<1>2. ASSUME post' = post, starts' = starts,
             \/ entry'[i] = entry[i]
             \/ entry'[i] = Absent
             \/ /\ entry[i].st = "active"
                /\ entry'[i] \in {Complete(entry[i]), Fail(entry[i], m),
                                  [entry[i] EXCEPT !.holder = Orphan]}
             \/ entry[i].st = "delayed" /\ entry'[i] = Promote(entry[i])
             \/ entry'[i] = ReleaseLock(entry[i]) /\ entry[i].st = "active"
             \/ /\ entry[i].st = "active" /\ entry[i].holder = NoLock
                /\ entry'[i] = Stall(entry[i])
      PROVE  Accounts(post'[i], entry'[i], starts'[i], m)
  <2>1. CASE post[i] \in {"unborn", "row"}
    BY <1>0, <1>a, <1>2, <2>1 DEF Absent
  <2>2. CASE post[i] \notin {"unborn", "row"}
    <3> DEFINE e == entry[i]
    <3>0. /\ Accounts(post[i], Absent, starts[i], m)
          /\ e.st = "active" => /\ Accounts(post[i], Complete(e), starts[i], m)
                                /\ Accounts(post[i], Fail(e, m), starts[i], m)
                                /\ Accounts(post[i], [e EXCEPT !.holder = Orphan], starts[i], m)
          /\ e.st = "delayed" => Accounts(post[i], Promote(e), starts[i], m)
          /\ Accounts(post[i], ReleaseLock(e), starts[i], m)
          /\ e.st = "active" /\ e.holder = NoLock => Accounts(post[i], Stall(e), starts[i], m)
      BY <1>0, <2>2, AccountsOperations
    <3>1. Accounts(post[i], entry'[i], starts[i], m)
      BY <1>0, <1>2, <3>0
    <3> QED
      BY <1>2, <3>1
  <2> QED
    BY <2>1, <2>2
<1>3. ASSUME NEW c \in Cancels, CancelNext(c) \/ CancelAbort(c) \/ \E j \in Jobs : CancelRead(c, j)
      PROVE  Accounts(post'[i], entry'[i], starts'[i], m)
  <2>1. post' = post /\ starts' = starts /\ entry'[i] \in {entry[i], Absent}
    BY <1>3 DEF CancelNext, CancelAbort, CancelRead, CancelLookup, CancelRemove, CancelUpdate, TypeOK
  <2> QED
    BY <1>2, <2>1
<1>4. ASSUME NEW s \in Slots, NEW j \in Jobs, TakeJob(s, j)
      PROVE  Accounts(post'[i], entry'[i], starts'[i], m)
  <2>1. CASE i = j
    <3>1. post[i] \notin {"unborn", "row"}
      BY <1>4, <1>a, <2>1 DEF TakeJob, Absent
    <3> QED
      BY <1>0, <1>4, <2>1, <3>1, AccountsOperations DEF TakeJob, TypeOK
  <2>2. CASE i # j
    BY <1>0, <1>4, <2>2 DEF TakeJob, TypeOK
  <2> QED
    BY <2>1, <2>2
<1>5. ASSUME NEW s \in Slots, Process(s)
      PROVE  Accounts(post'[i], entry'[i], starts'[i], m)
  <2>1. CASE Ack(s)
    <3>1. /\ post' = post /\ starts' = starts
          /\ \/ entry'[i] = entry[i]
             \/ entry[i].holder = s /\ entry'[i] = Complete(entry[i])
      BY <2>1 DEF Ack, TypeOK
    <3> QED
      BY <1>2, <1>b, <3>1, LockAssumption DEF LockAssumption
  <2>2. CASE Nack(s)
    <3>1. /\ post' = post /\ starts' = starts
          /\ \/ entry'[i] = entry[i]
             \/ entry[i].holder = s /\ entry'[i] = Fail(entry[i], m)
      BY <2>2 DEF Nack, attemptsOption, TypeOK, m
    <3> QED
      BY <1>2, <1>b, <3>1, LockAssumption DEF LockAssumption
  <2>3. CASE ~ Ack(s) /\ ~ Nack(s)
    <3>1. post' = post /\ starts' = starts /\ entry' = entry
      BY <1>5, <2>3
         DEF Process, MarkRunning, LogStarted, Handle, MarkSucceeded, LogCompleted, AnnounceDone,
             Count, LogFailed, MarkFailed, LogExhausted, AnnounceFailed, Announce, Await
    <3> QED
      BY <1>2, <3>1
  <2> QED
    BY <2>1, <2>2, <2>3
<1>6. ASSUME NEW p \in Procs, Crash(p)
      PROVE  Accounts(post'[i], entry'[i], starts'[i], m)
  <2>1. /\ post' = post /\ starts' = starts
        /\ \/ entry'[i] = entry[i]
           \/ entry[i].holder \in Slots /\ entry'[i] = [entry[i] EXCEPT !.holder = Orphan]
    BY <1>6 DEF Crash, TypeOK
  <2> QED
    BY <1>2, <1>b, <2>1, LockAssumption DEF LockAssumption
<1>7. ASSUME NEW j \in Jobs, LoseLock(j) \/ QueueTimer(j) \/ Trim(j)
      PROVE  Accounts(post'[i], entry'[i], starts'[i], m)
  <2>1. post' = post /\ starts' = starts /\ (i # j => entry'[i] = entry[i])
    BY <1>7 DEF LoseLock, QueueTimer, ExpireLock, StalledCheck, EndBackoff, Trim, QueueStep, TypeOK
  <2>2. CASE i = j /\ LoseLock(j)
    BY <1>2, <1>b, <2>1, <2>2, LockAssumption DEF LockAssumption, LoseLock, TypeOK
  <2>3. CASE i = j /\ ExpireLock(j)
    BY <1>2, <1>b, <2>1, <2>3, LockAssumption DEF LockAssumption, ExpireLock, QueueStep, TypeOK
  <2>4. CASE i = j /\ (StalledCheck(j) \/ EndBackoff(j) \/ Trim(j))
    BY <1>2, <2>1, <2>4 DEF StalledCheck, EndBackoff, Trim, QueueStep, TypeOK
  <2> QED
    BY <1>2, <1>7, <2>1, <2>2, <2>3, <2>4 DEF QueueTimer
<1> QED
  BY <1>1, <1>3, <1>4, <1>5, <1>6, <1>7 DEF Next, m

\* A job's processor is invoked at most maxAttempts + maxStalledCount times,
\* whatever crashes, lost locks, database errors and cancellations happen.
THEOREM ExecutionsBounded == Spec => []BoundedExecutions
<1>1. Init => AccountsInv
  BY AttemptsAssumption, AccountsAdd DEF AttemptsAssumption, Init, AccountsInv
<1>2. TypeOK /\ AccountsInv /\ [Next]_vars => AccountsInv'
  <2>1. ASSUME AccountsInv, UNCHANGED vars PROVE AccountsInv'
    BY <2>1 DEF AccountsInv, vars
  <2> QED
    BY <2>1, AccountsStep
<1>3. AccountsInv => BoundedExecutions
  BY AccountsMeaning
<1> QED
  BY <1>1, <1>2, <1>3, TypeCorrect, PTL DEF Spec
-----------------------------------------------------------------------------
(***************************************************************************)
(* Cancellation.  Protected is inductive as long as no live slot loses its *)
(* lock and no client cancels a job whose POST is not over; faults only    *)
(* counts up, so LockProtects, which promises nothing afterwards, is       *)
(* invariant for every budget.                                             *)
(***************************************************************************)
\* The lock guard of remove() and the order of cancelJob's steps keep
\* Protected: each step of one actor.
LEMMA LockProtectsApi ==
  ASSUME TypeOK, Protected, NEW j \in Jobs, CreateRow(j) \/ ApiStep(j)
  PROVE  Protected'
<1>1. ~ Published(j) /\ ~ PastRemove(j)
  BY DEF CreateRow, ApiStep, Enqueue, AbortPost, Protected, CancelledLeavesQueue, Published
<1>2. \A i \in Jobs : i # j => entry'[i] = entry[i] /\ row'[i] = row[i] /\ post'[i] = post[i]
  BY DEF CreateRow, ApiStep, Enqueue, AbortPost, TypeOK
<1>3. run' = run /\ cancel' = cancel
  BY DEF CreateRow, ApiStep, Enqueue, AbortPost
<1>4. ASSUME entry[j].st = "active" PROVE entry'[j] = entry[j]
  BY <1>4 DEF CreateRow, ApiStep, Enqueue, AbortPost, Add, TypeOK
<1>5. WorkersHoldLocks'
  BY <1>2, <1>3, <1>4, BusySlot DEF Protected, WorkersHoldLocks, TypeOK
<1>6. CancelsFollowPosts'
  BY <1>1, <1>2, <1>3 DEF Protected, CancelsFollowPosts, Published, TypeOK
<1>7. row'[j].status # "CANCELLED"
  BY <1>1 DEF CreateRow, ApiStep, Enqueue, AbortPost, PastRemove, TypeOK
<1>8. CancelledLeavesQueue'
  BY <1>1, <1>2, <1>3, <1>7 DEF Protected, CancelledLeavesQueue, PastRemove, Published
<1> QED
  BY <1>5, <1>6, <1>8 DEF Protected

LEMMA LockProtectsCancel ==
  ASSUME TypeOK, Protected, faults'.early = 0, NEW c \in Cancels,
         CancelNext(c) \/ CancelAbort(c) \/ \E j \in Jobs : CancelRead(c, j)
  PROVE  Protected'
<1> DEFINE j == cancel[c].job
<1> USE DEF Protected
<1>0. post' = post /\ run' = run
  BY DEF CancelNext, CancelAbort, CancelRead, CancelLookup, CancelRemove, CancelUpdate
<1>1. ASSUME NEW i \in Jobs, CancelRead(c, i) PROVE Protected'
  <2>1. row' = row /\ entry' = entry /\ cancel'[c].pc \in {"lookup", "conflict", "notFound"}
    BY <1>1 DEF CancelRead, TypeOK
  <2>2. \A d \in Cancels : d # c => cancel'[d] = cancel[d]
    BY <1>1 DEF CancelRead, TypeOK
  <2>3. post[i] # "row"
    BY <1>1 DEF CancelRead, TypeOK, Faults
  <2>4. cancel'[c].pc # "notFound" => Published(cancel'[c].job)
    BY <1>1, <2>3 DEF CancelRead, Published, TypeOK
  <2> QED
    BY <1>0, <2>1, <2>2, <2>4
       DEF WorkersHoldLocks, CancelsFollowPosts, CancelledLeavesQueue, PastRemove, Published
<1>2. ASSUME cancel[c].pc \in {"lookup", "remove", "update"},
             cancel'[c].job = j, cancel'[c].pc \notin {"idle", "notFound"},
             cancel'[c].pc = "update" => entry'[j].st = "absent",
             row'[j].status = "CANCELLED" => row[j].status = "CANCELLED" \/ entry'[j].st = "absent",
             \A d \in Cancels : d # c => cancel'[d] = cancel[d],
             \A i \in Jobs : i # j => row'[i] = row[i],
             \A i \in Jobs : \/ entry'[i] = entry[i]
                             \/ entry[i].holder = NoLock /\ entry'[i] = Absent
      PROVE  Protected'
  <2>1. j \in Jobs /\ Published(j)
    BY <1>2 DEF TypeOK, CancelsFollowPosts
  <2>2. WorkersHoldLocks'
    BY <1>0, <1>2, BusySlot, LockAssumption DEF LockAssumption, WorkersHoldLocks
  <2>3. CancelsFollowPosts'
    BY <1>0, <1>2, <2>1 DEF CancelsFollowPosts, Published
  <2>4. CancelledLeavesQueue'
    BY <1>0, <1>2, <2>1 DEF CancelledLeavesQueue, PastRemove, Published, Absent
  <2> QED
    BY <2>2, <2>3, <2>4
<1>3. CASE CancelLookup(c)
  BY <1>2, <1>3 DEF CancelLookup, AfterLookup, TypeOK
<1>4. CASE CancelRemove(c)
  BY <1>2, <1>4 DEF CancelRemove, Removable, Absent, TypeOK
<1>5. CASE CancelUpdate(c)
  <2>1. entry[j].st = "absent"
    BY <1>5 DEF CancelUpdate, CancelledLeavesQueue, PastRemove, TypeOK
  <2> QED
    BY <1>2, <1>5, <2>1 DEF CancelUpdate, TypeOK
<1>6. CASE CancelAbort(c)
  BY <1>2, <1>6 DEF CancelAbort, TypeOK
<1> QED
  BY <1>1, <1>3, <1>4, <1>5, <1>6 DEF CancelNext

LEMMA LockProtectsTake ==
  ASSUME TypeOK, Protected, NEW s \in Slots, NEW j \in Jobs, TakeJob(s, j)
  PROVE  Protected'
<1>1. /\ post' = post /\ row' = row /\ cancel' = cancel
      /\ entry'[j].st = "active" /\ entry'[j].holder = s
      /\ \A i \in Jobs : i # j => entry'[i] = entry[i]
      /\ run'[s].job = j
      /\ \A t \in Slots : t # s => run'[t] = run[t]
  BY DEF TakeJob, Take, TypeOK, Entry
<1>2. entry[j].st = "waiting"
  BY DEF TakeJob
<1>3. WorkersHoldLocks'
  BY <1>1, <1>2, BusySlot DEF Protected, WorkersHoldLocks
<1> QED
  BY <1>1, <1>2, <1>3
     DEF Protected, CancelsFollowPosts, CancelledLeavesQueue, PastRemove, Published

\* The processor writes the row of its own job only, which is not cancelled.
LEMMA ProcessFrame ==
  ASSUME TypeOK, Protected, NEW s \in Slots, Process(s)
  PROVE  /\ post' = post /\ cancel' = cancel
         /\ run[s].job \in Jobs /\ ~ PastRemove(run[s].job)
         /\ \A i \in Jobs : i # run[s].job => row'[i] = row[i] /\ entry'[i] = entry[i]
         /\ \A t \in Slots : t # s => run'[t] = run[t]
         /\ run'[s].pc = "idle" \/ (run'[s].job = run[s].job /\ entry' = entry)
         /\ row'[run[s].job].status # "CANCELLED"
<1> DEFINE j == run[s].job
<1>0. run[s].pc # "idle"
  BY DEF Process, MarkRunning, LogStarted, Handle, MarkSucceeded, LogCompleted, AnnounceDone,
         Count, LogFailed, MarkFailed, LogExhausted, AnnounceFailed, Announce, Await, Ack, Nack
<1>1. j \in Jobs
  BY <1>0, BusySlot
<1>2. ~ PastRemove(j)
  BY <1>0, <1>1 DEF Protected, WorkersHoldLocks, CancelledLeavesQueue
<1>3. row[j].status # "CANCELLED"
  BY <1>2 DEF PastRemove
<1>4. ASSUME NEW next, NEW write, write \in {row, updateJobStatus(j, "RUNNING"),
               updateJobStatus(j, "SUCCEEDED"), updateJobStatus(j, "FAILED"),
               addJobLog(j, "started"), addJobLog(j, "completed"), addJobLog(j, "failed"),
               addJobLog(j, "exhausted"), incrementAttempts(j)}
      PROVE  /\ \A i \in Jobs : i # j => write[i] = row[i]
             /\ write[j].status # "CANCELLED"
  BY <1>1, <1>3, <1>4 DEF TypeOK, Row, updateJobStatus, addJobLog, incrementAttempts
<1>5. ASSUME Ack(s) \/ Nack(s)
      PROVE  /\ post' = post /\ cancel' = cancel /\ row' = row
             /\ \A i \in Jobs : i # j => entry'[i] = entry[i]
             /\ \A t \in Slots : t # s => run'[t] = run[t]
             /\ run'[s].pc = "idle"
  BY <1>5 DEF Ack, Nack, Freed, Idle, TypeOK
<1>6. ASSUME ~ Ack(s), ~ Nack(s)
      PROVE  /\ post' = post /\ cancel' = cancel /\ entry' = entry
             /\ \A t \in Slots : t # s => run'[t] = run[t]
             /\ run'[s].job = j
             /\ row' \in {row, updateJobStatus(j, "RUNNING"),
                 updateJobStatus(j, "SUCCEEDED"), updateJobStatus(j, "FAILED"),
                 addJobLog(j, "started"), addJobLog(j, "completed"), addJobLog(j, "failed"),
                 addJobLog(j, "exhausted"), incrementAttempts(j)}
  BY <1>6 DEF Process, MarkRunning, LogStarted, Handle, MarkSucceeded, LogCompleted, AnnounceDone,
         Count, LogFailed, MarkFailed, LogExhausted, AnnounceFailed, Announce, Await, Resolve,
         Reject, TypeOK, Run
<1> QED
  BY <1>1, <1>2, <1>3, <1>4, <1>5, <1>6

LEMMA LockProtectsProcess ==
  ASSUME TypeOK, Protected, NEW s \in Slots, Process(s)
  PROVE  Protected'
<1> DEFINE j == run[s].job
<1>1. WorkersHoldLocks'
  <2> SUFFICES ASSUME NEW t \in Slots, run'[t].pc # "idle"
               PROVE  entry'[run'[t].job].st = "active" /\ entry'[run'[t].job].holder = t
    BY DEF WorkersHoldLocks
  <2>1. CASE t = s
    <3>1. run[s].pc # "idle"
      BY ProcessFrame, NoJobAssumption DEF NoJobAssumption, TypeOK
    <3> QED
      BY <2>1, <3>1, ProcessFrame DEF Protected, WorkersHoldLocks
  <2>2. CASE t # s
    <3>1. run'[t] = run[t] /\ run[t].job \in Jobs
      BY <2>2, ProcessFrame, BusySlot
    <3>2. entry[run[t].job].holder = t /\ entry[run[t].job].st = "active"
      BY <3>1 DEF Protected, WorkersHoldLocks
    <3>3. run[s].pc # "idle" /\ entry[j].holder = s
      BY ProcessFrame, NoJobAssumption DEF NoJobAssumption, TypeOK, Protected, WorkersHoldLocks
    <3>4. run[t].job # j
      BY <2>2, <3>2, <3>3
    <3> QED
      BY <3>1, <3>2, <3>4, ProcessFrame
  <2> QED
    BY <2>1, <2>2
<1>2. CancelsFollowPosts'
  BY ProcessFrame DEF Protected, CancelsFollowPosts, Published
<1>3. CancelledLeavesQueue'
  <2> SUFFICES ASSUME NEW i \in Jobs, PastRemove(i)'
               PROVE  entry'[i].st = "absent" /\ Published(i)'
    BY DEF CancelledLeavesQueue
  <2>1. i # j
    BY ProcessFrame DEF PastRemove
  <2>2. PastRemove(i) /\ entry'[i] = entry[i]
    BY <2>1, ProcessFrame DEF PastRemove
  <2> QED
    BY <2>2, ProcessFrame DEF Protected, CancelledLeavesQueue, Published
<1> QED
  BY <1>1, <1>2, <1>3 DEF Protected

LEMMA LockProtectsQueue ==
  ASSUME TypeOK, Protected, faults'.lock = 0, NEW j \in Jobs,
         LoseLock(j) \/ QueueTimer(j) \/ Trim(j)
  PROVE  Protected'
<1>1. ~ LoseLock(j)
  BY DEF LoseLock, TypeOK, Faults
<1>2. post' = post /\ row' = row /\ cancel' = cancel /\ run' = run
  BY <1>1 DEF QueueTimer, ExpireLock, StalledCheck, EndBackoff, Trim, QueueStep
<1>3. \A i \in Jobs : i # j => entry'[i] = entry[i]
  BY <1>1 DEF QueueTimer, ExpireLock, StalledCheck, EndBackoff, Trim, QueueStep, TypeOK
<1>4. /\ entry[j].st = "absent" => entry'[j].st = "absent"
      /\ entry[j].st # "active" \/ entry[j].holder \notin Slots
  BY <1>1, LockAssumption
     DEF LockAssumption, QueueTimer, ExpireLock, StalledCheck, EndBackoff, Trim, QueueStep,
         ReleaseLock, Finished, TypeOK, Entry
<1>5. WorkersHoldLocks'
  BY <1>2, <1>3, <1>4, BusySlot DEF Protected, WorkersHoldLocks
<1> QED
  BY <1>2, <1>3, <1>4, <1>5
     DEF Protected, CancelsFollowPosts, CancelledLeavesQueue, PastRemove, Published

LEMMA LockProtectsCrash ==
  ASSUME TypeOK, Protected, NEW p \in Procs, Crash(p)
  PROVE  Protected'
<1>1. post' = post /\ row' = row /\ cancel' = cancel
  BY DEF Crash
<1>2. \A i \in Jobs : entry'[i].st = entry[i].st
  BY DEF Crash, TypeOK, Entry
<1>3. WorkersHoldLocks'
  <2> SUFFICES ASSUME NEW t \in Slots, run'[t].pc # "idle"
               PROVE  entry'[run'[t].job].st = "active" /\ entry'[run'[t].job].holder = t
    BY DEF WorkersHoldLocks
  <2>1. ProcOf[t] # p /\ run'[t] = run[t]
    BY DEF Crash, Idle
  <2>2. run[t].job \in Jobs /\ entry[run[t].job].holder = t /\ entry[run[t].job].st = "active"
    BY <2>1, BusySlot DEF Protected, WorkersHoldLocks
  <2> QED
    BY <2>1, <2>2 DEF Crash
<1> QED
  BY <1>1, <1>2, <1>3
     DEF Protected, CancelsFollowPosts, CancelledLeavesQueue, PastRemove, Published

\* The counters of faults only grow: what is undisturbed was undisturbed before.
LEMMA UndisturbedBefore ==
  ASSUME TypeOK, Next, Undisturbed'
  PROVE  Undisturbed
<1>1. \/ faults' = faults
      \/ faults' \in {[faults EXCEPT !.crash = @ + 1], [faults EXCEPT !.db = @ + 1],
                     [faults EXCEPT !.lock = @ + 1], [faults EXCEPT !.api = @ + 1],
                     [faults EXCEPT !.early = @ + 1]}
  BY DEF Next, CreateRow, ApiStep, Enqueue, AbortPost,
         CancelRead, CancelNext, CancelLookup, CancelRemove, CancelUpdate, CancelAbort,
         TakeJob, Process, MarkRunning, LogStarted, Handle, MarkSucceeded, LogCompleted,
         AnnounceDone, Count, LogFailed, MarkFailed, LogExhausted, AnnounceFailed, Announce,
         Await, Resolve, Reject, Ack, Nack, Crash,
         LoseLock, QueueTimer, ExpireLock, StalledCheck, EndBackoff, Trim, QueueStep
<1> QED
  BY <1>1 DEF Undisturbed, TypeOK, Faults

\* While nothing disturbs the locks, a slot at work holds its entry's lock and
\* a cancelled job has no entry to be taken: remove()'s lock guard and the order
\* of cancelJob's steps protect the row that nothing else guards.
THEOREM LockProtectsInvariant == Spec => []LockProtects
<1>1. Init => LockProtects
  BY DEF Init, Idle, NoRow, LockProtects, Protected, WorkersHoldLocks, CancelsFollowPosts,
         CancelledLeavesQueue, PastRemove
<1>2. TypeOK /\ LockProtects /\ [Next]_vars => LockProtects'
  <2>1. ASSUME LockProtects, UNCHANGED vars PROVE LockProtects'
    BY <2>1 DEF vars, LockProtects, Undisturbed, Protected, WorkersHoldLocks, CancelsFollowPosts,
                CancelledLeavesQueue, PastRemove, Published
  <2>2. ASSUME TypeOK, LockProtects, Next PROVE LockProtects'
    <3> SUFFICES ASSUME Undisturbed' PROVE Protected'
      BY DEF LockProtects
    <3>1. Protected
      BY <2>2, UndisturbedBefore DEF LockProtects
    <3>2. faults'.lock = 0 /\ faults'.early = 0
      BY DEF Undisturbed
    <3> QED
      BY <2>2, <3>1, <3>2, LockProtectsApi, LockProtectsCancel, LockProtectsTake,
         LockProtectsProcess, LockProtectsQueue, LockProtectsCrash DEF Next
  <2> QED
    BY <2>1, <2>2
<1> QED
  BY <1>1, <1>2, TypeCorrect, PTL DEF Spec

\* A job once CANCELLED stays CANCELLED, and no processor works on it again.
THEOREM CancelledStays ==
  Spec => CancelledIsFinal
<1> DEFINE Final == \A j \in Jobs :
             Undisturbed /\ row[j].status = "CANCELLED" => row'[j].status = "CANCELLED"
<1>1. TypeOK /\ LockProtects /\ [Next]_vars => [Final]_vars
  <2> SUFFICES ASSUME TypeOK, Protected, Next, NEW i \in Jobs, row[i].status = "CANCELLED"
               PROVE  row'[i].status = "CANCELLED"
    BY DEF Final, LockProtects
  <2>0. PastRemove(i) /\ Published(i)
    BY DEF PastRemove, Protected, CancelledLeavesQueue
  <2>1. ASSUME NEW j \in Jobs, CreateRow(j) \/ ApiStep(j) PROVE row'[i].status = "CANCELLED"
    BY <2>0, <2>1 DEF Published, CreateRow, ApiStep, Enqueue, AbortPost, TypeOK
  <2>2. ASSUME NEW c \in Cancels,
               CancelNext(c) \/ CancelAbort(c) \/ \E j \in Jobs : CancelRead(c, j)
        PROVE  row'[i].status = "CANCELLED"
    <3>1. CASE CancelUpdate(c)
      BY <3>1 DEF CancelUpdate, TypeOK, Row
    <3>2. CASE ~ CancelUpdate(c)
      BY <2>2, <3>2 DEF CancelNext, CancelAbort, CancelRead, CancelLookup, CancelRemove
    <3> QED
      BY <3>1, <3>2
  <2>3. ASSUME NEW s \in Slots, Process(s) PROVE row'[i].status = "CANCELLED"
    BY <2>0, <2>3, ProcessFrame
  <2>4. ASSUME NEW s \in Slots, NEW j \in Jobs, TakeJob(s, j) PROVE row' = row
    BY <2>4 DEF TakeJob
  <2>5. ASSUME NEW p \in Procs, Crash(p) PROVE row' = row
    BY <2>5 DEF Crash
  <2>6. ASSUME NEW j \in Jobs, LoseLock(j) \/ QueueTimer(j) \/ Trim(j) PROVE row' = row
    BY <2>6 DEF LoseLock, QueueTimer, ExpireLock, StalledCheck, EndBackoff, Trim, QueueStep
  <2> QED
    BY <2>1, <2>2, <2>3, <2>4, <2>5, <2>6 DEF Next
<1> QED
  BY <1>1, TypeCorrect, LockProtectsInvariant, PTL DEF Spec, CancelledIsFinal, Final

\* ... and no processor is invoked for it any more.
THEOREM CancelledStaysIdle == Spec => CancelledNeverStarts
<1> DEFINE Never == \A j \in Jobs :
             Undisturbed /\ row[j].status = "CANCELLED" => starts'[j] = starts[j]
<1>1. TypeOK /\ LockProtects /\ [Next]_vars => [Never]_vars
  <2> SUFFICES ASSUME TypeOK, Protected, Next, NEW i \in Jobs, row[i].status = "CANCELLED"
               PROVE  starts'[i] = starts[i]
    BY DEF Never, LockProtects
  <2>1. entry[i].st # "waiting"
    BY DEF PastRemove, Protected, CancelledLeavesQueue
  <2>2. ASSUME NEW s \in Slots, NEW j \in Jobs, TakeJob(s, j) PROVE starts'[i] = starts[i]
    BY <2>1, <2>2 DEF TakeJob, TypeOK
  <2>3. ASSUME \A s \in Slots, j \in Jobs : ~ TakeJob(s, j) PROVE starts' = starts
    BY <2>3 DEF Next, CreateRow, ApiStep, Enqueue, AbortPost,
         CancelRead, CancelNext, CancelLookup, CancelRemove, CancelUpdate, CancelAbort,
         Process, MarkRunning, LogStarted, Handle, MarkSucceeded, LogCompleted,
         AnnounceDone, Count, LogFailed, MarkFailed, LogExhausted, AnnounceFailed, Announce,
         Await, Ack, Nack, Crash,
         LoseLock, QueueTimer, ExpireLock, StalledCheck, EndBackoff, Trim, QueueStep
  <2> QED
    BY <2>2, <2>3
<1> QED
  BY <1>1, TypeCorrect, LockProtectsInvariant, PTL DEF Spec, CancelledNeverStarts, Never
-----------------------------------------------------------------------------
(***************************************************************************)
(* The story of a job.  As long as no call of a worker rejects, no lock is *)
(* lost and no cancellation comes early, row, log, queue entry, announced  *)
(* verdicts and the slot at work on a job agree at every step:             *)
(* - every run of the processor ends as an attempt the queue has counted   *)
(*   or was cut off by a crash, so the row's attempts are at most that     *)
(*   many, and at least the queue's;                                       *)
(* - a verdict other than the last was announced by a run that a crash cut *)
(*   off, or by one beyond the attempts the row allows, which a cut off    *)
(*   run has used up.                                                      *)
(***************************************************************************)
Smooth == Undisturbed /\ faults.db = 0

Alive == {"waiting", "active", "delayed"}

\* The runs that crashes have cut off: those the stalled check has found, and the
\* one it has yet to find.
Cut(e) == e.stalls + (IF e.st = "active" /\ e.holder \notin Slots THEN 1 ELSE 0)

\* Steps of the catch block after it has counted the failure.
Counted == {"logFailed", "markFailed", "logExhausted", "announceFailed", "nack"}

\* The status of a job that is about to run; n is the number of crashes.
Resumable(status, n) ==
  status \in {"QUEUED", "RUNNING"} \/ (n > 0 /\ status \in {"SUCCEEDED", "FAILED"})

\* A job with row r, entry e, announcements a and maxAttempts m that no slot is at
\* work on.
FreeStory(r, e, a, m, n) ==
  /\ Resumable(r.status, n)
  /\ Cut(e) <= n
  /\ e.made <= r.attempts
  /\ r.attempts + a.completed <= e.made + Cut(e)
  /\ a.failed = 0 \/ a.failed + m <= r.attempts + 1

\* The status and the log at each step of the slot, whose record is q.
StatusStory(r, n, q) ==
  /\ q.pc = "markRunning" => Resumable(r.status, n)
  /\ q.pc \in {"logStarted", "handle", "markSucceeded", "count", "logFailed", "markFailed"} =>
       r.status = "RUNNING"
  /\ q.pc \in {"logCompleted", "announceDone", "ack"} => r.status = "SUCCEEDED"
  /\ q.pc \in {"logExhausted", "announceFailed"} => r.status = "FAILED"
  /\ q.pc = "nack" => r.status = IF q.exhausted THEN "FAILED" ELSE "RUNNING"

LogStory(r, q) ==
  /\ q.pc \in {"announceDone", "ack"} => "completed" \in r.logs
  /\ q.pc \in {"markFailed", "logExhausted", "announceFailed"} => q.exhausted /\ "failed" \in r.logs
  /\ q.pc = "announceFailed" => "exhausted" \in r.logs
  /\ q.pc = "nack" /\ q.exhausted => {"failed", "exhausted"} \subseteq r.logs

\* A job that a slot is at work on.
HeldStory(r, e, a, m, n, q) ==
  /\ StatusStory(r, n, q)
  /\ LogStory(r, q)
  /\ q.pc \in Counted => e.made < r.attempts /\ (q.exhausted <=> r.attempts >= m)
  /\ e.stalls <= n
  /\ e.made <= r.attempts
  /\ r.attempts + a.completed <=
       e.made + e.stalls + (IF q.pc \in Counted \cup {"ack"} THEN 1 ELSE 0)
  /\ a.failed = 0 \/ a.failed + m <= r.attempts + (IF q.pc \in Counted \ {"nack"} THEN 0 ELSE 1)

NothingTold(a) == a.completed = 0 /\ a.failed = 0

\* p is how far the job's POST has come, runs what the slots are doing.
Story(p, r, e, a, m, n, runs, j) ==
  /\ p = "unborn" => r.status = "NONE"
  /\ p = "row" => r.status = "QUEUED"
  /\ p \in {"unborn", "row"} => r.attempts = 0 /\ NothingTold(a)
  /\ e.holder \in Slots => runs[e.holder].job = j
  /\ e.st \in Alive =>
       IF e.holder \in Slots THEN HeldStory(r, e, a, m, n, runs[e.holder])
                             ELSE FreeStory(r, e, a, m, n)

Tale(j) == Story(post[j], row[j], entry[j], announced[j], MaxAttempts[j], faults.crash, run, j)

StoryInv == Smooth => \A j \in Jobs : Tale(j)

\* The values a job's story is told of.
TaleType(r, e, a, m, n) ==
  /\ r \in Row
  /\ e \in Entry
  /\ a \in [completed : Nat, failed : Nat]
  /\ m \in 1..10
  /\ n \in Nat

LEMMA TaleTyped ==
  ASSUME TypeOK, NEW j \in Jobs
  PROVE  TaleType(row[j], entry[j], announced[j], MaxAttempts[j], faults.crash)
BY AttemptsAssumption DEF AttemptsAssumption, TypeOK, TaleType, Faults

\* More crashes, or no longer looking at one that works, spoil no story.
LEMMA StoryLasts ==
  ASSUME NEW r, NEW e, NEW a, NEW m, NEW n, TaleType(r, e, a, m, n), NEW k \in Nat, n <= k,
         NEW q
  PROVE  /\ FreeStory(r, e, a, m, n) => FreeStory(r, e, a, m, k)
         /\ HeldStory(r, e, a, m, n, q) => HeldStory(r, e, a, m, k, q)
<1>1. ASSUME FreeStory(r, e, a, m, n) PROVE FreeStory(r, e, a, m, k)
  BY <1>1 DEF TaleType, Entry, FreeStory, Resumable, Cut
<1>2. ASSUME HeldStory(r, e, a, m, n, q) PROVE HeldStory(r, e, a, m, k, q)
  <2>1. StatusStory(r, k, q)
    BY <1>2 DEF TaleType, HeldStory, StatusStory, Resumable
  <2>2. e.stalls <= k
    BY <1>2 DEF TaleType, Entry, HeldStory
  <2> QED
    BY <1>2, <2>1, <2>2 DEF HeldStory
<1> QED
  BY <1>1, <1>2

\* The queue's timers change nothing a job's story tells, and the slot that takes
\* the entry takes the story over.
LEMMA FreeOperations ==
  ASSUME NEW r, NEW e, NEW a, NEW m, NEW n, TaleType(r, e, a, m, n), FreeStory(r, e, a, m, n)
  PROVE  /\ e.st = "delayed" /\ e.holder \notin Slots => FreeStory(r, Promote(e), a, m, n)
         /\ e.holder \notin Slots => FreeStory(r, ReleaseLock(e), a, m, n)
         /\ e.st = "active" /\ e.holder = NoLock => FreeStory(r, Stall(e), a, m, n)
         /\ \A s \in Slots, x \in BOOLEAN : \A j : e.st = "waiting" =>
              HeldStory(r, Take(e, s), a, m, n, [pc |-> "markRunning", job |-> j, exhausted |-> x])
<1> USE DEF TaleType, Entry, FreeStory, Cut
<1>1. ASSUME e.st = "delayed", e.holder \notin Slots PROVE FreeStory(r, Promote(e), a, m, n)
  BY <1>1 DEF Promote
<1>2. ASSUME e.holder \notin Slots PROVE FreeStory(r, ReleaseLock(e), a, m, n)
  BY <1>2, LockAssumption DEF LockAssumption, ReleaseLock
<1>3. ASSUME e.st = "active", e.holder = NoLock PROVE FreeStory(r, Stall(e), a, m, n)
  BY <1>3, LockAssumption DEF LockAssumption, Stall
<1>4. ASSUME NEW s \in Slots, NEW x \in BOOLEAN, NEW j, e.st = "waiting"
      PROVE  HeldStory(r, Take(e, s), a, m, n, [pc |-> "markRunning", job |-> j, exhausted |-> x])
  BY <1>4 DEF HeldStory, StatusStory, LogStory, Counted, Take, Row
<1> QED
  BY <1>1, <1>2, <1>3, <1>4

\* What becomes of the story when the slot is done with the job: a rejected try
\* with attempts left, or a crash.
LEMMA HeldReleases ==
  ASSUME NEW r, NEW e, NEW a, NEW m, NEW n, TaleType(r, e, a, m, n), NEW q \in Run, q.pc # "idle",
         HeldStory(r, e, a, m, n, q), e.made < m, e.st = "active", e.holder \in Slots
  PROVE  /\ q.pc = "nack" /\ Fail(e, m).st = "delayed" => FreeStory(r, Fail(e, m), a, m, n)
         /\ FreeStory(r, [e EXCEPT !.holder = Orphan], a, m, n + 1)
<1> USE DEF TaleType, Entry, HeldStory, FreeStory, Cut
<1>1. ASSUME q.pc = "nack", Fail(e, m).st = "delayed" PROVE FreeStory(r, Fail(e, m), a, m, n)
  <2>1. /\ Fail(e, m).made = e.made + 1 /\ Fail(e, m).stalls = e.stalls
        /\ Fail(e, m).st = "delayed" /\ e.made + 1 < m
    BY <1>1 DEF Fail
  <2>2. e.made + 1 <= r.attempts /\ r.attempts + a.completed <= e.made + 1 + e.stalls
    BY <1>1 DEF Counted, Row
  <2>3. r.status = "FAILED" => n > 0
    BY <1>1, <2>1, <2>2 DEF StatusStory, Counted, Row
  <2>4. Resumable(r.status, n)
    BY <1>1, <2>3 DEF StatusStory, Resumable
  <2> QED
    BY <1>1, <2>1, <2>2, <2>4 DEF Counted, Row
<1>2. FreeStory(r, [e EXCEPT !.holder = Orphan], a, m, n + 1)
  <2>1. Resumable(r.status, n + 1)
    BY DEF StatusStory, Resumable, Run, RunStep, TrySteps, CatchSteps
  <2>2. Cut([e EXCEPT !.holder = Orphan]) = e.stalls + 1
    BY LockAssumption DEF LockAssumption
  <2>3. r.attempts + a.completed <= e.made + e.stalls + 1 /\ (a.failed = 0 \/ a.failed + m <= r.attempts + 1)
    BY DEF Counted, Row
  <2> QED
    BY <2>1, <2>2, <2>3
<1> QED
  BY <1>1, <1>2

-----------------------------------------------------------------------------
\* A call that resolves: what the slot and the row are afterwards.
LEMMA Resolved ==
  ASSUME TypeOK, faults'.db = 0, NEW s \in Slots, NEW step, NEW next, NEW write,
         Await(s, step, next, write)
  PROVE  /\ run[s].pc = step
         /\ run'[s] = [run[s] EXCEPT !.pc = next]
         /\ row' = write
         /\ announced' = announced
BY DEF TypeOK, Faults, Await, Resolve, Reject

LEMMA Announced ==
  ASSUME TypeOK, faults'.db = 0, NEW s \in Slots, NEW step, NEW next,
         NEW event \in {"completed", "failed"}, Announce(s, step, next, event),
         NEW j \in Jobs, run[s].job = j
  PROVE  /\ run[s].pc = step
         /\ run'[s] = [run[s] EXCEPT !.pc = next]
         /\ row' = row
         /\ announced'[j] = [announced[j] EXCEPT ![event] = @ + 1]
         /\ \A i \in Jobs : i # j => announced'[i] = announced[i]
<1>1. Resolve(s, next, row) /\ announced' = dispatchEvent(j, event) /\ run[s].pc = step
  BY DEF TypeOK, Faults, Announce, Reject
<1>2. announced' = [announced EXCEPT ![j] = [announced[j] EXCEPT ![event] = @ + 1]]
  BY <1>1 DEF TypeOK, dispatchEvent
<1> QED
  BY <1>1, <1>2 DEF TypeOK, Resolve

\* The writes of the processor to the row of its job.
LEMMA WrittenRow ==
  ASSUME TypeOK, NEW j \in Jobs
  PROVE  /\ \A status : updateJobStatus(j, status)[j] = [row[j] EXCEPT !.status = status]
         /\ \A message : addJobLog(j, message)[j] = [row[j] EXCEPT !.logs = @ \cup {message}]
         /\ incrementAttempts(j)[j] = [row[j] EXCEPT !.attempts = @ + 1]
BY DEF TypeOK, updateJobStatus, addJobLog, incrementAttempts

\* Each step of the processor goes on with its job's story.
LEMMA HeldGoesOn ==
  ASSUME TypeOK, faults'.db = 0, NEW s \in Slots, Process(s), ~ Ack(s), ~ Nack(s),
         NEW j \in Jobs, run[s].job = j, entry[j].made < MaxAttempts[j],
         HeldStory(row[j], entry[j], announced[j], MaxAttempts[j], faults.crash, run[s])
  PROVE  /\ run'[s].job = j
         /\ HeldStory(row'[j], entry[j], announced'[j], MaxAttempts[j], faults.crash, run'[s])
<1> DEFINE r == row[j]
           e == entry[j]
           a == announced[j]
           m == MaxAttempts[j]
           n == faults.crash
           q == run[s]
<1>0. /\ r \in Row /\ e \in Entry /\ a \in [completed : Nat, failed : Nat] /\ m \in 1..10 /\ n \in Nat
      /\ q \in Run /\ q.job = j /\ e.made < m
      /\ HeldStory(r, e, a, m, n, q)
  BY TaleTyped DEF TaleType, TypeOK
<1>1. ASSUME MarkRunning(s) \/ LogStarted(s) \/ MarkSucceeded(s) \/ LogCompleted(s) \/ LogFailed(s)
             \/ MarkFailed(s) \/ LogExhausted(s)
      PROVE  /\ run'[s].job = j
             /\ HeldStory(row'[j], e, announced'[j], m, n, run'[s])
  <2>1. ASSUME NEW step, NEW next, NEW write, Await(s, step, next, write)
        PROVE  /\ q.pc = step /\ run'[s] = [q EXCEPT !.pc = next] /\ row' = write /\ announced'[j] = a
    BY <2>1, Resolved
  <2>2. /\ \A status : updateJobStatus(j, status)[j] = [r EXCEPT !.status = status]
        /\ \A message : addJobLog(j, message)[j] = [r EXCEPT !.logs = @ \cup {message}]
    BY WrittenRow
  <2> HIDE DEF r, e, a, m, n, q
  <2> USE <1>0 DEF HeldStory, StatusStory, LogStory, Counted, Run, Row
  <2>3. CASE MarkRunning(s)
    <3>1. q.pc = "markRunning" /\ run'[s] = [q EXCEPT !.pc = "logStarted"]
          /\ row'[j] = [r EXCEPT !.status = "RUNNING"] /\ announced'[j] = a
      BY <2>1, <2>2, <2>3 DEF MarkRunning, q
    <3> QED
      BY <3>1
  <2>4. CASE LogStarted(s)
    <3>1. q.pc = "logStarted" /\ run'[s] = [q EXCEPT !.pc = "handle"]
          /\ row'[j] = [r EXCEPT !.logs = @ \cup {"started"}] /\ announced'[j] = a
      BY <2>1, <2>2, <2>4 DEF LogStarted, q
    <3> QED
      BY <3>1
  <2>5. CASE MarkSucceeded(s)
    <3>1. q.pc = "markSucceeded" /\ run'[s] = [q EXCEPT !.pc = "logCompleted"]
          /\ row'[j] = [r EXCEPT !.status = "SUCCEEDED"] /\ announced'[j] = a
      BY <2>1, <2>2, <2>5 DEF MarkSucceeded, q
    <3> QED
      BY <3>1
  <2>6. CASE LogCompleted(s)
    <3>1. q.pc = "logCompleted" /\ run'[s] = [q EXCEPT !.pc = "announceDone"]
          /\ row'[j] = [r EXCEPT !.logs = @ \cup {"completed"}] /\ announced'[j] = a
      BY <2>1, <2>2, <2>6 DEF LogCompleted, q
    <3> QED
      BY <3>1
  <2>7. CASE LogFailed(s)
    <3>1. q.pc = "logFailed" /\ run'[s] = [q EXCEPT !.pc = IF q.exhausted THEN "markFailed" ELSE "nack"]
          /\ row'[j] = [r EXCEPT !.logs = @ \cup {"failed"}] /\ announced'[j] = a
      BY <2>1, <2>2, <2>7 DEF LogFailed, q
    <3>2. CASE q.exhausted
      BY <3>1, <3>2
    <3>3. CASE ~ q.exhausted
      BY <3>1, <3>3
    <3> QED
      BY <3>2, <3>3
  <2>8. CASE MarkFailed(s)
    <3>1. q.pc = "markFailed" /\ run'[s] = [q EXCEPT !.pc = "logExhausted"]
          /\ row'[j] = [r EXCEPT !.status = "FAILED"] /\ announced'[j] = a
      BY <2>1, <2>2, <2>8 DEF MarkFailed, q
    <3> QED
      BY <3>1
  <2>9. CASE LogExhausted(s)
    <3>1. q.pc = "logExhausted" /\ run'[s] = [q EXCEPT !.pc = "announceFailed"]
          /\ row'[j] = [r EXCEPT !.logs = @ \cup {"exhausted"}] /\ announced'[j] = a
      BY <2>1, <2>2, <2>9 DEF LogExhausted, q
    <3> QED
      BY <3>1
  <2> QED
    BY <1>1, <2>3, <2>4, <2>5, <2>6, <2>7, <2>8, <2>9
<1>2. ASSUME Handle(s)
      PROVE  /\ run'[s].job = j
             /\ HeldStory(row'[j], e, announced'[j], m, n, run'[s])
  <2>1. PICK next \in {"markSucceeded", "count"} :
          q.pc = "handle" /\ run'[s] = [q EXCEPT !.pc = next] /\ row'[j] = r /\ announced'[j] = a
    BY <1>2 DEF Handle, TypeOK
  <2> HIDE DEF r, e, a, m, n, q
  <2> QED
    BY <1>0, <2>1 DEF HeldStory, StatusStory, LogStory, Counted, Run, Row
<1>3. ASSUME Count(s)
      PROVE  /\ run'[s].job = j
             /\ HeldStory(row'[j], e, announced'[j], m, n, run'[s])
  <2>1. /\ q.pc = "count" /\ announced'[j] = a /\ row' = incrementAttempts(j)
        /\ run'[s] = [pc |-> "logFailed", job |-> j, exhausted |-> Exhausted(j, row'[j].attempts)]
    BY <1>3 DEF Count, Reject, TypeOK, Faults
  <2>2. row'[j] = [r EXCEPT !.attempts = @ + 1]
    BY <2>1, WrittenRow
  <2>3. /\ run'[s].pc = "logFailed" /\ run'[s].job = j
        /\ run'[s].exhausted <=> r.attempts + 1 >= m
    <3> DEFINE x == Exhausted(j, row'[j].attempts)
    <3>1. run'[s].pc = "logFailed" /\ run'[s].job = j /\ run'[s].exhausted = x
      BY <2>1
    <3>2. x <=> r.attempts + 1 >= m
      BY <1>0, <2>2 DEF Exhausted, Row
    <3> HIDE DEF x
    <3> QED
      BY <3>1, <3>2
  <2> HIDE DEF r, e, a, m, n, q
  <2> QED
    BY <1>0, <2>1, <2>2, <2>3 DEF HeldStory, StatusStory, LogStory, Counted, Run, Row, Entry
<1>4. ASSUME AnnounceDone(s)
      PROVE  /\ run'[s].job = j
             /\ HeldStory(row'[j], e, announced'[j], m, n, run'[s])
  <2>1. /\ q.pc = "announceDone" /\ run'[s] = [q EXCEPT !.pc = "ack"] /\ row'[j] = r
        /\ announced'[j] = [a EXCEPT !.completed = @ + 1]
    <3>1. Announce(s, "announceDone", "ack", "completed")
      BY <1>4 DEF AnnounceDone
    <3> QED
      BY <3>1, Announced
  <2> HIDE DEF r, e, a, m, n, q
  <2> QED
    BY <1>0, <2>1 DEF HeldStory, StatusStory, LogStory, Counted, Run, Row, Entry
<1>5. ASSUME AnnounceFailed(s)
      PROVE  /\ run'[s].job = j
             /\ HeldStory(row'[j], e, announced'[j], m, n, run'[s])
  <2>1. /\ q.pc = "announceFailed" /\ run'[s] = [q EXCEPT !.pc = "nack"] /\ row'[j] = r
        /\ announced'[j] = [a EXCEPT !.failed = @ + 1]
    <3>1. Announce(s, "announceFailed", "nack", "failed")
      BY <1>5 DEF AnnounceFailed
    <3> QED
      BY <3>1, Announced
  <2> HIDE DEF r, e, a, m, n, q
  <2> QED
    BY <1>0, <2>1 DEF HeldStory, StatusStory, LogStory, Counted, Run, Row, Entry
<1> QED
  BY <1>1, <1>2, <1>3, <1>4, <1>5 DEF Process

-----------------------------------------------------------------------------
\* A step that leaves a job's stores, and the slot at work on it, alone.
LEMMA StoryKept ==
  ASSUME TypeOK, NEW i \in Jobs, Tale(i),
         post'[i] = post[i], row'[i] = row[i], entry'[i] = entry[i], announced'[i] = announced[i],
         faults'.crash \in Nat, faults.crash <= faults'.crash,
         entry[i].holder \in Slots => run'[entry[i].holder] = run[entry[i].holder]
  PROVE  Tale(i)'
BY TaleTyped, StoryLasts DEF Tale, Story

\* What a job's account adds to its story.
LEMMA StoryAccounts ==
  ASSUME TypeOK, AccountsInv, NEW i \in Jobs
  PROVE  /\ post[i] \in {"unborn", "row"} => entry[i] = Absent
         /\ entry[i].holder # NoLock => entry[i].st = "active"
         /\ entry[i].st \in Alive => entry[i].made < MaxAttempts[i]
         /\ entry[i].holder \in Slots => entry[i].st = "active"
         /\ entry[i].st = "active" => post[i] \notin {"unborn", "row"}
BY LockAssumption DEF LockAssumption, AccountsInv, Accounts, Alive, Absent

LEMMA StoryApi ==
  ASSUME TypeOK, AccountsInv, NEW j \in Jobs, CreateRow(j) \/ Enqueue(j) \/ AbortPost(j),
         NEW i \in Jobs, Tale(i)
  PROVE  Tale(i)'
<1>1. /\ run' = run /\ announced' = announced /\ faults'.crash = faults.crash /\ faults.crash \in Nat
      /\ i # j => post'[i] = post[i] /\ row'[i] = row[i] /\ entry'[i] = entry[i]
  BY DEF CreateRow, Enqueue, AbortPost, TypeOK, Faults
<1>2. CASE i # j
  BY <1>1, <1>2, StoryKept
<1>3. CASE i = j
  <2>1. entry[i] = Absent /\ post[i] \in {"unborn", "row"}
    BY <1>3, StoryAccounts DEF CreateRow, Enqueue, AbortPost
  <2>2. entry'[i] \in {Absent, Add(Absent)} /\ post'[i] \in {"row", "posted", "aborted"}
    BY <1>3, <2>1 DEF CreateRow, Enqueue, AbortPost, TypeOK
  <2>3. /\ row'[i].status = "QUEUED" /\ row'[i].attempts = 0
        /\ post'[i] = "row" => entry'[i] = Absent
    BY <1>3, <2>1 DEF CreateRow, Enqueue, AbortPost, TypeOK, Tale, Story
  <2>4. NothingTold(announced'[i])
    BY <1>1, <2>1 DEF Tale, Story
  <2>5. /\ Absent.holder \notin Slots /\ Add(Absent).holder \notin Slots
        /\ Absent.st = "absent" /\ Add(Absent).st = "waiting"
        /\ Add(Absent).made = 0 /\ Add(Absent).stalls = 0
    BY LockAssumption DEF LockAssumption, Absent, Add
  <2>6. FreeStory(row'[i], Add(Absent), announced'[i], MaxAttempts[i], faults'.crash)
    BY <1>1, <2>3, <2>4, <2>5 DEF FreeStory, Resumable, Cut, NothingTold
  <2>7. entry'[i] = Absent => entry'[i].st \notin Alive
    BY <2>5 DEF Alive
  <2> QED
    BY <2>2, <2>3, <2>4, <2>5, <2>6, <2>7 DEF Tale, Story
<1> QED
  BY <1>2, <1>3

LEMMA StoryCancel ==
  ASSUME TypeOK, Protected, NEW c \in Cancels,
         CancelNext(c) \/ CancelAbort(c) \/ \E j \in Jobs : CancelRead(c, j),
         NEW i \in Jobs, Tale(i)
  PROVE  Tale(i)'
<1>1. post' = post /\ run' = run /\ announced' = announced /\ faults'.crash = faults.crash
      /\ faults.crash \in Nat
  BY DEF CancelNext, CancelAbort, CancelRead, CancelLookup, CancelRemove, CancelUpdate, TypeOK, Faults
<1>2. CASE row'[i] = row[i] /\ entry'[i] = entry[i]
  BY <1>1, <1>2, StoryKept
<1>3. CASE ~ (row'[i] = row[i] /\ entry'[i] = entry[i])
  <2>1. /\ cancel[c].pc \in {"remove", "update"} /\ cancel[c].job = i
        /\ entry'[i] \in {entry[i], Absent}
        /\ cancel[c].pc = "remove" => entry'[i] = Absent
    BY <1>3 DEF CancelNext, CancelAbort, CancelRead, CancelLookup, CancelRemove, CancelUpdate, TypeOK
  <2>2. Published(i)
    BY <2>1 DEF Protected, CancelsFollowPosts
  <2>3. entry'[i].st = "absent"
    BY <2>1 DEF Protected, CancelledLeavesQueue, PastRemove, Absent
  <2>4. entry'[i].holder \in Slots => entry'[i] = entry[i]
    BY <2>1, LockAssumption DEF LockAssumption, Absent
  <2> QED
    BY <1>1, <2>2, <2>3, <2>4 DEF Tale, Story, Published, Alive
<1> QED
  BY <1>2, <1>3

LEMMA StoryTake ==
  ASSUME TypeOK, AccountsInv, NEW s \in Slots, NEW j \in Jobs, TakeJob(s, j),
         NEW i \in Jobs, Tale(i)
  PROVE  Tale(i)'
<1>1. /\ post' = post /\ row' = row /\ announced' = announced /\ faults' = faults
      /\ faults.crash \in Nat
      /\ run[s].job = NoJob
      /\ \A t \in Slots \ {s} : run'[t] = run[t]
      /\ run'[s] = [pc |-> "markRunning", job |-> j, exhausted |-> FALSE]
  BY DEF TakeJob, TypeOK, Faults
<1>2. CASE i # j
  <2>1. entry'[i] = entry[i] /\ entry[i].holder # s
    BY <1>1, <1>2, NoJobAssumption DEF NoJobAssumption, TakeJob, TypeOK, Tale, Story
  <2> QED
    BY <1>1, <2>1, StoryKept
<1>3. CASE i = j
  <2>1. entry[i].st = "waiting" /\ entry'[i] = Take(entry[i], s) /\ entry[i].holder \notin Slots
        /\ post[i] \notin {"unborn", "row"}
    BY <1>3, StoryAccounts DEF TakeJob, TypeOK, Absent
  <2>2. entry'[i].holder = s /\ entry'[i].st = "active"
    BY <2>1 DEF Take, TypeOK, Entry
  <2>3. FreeStory(row[i], entry[i], announced[i], MaxAttempts[i], faults.crash)
    BY <2>1 DEF Tale, Story, Alive
  <2>4. HeldStory(row[i], entry'[i], announced[i], MaxAttempts[i], faults.crash, run'[s])
    BY <1>1, <2>1, <2>3, TaleTyped, FreeOperations
  <2> QED
    BY <1>1, <1>3, <2>1, <2>2, <2>4 DEF Tale, Story
<1> QED
  BY <1>2, <1>3

LEMMA StoryProcess ==
  ASSUME TypeOK, AccountsInv, Protected, faults'.db = 0, NEW s \in Slots, Process(s),
         NEW i \in Jobs, Tale(i)
  PROVE  Tale(i)'
<1> DEFINE j == run[s].job
<1>1. /\ post' = post /\ faults'.crash = faults.crash /\ faults.crash \in Nat
      /\ run[s].pc # "idle" /\ j \in Jobs
      /\ entry[j].st = "active" /\ entry[j].holder = s
      /\ \A t \in Slots : t # s => run'[t] = run[t]
  <2>1. run[s].pc # "idle"
    BY DEF Process, MarkRunning, LogStarted, Handle, MarkSucceeded, LogCompleted, AnnounceDone,
           Count, LogFailed, MarkFailed, LogExhausted, AnnounceFailed, Announce, Await, Ack, Nack
  <2>2. faults'.crash = faults.crash
    BY DEF Process, MarkRunning, LogStarted, Handle, MarkSucceeded, LogCompleted, AnnounceDone,
           Count, LogFailed, MarkFailed, LogExhausted, AnnounceFailed, Announce, Await, Ack, Nack,
           Resolve, Reject, TypeOK, Faults
  <2> QED
    BY <2>1, <2>2, ProcessFrame DEF Protected, WorkersHoldLocks, TypeOK, Faults
<1>2. CASE i # j
  <2>1. announced'[i] = announced[i]
    <3>1. ASSUME NEW step, NEW next, NEW event \in {"completed", "failed"},
                 Announce(s, step, next, event)
          PROVE  announced'[i] = announced[i]
      <4>1. announced' \in {announced, dispatchEvent(j, event)}
        BY <3>1 DEF Announce
      <4>2. dispatchEvent(j, event)[i] = announced[i]
        BY <1>2 DEF dispatchEvent, TypeOK
      <4> QED
        BY <4>1, <4>2
    <3> QED
      BY <3>1
      DEF Process, MarkRunning, LogStarted, Handle, MarkSucceeded, LogCompleted, AnnounceDone,
          Count, LogFailed, MarkFailed, LogExhausted, AnnounceFailed, Await, Ack, Nack
  <2>2. row'[i] = row[i] /\ entry'[i] = entry[i]
    BY <1>2, ProcessFrame
  <2>3. entry[i].holder # s
    BY <1>1, <1>2 DEF Tale, Story
  <2> QED
    BY <1>1, <2>1, <2>2, <2>3, StoryKept
<1>3. CASE i = j
  <2>1. /\ entry[i].made < MaxAttempts[i] /\ post[i] \notin {"unborn", "row"}
        /\ HeldStory(row[i], entry[i], announced[i], MaxAttempts[i], faults.crash, run[s])
    BY <1>1, <1>3, StoryAccounts DEF Tale, Story, Alive
  <2>2. CASE ~ Ack(s) /\ ~ Nack(s)
    <3>1. /\ run'[s].job = i
          /\ HeldStory(row'[i], entry[i], announced'[i], MaxAttempts[i], faults.crash, run'[s])
      BY <1>1, <1>3, <2>1, <2>2, HeldGoesOn
    <3>2. entry' = entry
      BY <2>2
      DEF Process, MarkRunning, LogStarted, Handle, MarkSucceeded, LogCompleted, AnnounceDone,
          Count, LogFailed, MarkFailed, LogExhausted, AnnounceFailed, Await, Announce
    <3> QED
      BY <1>1, <1>3, <2>1, <3>1, <3>2 DEF Tale, Story
  <2>3. CASE Ack(s)
    <3>1. entry'[i] = Complete(entry[i])
      BY <1>1, <1>3, <2>3 DEF Ack, TypeOK
    <3>2. entry'[i].holder \notin Slots /\ entry'[i].st \notin Alive
      BY <3>1, LockAssumption DEF LockAssumption, Complete, Alive
    <3> QED
      BY <1>1, <2>1, <3>2 DEF Tale, Story
  <2>4. CASE Nack(s)
    <3>1. /\ run[s].pc = "nack" /\ row'[i] = row[i] /\ announced'[i] = announced[i]
          /\ entry'[i] = Fail(entry[i], MaxAttempts[i])
      BY <1>1, <1>3, <2>4 DEF Nack, TypeOK, attemptsOption
    <3>2. entry'[i].holder \notin Slots /\ entry'[i].st \in {"delayed", "failed"}
      BY <3>1, LockAssumption DEF LockAssumption, Fail
    <3>3. /\ run[s] \in Run /\ run[s].pc # "idle" /\ entry[i].st = "active" /\ entry[i].holder \in Slots
          /\ TaleType(row[i], entry[i], announced[i], MaxAttempts[i], faults.crash)
      BY <1>1, <1>3, TaleTyped DEF TypeOK
    <3>4. entry'[i].st = "delayed" =>
            FreeStory(row[i], entry'[i], announced[i], MaxAttempts[i], faults.crash)
      <4> HIDE DEF j
      <4> QED
        BY <2>1, <3>1, <3>3, HeldReleases
    <3> QED
      BY <1>1, <2>1, <3>1, <3>2, <3>4 DEF Tale, Story, Alive
  <2> QED
    BY <2>2, <2>3, <2>4
<1> QED
  BY <1>2, <1>3

LEMMA StoryCrash ==
  ASSUME TypeOK, AccountsInv, NEW p \in Procs, Crash(p), NEW i \in Jobs, Tale(i)
  PROVE  Tale(i)'
<1> DEFINE s == entry[i].holder
<1>1. post' = post /\ row' = row /\ announced' = announced
      /\ faults.crash \in Nat /\ faults'.crash = faults.crash + 1
  BY DEF Crash, TypeOK, Faults
<1>2. CASE s \in Slots /\ ProcOf[s] = p
  <2>1. entry'[i] = [entry[i] EXCEPT !.holder = Orphan]
    BY <1>2 DEF Crash
  <2>2. entry'[i].holder \notin Slots
    BY <2>1, LockAssumption DEF LockAssumption, TypeOK, Entry
  <2>3. /\ entry[i].st = "active" /\ entry[i].made < MaxAttempts[i]
        /\ post[i] \notin {"unborn", "row"} /\ run[s] \in Run /\ run[s].job = i
    BY <1>2, StoryAccounts DEF Alive, TypeOK, Tale, Story
  <2>4. run[s].pc # "idle"
    BY <1>2, <2>3, NoJobAssumption DEF NoJobAssumption, TypeOK
  <2>5. HeldStory(row[i], entry[i], announced[i], MaxAttempts[i], faults.crash, run[s])
    BY <1>2, <2>3 DEF Tale, Story, Alive
  <2>6. FreeStory(row[i], entry'[i], announced[i], MaxAttempts[i], faults.crash + 1)
    BY <1>2, <2>1, <2>3, <2>4, <2>5, TaleTyped, HeldReleases
  <2> QED
    BY <1>1, <2>2, <2>3, <2>6 DEF Tale, Story
<1>3. CASE ~ (s \in Slots /\ ProcOf[s] = p)
  <2>1. entry'[i] = entry[i] /\ (s \in Slots => run'[s] = run[s])
    BY <1>3 DEF Crash
  <2> QED
    BY <1>1, <2>1, StoryKept
<1> QED
  BY <1>2, <1>3

LEMMA StoryQueue ==
  ASSUME TypeOK, AccountsInv, faults'.lock = 0, NEW j \in Jobs,
         LoseLock(j) \/ QueueTimer(j) \/ Trim(j), NEW i \in Jobs, Tale(i)
  PROVE  Tale(i)'
<1>1. ~ LoseLock(j)
  BY DEF LoseLock, TypeOK, Faults
<1>2. /\ post' = post /\ row' = row /\ announced' = announced /\ run' = run /\ faults' = faults
      /\ faults.crash \in Nat
      /\ i # j => entry'[i] = entry[i]
  BY <1>1 DEF QueueTimer, ExpireLock, StalledCheck, EndBackoff, Trim, QueueStep, TypeOK, Faults
<1>3. CASE i # j
  BY <1>2, <1>3, StoryKept
<1>4. CASE i = j
  <2>1. \/ entry[i].holder = Orphan /\ entry'[i] = ReleaseLock(entry[i])
        \/ entry[i].st = "active" /\ entry[i].holder = NoLock /\ entry'[i] = Stall(entry[i])
        \/ entry[i].st = "delayed" /\ entry'[i] = Promote(entry[i])
        \/ Finished(entry[i]) /\ entry'[i] = Absent
    BY <1>1, <1>4 DEF QueueTimer, ExpireLock, StalledCheck, EndBackoff, Trim, QueueStep, TypeOK
  <2>2. entry[i].holder \notin Slots /\ post[i] \notin {"unborn", "row"}
    BY <2>1, StoryAccounts, LockAssumption DEF LockAssumption, Finished, Absent
  <2>3. entry[i].st \in Alive =>
          FreeStory(row[i], entry[i], announced[i], MaxAttempts[i], faults.crash)
    BY <2>2 DEF Tale, Story
  <2>4. entry'[i].holder \notin Slots
    BY <2>1, <2>2, LockAssumption
    DEF LockAssumption, TypeOK, Entry, ReleaseLock, Stall, Promote, Absent
  <2>5. entry'[i].st \in Alive =>
          FreeStory(row[i], entry'[i], announced[i], MaxAttempts[i], faults.crash)
    <3>1. CASE entry[i].holder = Orphan /\ entry'[i] = ReleaseLock(entry[i])
      BY <2>2, <2>3, <3>1, StoryAccounts, TaleTyped, FreeOperations, LockAssumption
      DEF Alive, LockAssumption
    <3>2. CASE entry[i].st = "active" /\ entry[i].holder = NoLock /\ entry'[i] = Stall(entry[i])
      BY <2>3, <3>2, TaleTyped, FreeOperations DEF Alive
    <3>3. CASE entry[i].st = "delayed" /\ entry'[i] = Promote(entry[i])
      BY <2>2, <2>3, <3>3, TaleTyped, FreeOperations DEF Alive
    <3>4. CASE entry'[i] = Absent
      BY <3>4 DEF Absent, Alive
    <3> QED
      BY <2>1, <3>1, <3>2, <3>3, <3>4
  <2> QED
    BY <1>2, <2>2, <2>4, <2>5 DEF Tale, Story
<1> QED
  BY <1>3, <1>4

\* Faults only count up.
LEMMA SmoothBefore ==
  ASSUME TypeOK, Next, Smooth'
  PROVE  Smooth
<1>1. \/ faults' = faults
      \/ faults' \in {[faults EXCEPT !.crash = @ + 1], [faults EXCEPT !.db = @ + 1],
                     [faults EXCEPT !.lock = @ + 1], [faults EXCEPT !.api = @ + 1],
                     [faults EXCEPT !.early = @ + 1]}
  BY DEF Next, CreateRow, ApiStep, Enqueue, AbortPost,
         CancelRead, CancelNext, CancelLookup, CancelRemove, CancelUpdate, CancelAbort,
         TakeJob, Process, MarkRunning, LogStarted, Handle, MarkSucceeded, LogCompleted,
         AnnounceDone, Count, LogFailed, MarkFailed, LogExhausted, AnnounceFailed, Announce,
         Await, Resolve, Reject, Ack, Nack, Crash,
         LoseLock, QueueTimer, ExpireLock, StalledCheck, EndBackoff, Trim, QueueStep
<1> QED
  BY <1>1 DEF Smooth, Undisturbed, TypeOK, Faults

LEMMA StoryStep ==
  ASSUME TypeOK, AccountsInv, LockProtects, StoryInv, Next
  PROVE  StoryInv'
<1> SUFFICES ASSUME Smooth', NEW i \in Jobs PROVE Tale(i)'
  BY DEF StoryInv
<1>1. Smooth /\ Protected /\ Tale(i)
  BY SmoothBefore DEF StoryInv, LockProtects, Smooth
<1>2. faults'.db = 0 /\ faults'.lock = 0
  BY DEF Smooth, Undisturbed
<1> QED
  BY <1>1, <1>2, StoryApi, StoryCancel, StoryTake, StoryProcess, StoryCrash, StoryQueue
  DEF Next, ApiStep

LEMMA AccountsAlways == Spec => []AccountsInv
<1>1. Init => AccountsInv
  BY AttemptsAssumption, AccountsAdd DEF AttemptsAssumption, Init, AccountsInv
<1>2. AccountsInv /\ UNCHANGED vars => AccountsInv'
  BY DEF AccountsInv, vars
<1> QED
  BY <1>1, <1>2, AccountsStep, TypeCorrect, PTL DEF Spec

LEMMA StoryAlways == Spec => []StoryInv
<1>1. Init => StoryInv
  BY LockAssumption
  DEF LockAssumption, Init, StoryInv, Tale, Story, NoRow, Absent, Alive, NothingTold
<1>2. StoryInv /\ UNCHANGED vars => StoryInv'
  BY DEF StoryInv, Smooth, Undisturbed, Tale, vars
<1> QED
  BY <1>1, <1>2, StoryStep, TypeCorrect, AccountsAlways, LockProtectsInvariant, PTL DEF Spec

-----------------------------------------------------------------------------
(***************************************************************************)
(* How a job ends.  As long as BullMQ tolerates the crashes, an entry that *)
(* is finished, or is gone, belongs to a job whose row, log and entry      *)
(* agree, or to one of the two half-done requests, or to a cancellation    *)
(* that is between remove() and its write.                                 *)
(***************************************************************************)
Removing(j) == \E c \in Cancels : cancel[c].pc = "update" /\ cancel[c].job = j

EndStory(j) ==
  /\ row[j].status = "CANCELLED" => "cancelled" \in row[j].logs
  /\ Finished(entry[j]) => Agreed(j)
  /\ Published(j) /\ entry[j].st = "absent" =>
       Agreed(j) \/ NeverQueued(j) \/ HalfCancelled(j) \/ Removing(j)

Tolerated == Smooth /\ faults.crash <= MaxStalledCount

EndInv == Tolerated => \A j \in Jobs : EndStory(j)

\* A step that leaves a job's row, the state of its entry, and the cancel
\* requests past remove() alone.
LEMMA EndKept ==
  ASSUME NEW i \in Jobs, EndStory(i),
         post'[i] = post[i], row'[i] = row[i], entry'[i].st = entry[i].st, starts'[i] = starts[i],
         \A c \in Cancels : cancel[c].job = i /\ cancel[c].pc \in {"update", "error"} =>
                            cancel'[c] = cancel[c]
  PROVE  EndStory(i)'
<1>1. Agreed(i) => Agreed(i)'
  BY DEF Agreed
<1>2. NeverQueued(i) => NeverQueued(i)'
  BY DEF NeverQueued
<1>3. HalfCancelled(i) => HalfCancelled(i)'
  BY DEF HalfCancelled
<1>4. Removing(i) => Removing(i)'
  BY DEF Removing
<1> QED
  BY <1>1, <1>2, <1>3, <1>4 DEF EndStory, Finished, Published

\* A step after which the entry is still, or again, due to run.
LEMMA EndPostponed ==
  ASSUME NEW i \in Jobs, entry'[i].st \in Alive,
         row'[i].status = "CANCELLED" => "cancelled" \in row'[i].logs
  PROVE  EndStory(i)'
BY DEF EndStory, Finished, Alive

\* A step that leaves the job's stores in agreement.
LEMMA EndReached ==
  ASSUME NEW i \in Jobs, Agreed(i)'
  PROVE  EndStory(i)'
BY DEF EndStory, Agreed

LEMMA EndApi ==
  ASSUME TypeOK, AccountsInv, NEW j \in Jobs, CreateRow(j) \/ Enqueue(j) \/ AbortPost(j),
         NEW i \in Jobs, Tale(i), EndStory(i)
  PROVE  EndStory(i)'
<1>1. /\ cancel' = cancel /\ starts' = starts
      /\ i # j => post'[i] = post[i] /\ row'[i] = row[i] /\ entry'[i] = entry[i]
  BY DEF CreateRow, Enqueue, AbortPost, TypeOK
<1>2. CASE i # j
  BY <1>1, <1>2, EndKept
<1>3. CASE i = j
  <2>1. entry[i] = Absent /\ starts[i] = 0 /\ post[i] \in {"unborn", "row"}
    BY <1>3 DEF AccountsInv, Accounts, CreateRow, Enqueue, AbortPost
  <2>2. /\ entry'[i] \in {Absent, Add(Absent)}
        /\ row'[i].status = "QUEUED"
        /\ post'[i] = "row" => entry'[i] = Absent
        /\ entry'[i] = Absent => post'[i] \in {"row", "aborted"}
    BY <1>3, <2>1 DEF CreateRow, Enqueue, AbortPost, TypeOK, Tale, Story, Absent, Add
  <2>3. CASE entry'[i] = Add(Absent)
    BY <2>2, <2>3, EndPostponed DEF Add, Absent, Alive
  <2>4. CASE entry'[i] = Absent
    BY <1>1, <2>1, <2>2, <2>4 DEF EndStory, NeverQueued, Finished, Absent, Published
  <2> QED
    BY <2>2, <2>3, <2>4
<1> QED
  BY <1>2, <1>3

LEMMA EndCancel ==
  ASSUME TypeOK, Protected, NEW c \in Cancels,
         CancelNext(c) \/ CancelAbort(c) \/ \E j \in Jobs : CancelRead(c, j),
         NEW i \in Jobs, EndStory(i)
  PROVE  EndStory(i)'
<1>1. /\ post' = post /\ starts' = starts
      /\ \A d \in Cancels : d # c => cancel'[d] = cancel[d]
  BY DEF CancelNext, CancelAbort, CancelRead, CancelLookup, CancelRemove, CancelUpdate, TypeOK
<1>2. CASE cancel[c].pc \in {"idle", "lookup"} \/ cancel[c].job # i
  <2>1. row'[i] = row[i] /\ entry'[i] = entry[i] /\ cancel[c].pc # "error"
    BY <1>2 DEF CancelNext, CancelAbort, CancelRead, CancelLookup, CancelRemove, CancelUpdate, TypeOK
  <2> QED
    BY <1>1, <1>2, <2>1, EndKept
<1>3. CASE cancel[c].pc = "remove" /\ cancel[c].job = i
  <2>1. row' = row
    BY <1>3 DEF CancelNext, CancelAbort, CancelRead, CancelLookup, CancelRemove, CancelUpdate
  <2>2. \/ entry'[i] = entry[i]
        \/ entry'[i] = Absent /\ cancel'[c].pc = "update" /\ cancel'[c].job = i
    BY <1>3 DEF CancelNext, CancelAbort, CancelRead, CancelLookup, CancelRemove, CancelUpdate, TypeOK
  <2>3. CASE entry'[i] = entry[i]
    BY <1>1, <1>3, <2>1, <2>3, EndKept
  <2>4. CASE entry'[i] = Absent /\ cancel'[c].pc = "update" /\ cancel'[c].job = i
    BY <2>1, <2>4 DEF EndStory, Finished, Removing, Absent
  <2> QED
    BY <2>2, <2>3, <2>4
<1>4. CASE cancel[c].pc = "update" /\ cancel[c].job = i
  <2>1. entry'[i] = entry[i] /\ entry[i].st = "absent"
    BY <1>4 DEF CancelNext, CancelAbort, CancelRead, CancelLookup, CancelRemove, CancelUpdate,
                Protected, CancelledLeavesQueue, PastRemove
  <2>2. CASE CancelUpdate(c)
    <3>1. row'[i].status = "CANCELLED" /\ "cancelled" \in row'[i].logs
      BY <1>4, <2>2 DEF CancelUpdate, TypeOK, Row
    <3> QED
      BY <2>1, <3>1, EndReached DEF Agreed, Terminal
  <2>3. CASE CancelAbort(c)
    <3>1. row' = row /\ cancel'[c] = [pc |-> "error", job |-> i]
      BY <1>4, <2>3 DEF CancelAbort, TypeOK
    <3>2. CASE row[i].status = "CANCELLED"
      BY <2>1, <3>1, <3>2, EndReached DEF EndStory, Agreed, Terminal
    <3>3. CASE row[i].status # "CANCELLED"
      BY <2>1, <3>1, <3>3 DEF EndStory, HalfCancelled, Finished
    <3> QED
      BY <3>2, <3>3
  <2> QED
    BY <1>4, <2>2, <2>3 DEF CancelNext, CancelRead, CancelLookup, CancelRemove
<1> QED
  BY <1>2, <1>3, <1>4
  DEF CancelNext, CancelAbort, CancelRead, CancelLookup, CancelRemove, CancelUpdate

LEMMA EndProcess ==
  ASSUME TypeOK, AccountsInv, Protected, NEW s \in Slots, Process(s),
         NEW i \in Jobs, Tale(i), EndStory(i)
  PROVE  EndStory(i)'
<1> DEFINE j == run[s].job
<1>1. /\ post' = post /\ cancel' = cancel /\ starts' = starts
      /\ j \in Jobs /\ row'[j].status # "CANCELLED"
      /\ entry[j].st = "active" /\ entry[j].holder = s
  <2>1. run[s].pc # "idle" /\ starts' = starts
    BY DEF Process, MarkRunning, LogStarted, Handle, MarkSucceeded, LogCompleted, AnnounceDone,
           Count, LogFailed, MarkFailed, LogExhausted, AnnounceFailed, Announce, Await, Ack, Nack
  <2> QED
    BY <2>1, ProcessFrame DEF Protected, WorkersHoldLocks
<1>2. CASE i # j
  <2>1. row'[i] = row[i] /\ entry'[i] = entry[i]
    BY <1>2, ProcessFrame
  <2> QED
    BY <1>1, <2>1, EndKept
<1>3. CASE i = j
  <2>1. /\ row[i] \in Row /\ entry[i].made \in Nat /\ MaxAttempts[i] \in Nat
        /\ HeldStory(row[i], entry[i], announced[i], MaxAttempts[i], faults.crash, run[s])
    <3>1. row[i] \in Row /\ entry[i].made \in Nat /\ MaxAttempts[i] \in Nat
      BY AttemptsAssumption DEF AttemptsAssumption, TypeOK, Entry
    <3>2. HeldStory(row[i], entry[i], announced[i], MaxAttempts[i], faults.crash, run[s])
      BY <1>1, <1>3 DEF Tale, Story, Alive
    <3> QED
      BY <3>1, <3>2
  <2>2. CASE ~ Ack(s) /\ ~ Nack(s)
    <3>1. entry' = entry
      BY <2>2
      DEF Process, MarkRunning, LogStarted, Handle, MarkSucceeded, LogCompleted, AnnounceDone,
          Count, LogFailed, MarkFailed, LogExhausted, AnnounceFailed, Await, Announce
    <3> QED
      BY <1>1, <1>3, <3>1, EndPostponed DEF Alive
  <2>3. CASE Ack(s)
    <3>1. run[s].pc = "ack" /\ row' = row /\ entry'[i] = Complete(entry[i])
      BY <1>1, <1>3, <2>3 DEF Ack, TypeOK
    <3>2. row[i].status = "SUCCEEDED" /\ "completed" \in row[i].logs
      BY <2>1, <3>1 DEF HeldStory, StatusStory, LogStory
    <3> QED
      BY <3>1, <3>2, EndReached DEF Agreed, Terminal, Complete
  <2>4. CASE Nack(s)
    <3>1. run[s].pc = "nack" /\ row' = row /\ entry'[i] = Fail(entry[i], MaxAttempts[i])
      BY <1>1, <1>3, <2>4 DEF Nack, TypeOK, attemptsOption
    <3>2. CASE entry[i].made + 1 < MaxAttempts[i]
      BY <1>1, <1>3, <3>1, <3>2, EndPostponed DEF Fail, Alive
    <3>3. CASE ~ (entry[i].made + 1 < MaxAttempts[i])
      <4>1. entry[i].made < row[i].attempts /\ (run[s].exhausted <=> row[i].attempts >= MaxAttempts[i])
        BY <2>1, <3>1 DEF HeldStory, Counted
      <4>2. run[s].exhausted
        BY <2>1, <3>3, <4>1 DEF Row
      <4>3. row[i].status = "FAILED" /\ {"failed", "exhausted"} \subseteq row[i].logs
        BY <2>1, <3>1, <4>2 DEF HeldStory, StatusStory, LogStory
      <4>4. entry'[i].st = "failed"
        BY <3>1, <3>3 DEF Fail
      <4> QED
        BY <3>1, <4>3, <4>4, EndReached DEF Agreed, Terminal
    <3> QED
      BY <3>2, <3>3
  <2> QED
    BY <2>2, <2>3, <2>4
<1> QED
  BY <1>2, <1>3

LEMMA EndQueue ==
  ASSUME TypeOK, AccountsInv, faults'.lock = 0, faults.crash <= MaxStalledCount,
         NEW j \in Jobs, LoseLock(j) \/ QueueTimer(j) \/ Trim(j),
         NEW i \in Jobs, Tale(i), EndStory(i)
  PROVE  EndStory(i)'
<1>1. ~ LoseLock(j)
  BY DEF LoseLock, TypeOK, Faults
<1>2. /\ post' = post /\ row' = row /\ cancel' = cancel /\ starts' = starts
      /\ i # j => entry'[i] = entry[i]
  BY <1>1 DEF QueueTimer, ExpireLock, StalledCheck, EndBackoff, Trim, QueueStep, TypeOK
<1>3. CASE i # j
  BY <1>2, <1>3, EndKept
<1>4. CASE i = j
  <2>1. CASE ExpireLock(j)
    <3>1. entry'[i].st = entry[i].st
      BY <1>4, <2>1 DEF ExpireLock, QueueStep, ReleaseLock, TypeOK, Entry
    <3> QED
      BY <1>2, <3>1, EndKept
  <2>2. CASE StalledCheck(j)
    <3>1. entry[i].st = "active" /\ entry[i].holder \notin Slots /\ entry'[i] = Stall(entry[i])
      BY <1>4, <2>2, LockAssumption DEF LockAssumption, StalledCheck, QueueStep, TypeOK
    <3>2. Cut(entry[i]) <= faults.crash
      BY <3>1 DEF Tale, Story, Alive, FreeStory
    <3>3. entry[i].stalls + 1 <= MaxStalledCount
      BY <3>1, <3>2, StalledAssumption DEF StalledAssumption, Cut, TypeOK, Entry, Faults
    <3>4. entry'[i].st = "waiting"
      BY <3>1, <3>3, StalledAssumption DEF StalledAssumption, Stall, TypeOK, Entry
    <3> QED
      BY <1>2, <3>4, EndPostponed DEF Alive, EndStory
  <2>3. CASE EndBackoff(j)
    <3>1. entry'[i].st = "waiting"
      BY <1>4, <2>3 DEF EndBackoff, QueueStep, Promote, TypeOK, Entry
    <3> QED
      BY <1>2, <3>1, EndPostponed DEF Alive, EndStory
  <2>4. CASE Trim(j)
    <3>1. Finished(entry[i]) /\ entry'[i] = Absent
      BY <1>4, <2>4 DEF Trim, QueueStep, TypeOK
    <3>2. Agreed(i)'
      BY <1>2, <3>1 DEF EndStory, Agreed, Absent
    <3> QED
      BY <3>2, EndReached
  <2> QED
    BY <1>1, <2>1, <2>2, <2>3, <2>4 DEF QueueTimer
<1> QED
  BY <1>3, <1>4

LEMMA EndTake ==
  ASSUME TypeOK, NEW s \in Slots, NEW j \in Jobs, TakeJob(s, j), NEW i \in Jobs, EndStory(i)
  PROVE  EndStory(i)'
<1>1. post' = post /\ row' = row /\ cancel' = cancel
  BY DEF TakeJob
<1>2. CASE i # j
  <2>1. entry'[i] = entry[i] /\ starts'[i] = starts[i]
    BY <1>2 DEF TakeJob, TypeOK
  <2> QED
    BY <1>1, <2>1, EndKept
<1>3. CASE i = j
  <2>1. entry'[i].st = "active"
    BY <1>3 DEF TakeJob, Take, TypeOK, Entry
  <2> QED
    BY <1>1, <2>1, EndPostponed DEF Alive, EndStory
<1> QED
  BY <1>2, <1>3

LEMMA EndCrash ==
  ASSUME TypeOK, NEW p \in Procs, Crash(p), NEW i \in Jobs, EndStory(i)
  PROVE  EndStory(i)'
<1>1. post' = post /\ row' = row /\ cancel' = cancel /\ starts' = starts
      /\ entry'[i].st = entry[i].st
  BY DEF Crash, TypeOK, Entry
<1> QED
  BY <1>1, EndKept

\* Crashes only count up.
LEMMA CrashesCount ==
  ASSUME TypeOK, Next
  PROVE  faults.crash <= faults'.crash
<1>1. \/ faults'.crash = faults.crash
      \/ faults'.crash = faults.crash + 1
  BY DEF TypeOK, Faults, Next, CreateRow, ApiStep, Enqueue, AbortPost,
         CancelRead, CancelNext, CancelLookup, CancelRemove, CancelUpdate, CancelAbort,
         TakeJob, Process, MarkRunning, LogStarted, Handle, MarkSucceeded, LogCompleted,
         AnnounceDone, Count, LogFailed, MarkFailed, LogExhausted, AnnounceFailed, Announce,
         Await, Resolve, Reject, Ack, Nack, Crash,
         LoseLock, QueueTimer, ExpireLock, StalledCheck, EndBackoff, Trim, QueueStep
<1> QED
  BY <1>1 DEF TypeOK, Faults

LEMMA EndStep ==
  ASSUME TypeOK, TypeOK', AccountsInv, LockProtects, StoryInv, EndInv, Next
  PROVE  EndInv'
<1> SUFFICES ASSUME Tolerated', NEW i \in Jobs PROVE EndStory(i)'
  BY DEF EndInv
<1>1. Smooth /\ Protected /\ Tale(i)
  BY SmoothBefore DEF StoryInv, LockProtects, Smooth, Tolerated
<1>2. faults'.lock = 0 /\ faults.crash <= MaxStalledCount
  BY CrashesCount, StalledAssumption
  DEF StalledAssumption, TypeOK, Faults, Tolerated, Smooth, Undisturbed
<1>3. EndStory(i)
  BY <1>1, <1>2 DEF EndInv, Tolerated
<1> QED
  BY <1>1, <1>2, <1>3, EndApi, EndCancel, EndTake, EndProcess, EndCrash, EndQueue
  DEF Next, ApiStep

\* SettledAgreement: once nothing works on a job any more, its row, its log and its
\* queue entry tell the same end, or the request that was cut off half way shows
\* why they do not.
THEOREM StoresAgree == Spec => []SettledAgreement
<1>1. Init => EndInv
  BY DEF Init, EndInv, EndStory, NoRow, Absent, Finished, Published
<1>2. EndInv /\ UNCHANGED vars => EndInv'
  BY DEF EndInv, Tolerated, Smooth, Undisturbed, EndStory, Agreed, NeverQueued, HalfCancelled,
         Removing, Finished, Published, vars
<1>3. EndInv => SettledAgreement
  BY DEF EndInv, Tolerated, Smooth, EndStory, SettledAgreement, Settled, Cancelling, Removing
<1> QED
  BY <1>1, <1>2, <1>3, EndStep, TypeCorrect, AccountsAlways, LockProtectsInvariant, StoryAlways,
     PTL DEF Spec

-----------------------------------------------------------------------------
(***************************************************************************)
(* The refinement of JobContract.  Most steps leave the promised state     *)
(* alone; the lemmas say what it takes for a step to do so, to write one   *)
(* job's status, and to change one request.                                *)
(***************************************************************************)
LEMMA StutterKept ==
  ASSUME \A i \in Jobs : row'[i].status = row[i].status /\ row'[i].attempts = row[i].attempts,
         starts' = starts, announced' = announced, acceptedBar' = acceptedBar,
         faults'.crash = faults.crash
  PROVE  UNCHANGED Contract!cvars
BY DEF Contract!cvars, statusBar, triesBar

LEMMA StatusMoves ==
  ASSUME NEW j \in Jobs, NEW to, row'[j].status = to, row'[j].attempts = row[j].attempts,
         \A i \in Jobs : i # j => row'[i] = row[i],
         starts' = starts, announced' = announced, acceptedBar' = acceptedBar,
         faults'.crash = faults.crash
  PROVE  Contract!Move(j, to)
<1>1. statusBar' = [statusBar EXCEPT ![j] = to]
  BY DEF statusBar
<1>2. triesBar' = triesBar
  BY DEF triesBar
<1> QED
  BY <1>1, <1>2 DEF Contract!Move

LEMMA AcceptedKept ==
  ASSUME cancel' = cancel
  PROVE  acceptedBar' = acceptedBar
BY DEF acceptedBar

LEMMA ContractApi ==
  ASSUME TypeOK, NEW j \in Jobs, Tale(j), CreateRow(j) \/ Enqueue(j) \/ AbortPost(j)
  PROVE  Contract!Next \/ UNCHANGED Contract!cvars
<1>1. /\ cancel' = cancel /\ starts' = starts /\ announced' = announced
      /\ faults'.crash = faults.crash
  BY DEF CreateRow, Enqueue, AbortPost, TypeOK, Faults
<1>2. CASE CreateRow(j)
  <2>1. row[j].status = "NONE" /\ row[j].attempts = 0
    BY <1>2 DEF CreateRow, Tale, Story
  <2>2. /\ row'[j].status = "QUEUED" /\ row'[j].attempts = 0
        /\ \A i \in Jobs : i # j => row'[i] = row[i]
    BY <1>2 DEF CreateRow, TypeOK
  <2>3. Contract!Move(j, "QUEUED")
    BY <1>1, <2>1, <2>2, AcceptedKept, StatusMoves
  <2>4. Contract!Submit(j)
    BY <2>1, <2>3 DEF Contract!Submit, statusBar
  <2> QED
    BY <2>4 DEF Contract!Next
<1>3. CASE Enqueue(j) \/ AbortPost(j)
  <2>1. row' = row
    BY <1>3 DEF Enqueue, AbortPost
  <2> QED
    BY <1>1, <2>1, AcceptedKept, StutterKept
<1> QED
  BY <1>2, <1>3

LEMMA ContractCancel ==
  ASSUME TypeOK, NEW c \in Cancels,
         CancelNext(c) \/ CancelAbort(c) \/ \E j \in Jobs : CancelRead(c, j)
  PROVE  Contract!Next \/ UNCHANGED Contract!cvars
<1> DEFINE Pending == {"lookup", "remove", "update"}
           Shown(q) == IF q.pc \in Pending THEN q.job ELSE NoJob
<1>1. /\ starts' = starts /\ announced' = announced /\ faults'.crash = faults.crash
      /\ \A i \in Jobs : row'[i].attempts = row[i].attempts
  <2>1. starts' = starts /\ announced' = announced /\ faults'.crash = faults.crash
    BY DEF CancelNext, CancelAbort, CancelRead, CancelLookup, CancelRemove, CancelUpdate, TypeOK, Faults
  <2>2. \A i \in Jobs : row'[i].attempts = row[i].attempts
    BY DEF CancelNext, CancelAbort, CancelRead, CancelLookup, CancelRemove, CancelUpdate, TypeOK, Row
  <2> QED
    BY <2>1, <2>2
<1>2. /\ \A d \in Cancels : d # c => cancel'[d] = cancel[d]
      /\ acceptedBar' = [acceptedBar EXCEPT ![c] = Shown(cancel'[c])]
      /\ acceptedBar[c] = Shown(cancel[c])
  <2>1. \A d \in Cancels : d # c => cancel'[d] = cancel[d]
    BY DEF CancelNext, CancelAbort, CancelRead, CancelLookup, CancelRemove, CancelUpdate, TypeOK
  <2> QED
    BY <2>1 DEF acceptedBar
<1>3. triesBar' = triesBar
  BY <1>1 DEF triesBar
<1>4. CASE row' = row
  <2>1. statusBar' = statusBar
    BY <1>4 DEF statusBar
  <2>2. CASE Shown(cancel'[c]) = Shown(cancel[c])
    <3>1. acceptedBar' = acceptedBar
      BY <1>2, <2>2 DEF acceptedBar
    <3> QED
      BY <1>1, <1>4, <3>1, StutterKept
  <2>3. CASE Shown(cancel'[c]) = NoJob
    <3>1. Contract!Drop(c)
      BY <1>1, <1>2, <1>3, <2>1, <2>3 DEF Contract!Drop
    <3> QED
      BY <3>1 DEF Contract!Next
  <2>4. CASE \E j \in Jobs : CancelRead(c, j)
    <3>1. PICK j \in Jobs : CancelRead(c, j)
      BY <2>4
    <3>2. cancel[c].pc = "idle" /\ Shown(cancel[c]) = NoJob
      BY <3>1 DEF CancelRead
    <3>3. CASE post[j] # "unborn" /\ Cancellable(j)
      <4>1. cancel'[c] = [job |-> j, pc |-> "lookup"]
        BY <3>1, <3>3 DEF CancelRead, TypeOK
      <4>2. Contract!Accept(c, j)
        BY <1>1, <1>2, <1>3, <2>1, <3>2, <3>3, <4>1
        DEF Contract!Accept, Contract!Open, Cancellable, statusBar
      <4> QED
        BY <4>2 DEF Contract!Next
    <3>4. CASE ~ (post[j] # "unborn" /\ Cancellable(j))
      <4>1. cancel'[c].pc \in {"notFound", "conflict"}
        BY <3>1, <3>4 DEF CancelRead, TypeOK
      <4> QED
        BY <2>3, <4>1
    <3> QED
      BY <3>3, <3>4
  <2>5. CASE CancelNext(c) \/ CancelAbort(c)
    <3>1. cancel'[c].job = cancel[c].job
      BY <2>5 DEF CancelNext, CancelAbort, CancelLookup, CancelRemove, CancelUpdate, TypeOK
    <3>2. \/ cancel[c].pc \in Pending /\ cancel'[c].pc \in Pending
          \/ cancel'[c].pc \in {"ok", "error"}
      BY <2>5 DEF CancelNext, CancelAbort, CancelLookup, CancelRemove, CancelUpdate, AfterLookup, TypeOK
    <3> QED
      BY <2>2, <2>3, <3>1, <3>2
  <2> QED
    BY <2>4, <2>5
<1>5. CASE CancelUpdate(c)
  <2> DEFINE j == cancel[c].job
  <2>1. j \in Jobs /\ j # NoJob /\ cancel[c].pc = "update"
    BY <1>5, NoJobAssumption DEF NoJobAssumption, CancelUpdate, TypeOK
  <2>2. statusBar' = [statusBar EXCEPT ![j] = "CANCELLED"]
    <3>1. row'[j].status = "CANCELLED" /\ \A i \in Jobs : i # j => row'[i] = row[i]
      BY <1>5, <2>1 DEF CancelUpdate, TypeOK, Row
    <3> HIDE DEF j
    <3> QED
      BY <3>1 DEF statusBar
  <2>3. acceptedBar[c] = j /\ acceptedBar' = [acceptedBar EXCEPT ![c] = NoJob]
    BY <1>2, <1>5, <2>1 DEF CancelUpdate, TypeOK
  <2>4. Contract!Land(c)
    BY <1>1, <1>3, <2>1, <2>2, <2>3 DEF Contract!Land
  <2> QED
    BY <2>4 DEF Contract!Next
<1> QED
  BY <1>4, <1>5 DEF CancelNext, CancelAbort, CancelRead, CancelLookup, CancelRemove

LEMMA ContractTake ==
  ASSUME TypeOK, AccountsInv, NEW s \in Slots, NEW j \in Jobs, TakeJob(s, j), Tale(j)
  PROVE  Contract!Next
<1>1. /\ row' = row /\ cancel' = cancel /\ announced' = announced /\ faults' = faults
      /\ starts' = [starts EXCEPT ![j] = @ + 1]
      /\ entry[j].st = "waiting"
  BY DEF TakeJob
<1>2. /\ entry[j] \in Entry /\ starts[j] \in Nat /\ MaxAttempts[j] \in Nat /\ faults.crash \in Nat
  BY AttemptsAssumption DEF AttemptsAssumption, TypeOK, Faults
<1>3. starts[j] = entry[j].made + entry[j].stalls /\ entry[j].made < MaxAttempts[j]
      /\ entry[j].holder \notin Slots
  BY <1>1, <1>2, LockAssumption DEF LockAssumption, AccountsInv, Accounts, Entry
<1>4. FreeStory(row[j], entry[j], announced[j], MaxAttempts[j], faults.crash)
  BY <1>1, <1>3 DEF Tale, Story, Alive
<1>5. starts[j] < MaxAttempts[j] + faults.crash
  BY <1>1, <1>2, <1>3, <1>4 DEF FreeStory, Cut, Entry
<1>6. Contract!Runnable(j)
  BY <1>4 DEF FreeStory, Resumable, Contract!Runnable, Contract!Open, statusBar
<1>7. Contract!Run(j)
  BY <1>1, <1>5, <1>6 DEF Contract!Run, statusBar, triesBar, acceptedBar
<1> QED
  BY <1>7 DEF Contract!Next

LEMMA ContractProcess ==
  ASSUME TypeOK, AccountsInv, Protected, faults'.db = 0, NEW s \in Slots, Process(s),
         \A i \in Jobs : Tale(i)
  PROVE  Contract!Next \/ UNCHANGED Contract!cvars
<1> DEFINE j == run[s].job
           r == row[j]
           a == announced[j]
           e == entry[j]
           m == MaxAttempts[j]
           n == faults.crash
           q == run[s]
<1>1. /\ cancel' = cancel /\ starts' = starts /\ faults'.crash = faults.crash
      /\ j \in Jobs /\ e.st = "active" /\ e.holder = s
      /\ \A i \in Jobs : i # j => row'[i] = row[i]
  <2>1. run[s].pc # "idle" /\ starts' = starts
    BY DEF Process, MarkRunning, LogStarted, Handle, MarkSucceeded, LogCompleted, AnnounceDone,
           Count, LogFailed, MarkFailed, LogExhausted, AnnounceFailed, Announce, Await, Ack, Nack
  <2>2. faults'.crash = faults.crash
    BY DEF Process, MarkRunning, LogStarted, Handle, MarkSucceeded, LogCompleted, AnnounceDone,
           Count, LogFailed, MarkFailed, LogExhausted, AnnounceFailed, Announce, Await, Ack, Nack,
           Resolve, Reject, TypeOK, Faults
  <2> QED
    BY <2>1, <2>2, ProcessFrame DEF Protected, WorkersHoldLocks
<1>2. /\ r \in Row /\ e \in Entry /\ a \in [completed : Nat, failed : Nat] /\ m \in 1..10 /\ n \in Nat
      /\ q \in Run
  BY <1>1, TaleTyped DEF TaleType, TypeOK
<1>3. HeldStory(r, e, a, m, n, q)
  BY <1>1 DEF Tale, Story, Alive
<1>4. starts[j] = e.made + e.stalls + 1 /\ e.made < m
  BY <1>1 DEF AccountsInv, Accounts
<1>5. q.pc \notin Counted \cup {"ack"} => r.attempts < starts[j]
  BY <1>2, <1>3, <1>4 DEF HeldStory, Row, Entry
<1>6. q.pc \in {"announceDone", "announceFailed"} => a.completed + a.failed <= n
  BY <1>2, <1>3, <1>4 DEF HeldStory, Counted, Row, Entry
<1>7. acceptedBar' = acceptedBar
  BY <1>1, AcceptedKept
<1>8. /\ statusBar[j] = r.status /\ triesBar[j] = r.attempts
  BY <1>1 DEF statusBar, triesBar
<1>9. ASSUME NEW step, NEW next, NEW write, Await(s, step, next, write)
      PROVE  q.pc = step /\ row' = write /\ announced' = announced
  BY <1>9, Resolved
<1>10. /\ \A status : updateJobStatus(j, status)[j] = [r EXCEPT !.status = status]
       /\ \A message : addJobLog(j, message)[j] = [r EXCEPT !.logs = @ \cup {message}]
  BY <1>1, WrittenRow
<1>11. ASSUME row'[j].status = r.status, row'[j].attempts = r.attempts, announced' = announced
       PROVE  UNCHANGED Contract!cvars
  <2>1. \A i \in Jobs : row'[i].status = row[i].status /\ row'[i].attempts = row[i].attempts
    BY <1>1, <1>11
  <2> QED
    BY <1>1, <1>7, <1>11, <2>1, StutterKept
<1>12. ASSUME NEW to, row'[j] = [r EXCEPT !.status = to], announced' = announced
       PROVE  Contract!Move(j, to)
  <2>1. row'[j].status = to /\ row'[j].attempts = r.attempts
    BY <1>2, <1>12 DEF Row
  <2> HIDE DEF j
  <2> QED
    BY <1>1, <1>7, <1>12, <2>1, StatusMoves DEF r
<1>13. CASE LogStarted(s) \/ LogCompleted(s) \/ LogFailed(s) \/ LogExhausted(s)
  <2>1. PICK message \in LogMessage :
          row'[j] = [r EXCEPT !.logs = @ \cup {message}] /\ announced' = announced
    BY <1>9, <1>10, <1>13 DEF LogStarted, LogCompleted, LogFailed, LogExhausted, LogMessage
  <2>2. row'[j].status = r.status /\ row'[j].attempts = r.attempts
    BY <1>2, <2>1 DEF Row
  <2> QED
    BY <1>11, <2>1, <2>2
<1>14. CASE Handle(s) \/ Ack(s) \/ Nack(s)
  BY <1>11, <1>14 DEF Handle, Ack, Nack
<1>15. CASE MarkRunning(s)
  <2>1. q.pc = "markRunning" /\ Contract!Move(j, "RUNNING")
    <3>1. q.pc = "markRunning" /\ row' = updateJobStatus(j, "RUNNING") /\ announced' = announced
      BY <1>9, <1>15 DEF MarkRunning
    <3>2. row'[j] = [r EXCEPT !.status = "RUNNING"]
      BY <1>10, <3>1
    <3> QED
      BY <1>12, <3>1, <3>2
  <2>2. Contract!Start(j)
    BY <1>3, <1>5, <1>8, <2>1
    DEF HeldStory, StatusStory, Counted, Resumable, Contract!Start, Contract!Runnable, Contract!Open
  <2> QED
    BY <1>1, <2>2 DEF Contract!Next
<1>16. CASE MarkSucceeded(s)
  <2>1. q.pc = "markSucceeded" /\ Contract!Move(j, "SUCCEEDED")
    <3>1. q.pc = "markSucceeded" /\ row' = updateJobStatus(j, "SUCCEEDED") /\ announced' = announced
      BY <1>9, <1>16 DEF MarkSucceeded
    <3>2. row'[j] = [r EXCEPT !.status = "SUCCEEDED"]
      BY <1>10, <3>1
    <3> QED
      BY <1>12, <3>1, <3>2
  <2>2. Contract!Succeed(j)
    BY <1>3, <1>5, <1>8, <2>1 DEF HeldStory, StatusStory, Counted, Contract!Succeed
  <2> QED
    BY <1>1, <2>2 DEF Contract!Next
<1>17. CASE MarkFailed(s)
  <2>1. q.pc = "markFailed" /\ Contract!Move(j, "FAILED")
    <3>1. q.pc = "markFailed" /\ row' = updateJobStatus(j, "FAILED") /\ announced' = announced
      BY <1>9, <1>17 DEF MarkFailed
    <3>2. row'[j] = [r EXCEPT !.status = "FAILED"]
      BY <1>10, <3>1
    <3> QED
      BY <1>12, <3>1, <3>2
  <2>2. r.status = "RUNNING" /\ r.attempts >= m
    BY <1>3, <2>1 DEF HeldStory, StatusStory, LogStory, Counted
  <2>3. Contract!GiveUp(j)
    BY <1>8, <2>1, <2>2 DEF Contract!GiveUp
  <2> QED
    BY <1>1, <2>3 DEF Contract!Next
<1>18. CASE Count(s)
  <2>1. q.pc = "count" /\ announced' = announced /\ row' = incrementAttempts(j)
    BY <1>18 DEF Count, Reject, TypeOK, Faults
  <2>2. row'[j] = [r EXCEPT !.attempts = @ + 1]
    BY <1>1, <2>1, WrittenRow
  <2>3. row'[j].status = r.status /\ row'[j].attempts = r.attempts + 1
    BY <1>2, <2>2 DEF Row
  <2>4. statusBar' = statusBar
    BY <1>1, <2>3 DEF statusBar
  <2>5. triesBar' = [triesBar EXCEPT ![j] = @ + 1]
    BY <1>1, <2>3 DEF triesBar
  <2>6. r.status = "RUNNING" /\ r.attempts < starts[j]
    BY <1>3, <1>5, <2>1 DEF HeldStory, StatusStory, Counted
  <2>7. Contract!Miss(j)
    BY <1>1, <1>7, <1>8, <2>1, <2>4, <2>5, <2>6 DEF Contract!Miss
  <2> QED
    BY <1>1, <2>7 DEF Contract!Next
<1>19. ASSUME NEW step, NEW next, NEW event \in {"completed", "failed"}, Announce(s, step, next, event),
              r.status = (IF event = "completed" THEN "SUCCEEDED" ELSE "FAILED"),
              a.completed + a.failed <= n
       PROVE  Contract!Next
  <2>1. row' = row /\ announced' = dispatchEvent(j, event)
    BY <1>19 DEF Announce, Resolve, Reject, TypeOK, Faults
  <2>2. statusBar' = statusBar /\ triesBar' = triesBar
    BY <2>1 DEF statusBar, triesBar
  <2>3. Contract!Tell(j, event)
    BY <1>1, <1>7, <1>8, <1>19, <2>1, <2>2 DEF Contract!Tell, dispatchEvent
  <2> QED
    BY <1>1, <2>3 DEF Contract!Next
<1>20. CASE AnnounceDone(s)
  <2>1. q.pc = "announceDone" /\ Announce(s, "announceDone", "ack", "completed")
    BY <1>20 DEF AnnounceDone, Announce
  <2>2. r.status = "SUCCEEDED"
    BY <1>3, <2>1 DEF HeldStory, StatusStory
  <2> QED
    BY <1>6, <1>19, <2>1, <2>2
<1>21. CASE AnnounceFailed(s)
  <2>1. q.pc = "announceFailed" /\ Announce(s, "announceFailed", "nack", "failed")
    BY <1>21 DEF AnnounceFailed, Announce
  <2>2. r.status = "FAILED"
    BY <1>3, <2>1 DEF HeldStory, StatusStory
  <2> QED
    BY <1>6, <1>19, <2>1, <2>2
<1> QED
  BY <1>13, <1>14, <1>15, <1>16, <1>17, <1>18, <1>20, <1>21 DEF Process

LEMMA ContractRest ==
  ASSUME TypeOK,
         \/ \E p \in Procs : Crash(p)
         \/ \E j \in Jobs : LoseLock(j) \/ QueueTimer(j) \/ Trim(j)
  PROVE  Contract!Next \/ UNCHANGED Contract!cvars
<1>1. row' = row /\ cancel' = cancel /\ starts' = starts /\ announced' = announced
  BY DEF Crash, LoseLock, QueueTimer, ExpireLock, StalledCheck, EndBackoff, Trim, QueueStep
<1>2. statusBar' = statusBar /\ triesBar' = triesBar /\ acceptedBar' = acceptedBar
  BY <1>1 DEF statusBar, triesBar, acceptedBar
<1>3. ASSUME NEW p \in Procs, Crash(p) PROVE Contract!Next
  <2>1. faults'.crash = faults.crash + 1
    BY <1>3 DEF Crash, TypeOK, Faults
  <2>2. Contract!Lose
    BY <1>1, <1>2, <2>1 DEF Contract!Lose
  <2> QED
    BY <2>2 DEF Contract!Next
<1>4. ASSUME NEW j \in Jobs, LoseLock(j) \/ QueueTimer(j) \/ Trim(j)
      PROVE  UNCHANGED Contract!cvars
  <2>1. faults'.crash = faults.crash
    BY <1>4
    DEF LoseLock, QueueTimer, ExpireLock, StalledCheck, EndBackoff, Trim, QueueStep, TypeOK, Faults
  <2> QED
    BY <1>1, <1>2, <2>1, StutterKept
<1> QED
  BY <1>3, <1>4

LEMMA ContractStep ==
  ASSUME TypeOK, AccountsInv, LockProtects, StoryInv, Smooth, Smooth', Next
  PROVE  Contract!Next \/ UNCHANGED Contract!cvars
<1>1. Protected /\ faults'.db = 0 /\ \A i \in Jobs : Tale(i)
  BY DEF LockProtects, StoryInv, Smooth, Undisturbed
<1> QED
  BY <1>1, ContractApi, ContractCancel, ContractTake, ContractProcess, ContractRest
  DEF Next, ApiStep

LEMMA ContractInit == Init => Contract!Init
BY DEF Init, NoRow, Contract!Init, statusBar, triesBar, acceptedBar

\* ImplementsContract: a behaviour in which no call of a worker rejects, no live slot
\* loses its lock and no cancellation precedes the end of its POST keeps what
\* JobContract promises, whatever number of worker processes crash and of
\* requests are cut off half way.
THEOREM KeepsContract == Spec /\ []Smooth => ImplementsContract
<1>1. /\ TypeOK /\ AccountsInv /\ LockProtects /\ StoryInv /\ Smooth /\ Smooth' /\ [Next]_vars
      => [Contract!Next]_Contract!cvars
  <2>1. ASSUME UNCHANGED vars PROVE UNCHANGED Contract!cvars
    BY <2>1 DEF vars, Contract!cvars, statusBar, triesBar, acceptedBar
  <2> QED
    BY <2>1, ContractStep
<1> QED
  BY <1>1, ContractInit, TypeCorrect, AccountsAlways, LockProtectsInvariant, StoryAlways, PTL
  DEF Spec, ImplementsContract, Contract!Spec

\* The budgets of faults are kept.
Budgeted ==
  faults.db <= MaxDbErrors /\ faults.lock <= MaxLockLosses /\ faults.early <= MaxEarlyCancels

LEMMA BudgetsKept == Spec => []Budgeted
<1>1. Init => Budgeted
  BY BudgetAssumption DEF BudgetAssumption, Init, Budgeted
<1>2. ASSUME TypeOK, Budgeted, Next PROVE Budgeted'
  <2>1. \/ faults' \in {faults, [faults EXCEPT !.crash = @ + 1], [faults EXCEPT !.api = @ + 1]}
        \/ faults.db < MaxDbErrors /\ faults' = [faults EXCEPT !.db = @ + 1]
        \/ faults.lock < MaxLockLosses /\ faults' = [faults EXCEPT !.lock = @ + 1]
        \/ faults.early < MaxEarlyCancels /\ faults' = [faults EXCEPT !.early = @ + 1]
    BY <1>2 DEF Next, CreateRow, ApiStep, Enqueue, AbortPost,
           CancelRead, CancelNext, CancelLookup, CancelRemove, CancelUpdate, CancelAbort,
           TakeJob, Process, MarkRunning, LogStarted, Handle, MarkSucceeded, LogCompleted,
           AnnounceDone, Count, LogFailed, MarkFailed, LogExhausted, AnnounceFailed, Announce,
           Await, Resolve, Reject, Ack, Nack, Crash,
           LoseLock, QueueTimer, ExpireLock, StalledCheck, EndBackoff, Trim, QueueStep
  <2> QED
    <3>1. CASE faults' \in {faults, [faults EXCEPT !.crash = @ + 1], [faults EXCEPT !.api = @ + 1]}
      BY <1>2, <3>1 DEF Budgeted, TypeOK, Faults
    <3>2. CASE faults.db < MaxDbErrors /\ faults' = [faults EXCEPT !.db = @ + 1]
      BY <1>2, <3>2, BudgetAssumption DEF BudgetAssumption, Budgeted, TypeOK, Faults
    <3>3. CASE faults.lock < MaxLockLosses /\ faults' = [faults EXCEPT !.lock = @ + 1]
      BY <1>2, <3>3, BudgetAssumption DEF BudgetAssumption, Budgeted, TypeOK, Faults
    <3>4. CASE faults.early < MaxEarlyCancels /\ faults' = [faults EXCEPT !.early = @ + 1]
      BY <1>2, <3>4, BudgetAssumption DEF BudgetAssumption, Budgeted, TypeOK, Faults
    <3> QED
      BY <2>1, <3>1, <3>2, <3>3, <3>4
<1>3. Budgeted /\ UNCHANGED vars => Budgeted'
  BY DEF Budgeted, vars
<1> QED
  BY <1>1, <1>2, <1>3, TypeCorrect, PTL DEF Spec

\* The refinement that the run checks: where those three faults do not occur,
\* the specification implements the contract.
COROLLARY LifecycleKeepsContract ==
  ASSUME MaxDbErrors = 0, MaxLockLosses = 0, MaxEarlyCancels = 0
  PROVE  Spec => ImplementsContract
<1>1. TypeOK /\ Budgeted => Smooth
  BY DEF TypeOK, Faults, Budgeted, Smooth, Undisturbed
<1> QED
  BY <1>1, BudgetsKept, TypeCorrect, KeepsContract, PTL
-----------------------------------------------------------------------------
(***************************************************************************)
(* The feed.  What a viewer shows of a job that has its verdict follows    *)
(* from the last event of the job: as long as the queue tolerates the      *)
(* crashes, a row that holds SUCCEEDED or FAILED while no slot, queue or   *)
(* request is going to write it again was last published as it stands.     *)
(***************************************************************************)
\* A slot that has published the last status it writes.
Reported(q) == q.pc \in {"announceDone", "ack", "announceFailed"} \/ (q.pc = "nack" /\ q.exhausted)

\* The verdict is in the row and was published.
Final(j) ==
  /\ row[j].status \in {"SUCCEEDED", "FAILED"}
  /\ \/ entry[j].holder \in Slots /\ Reported(run[entry[j].holder])
     \/ Finished(entry[j])
     \/ /\ entry[j].st = "absent" /\ Published(j) /\ ~ Removing(j)
        /\ faults.api = 0 \/ ~ HalfCancelled(j)

Pending(events, j) == \E i \in DOMAIN events : events[i].job = j

\* The last event of j, if there is one, tells status or is in doubt.
EndsWith(events, j, status) ==
  \A i \in DOMAIN events :
    events[i].job = j /\ (\A k \in DOMAIN events : k > i => events[k].job # j) =>
      events[i].status \in {status, "UNSURE"}

\* What a viewer shows, and is going to show, if the job's status is status.
Warranted(w, status) ==
  w.shown \in {status, "UNSURE", "NONE"} /\ w.asked \in {status, "UNSURE", "NONE", "SENT"}

Shows(v) ==
  LET j == Watches[v] IN
  Final(j) =>
    /\ EndsWith(bus, j, row[j].status)
    /\ ~ Pending(bus, j) => Warranted(view[v], row[j].status)

FeedType == bus \in Seq(Event) /\ room \subseteq Viewers /\ view \in [Viewers -> View]

FeedInv ==
  /\ FeedType
  /\ Tolerated => \A v \in Viewers : Shows(v)

LEMMA FeedRefines == FeedSpec => Spec
<1>1. FeedInit => Init
  BY DEF FeedInit
<1>2. FeedNext => [Next]_vars
  BY DEF FeedNext, ProcessAndEmit, CrashUnsent, Silent, Forward, LoseEvent, subscribe, unsubscribe,
         monitorJob, getJob, connectWebSocket, monitorFailed, Next
<1>3. UNCHANGED <<vars, feed>> => UNCHANGED vars
  OBVIOUS
<1> QED
  BY <1>1, <1>2, <1>3, PTL DEF FeedSpec, Spec

-----------------------------------------------------------------------------
\* What the operations on the events in flight do to the last event of a job.
LEMMA EventAppended ==
  ASSUME NEW events \in Seq(Event), NEW e \in Event, NEW j, NEW status
  PROVE  /\ Append(events, e) \in Seq(Event)
         /\ e.job = j => Pending(Append(events, e), j) /\ EndsWith(Append(events, e), j, e.status)
         /\ e.job # j =>
              /\ EndsWith(events, j, status) => EndsWith(Append(events, e), j, status)
              /\ Pending(events, j) => Pending(Append(events, e), j)
<1> DEFINE n == Len(events)
           more == Append(events, e)
<1>1. /\ n \in Nat /\ more \in Seq(Event) /\ DOMAIN events = 1..n /\ DOMAIN more = 1..(n + 1)
      /\ \A i \in 1..n : more[i] = events[i]
      /\ more[n + 1] = e
  OBVIOUS
<1> HIDE DEF n, more
<1>2. ASSUME e.job = j PROVE Pending(more, j) /\ EndsWith(more, j, e.status)
  <2>1. n + 1 \in DOMAIN more /\ \A i \in DOMAIN more : i # n + 1 => n + 1 > i
    BY <1>1
  <2> QED
    BY <1>1, <1>2, <2>1 DEF Pending, EndsWith
<1>3. ASSUME e.job # j, EndsWith(events, j, status) PROVE EndsWith(more, j, status)
  <2> SUFFICES ASSUME NEW i \in DOMAIN more, more[i].job = j,
                      \A k \in DOMAIN more : k > i => more[k].job # j
               PROVE  more[i].status \in {status, "UNSURE"}
    BY DEF EndsWith
  <2>1. i \in 1..n
    BY <1>1, <1>3
  <2>2. \A k \in 1..n : k \in DOMAIN more /\ more[k] = events[k]
    BY <1>1
  <2> QED
    BY <1>1, <1>3, <2>1, <2>2 DEF EndsWith
<1>4. ASSUME Pending(events, j) PROVE Pending(more, j)
  BY <1>1, <1>4 DEF Pending
<1> QED
  BY <1>1, <1>2, <1>3, <1>4 DEF more

LEMMA EventTaken ==
  ASSUME NEW events \in Seq(Event), events # <<>>, NEW j, NEW status
  PROVE  /\ Tail(events) \in Seq(Event)
         /\ Head(events) \in Event
         /\ EndsWith(events, j, status) => EndsWith(Tail(events), j, status)
         /\ ~ Pending(Tail(events), j) /\ Head(events).job # j => ~ Pending(events, j)
         /\ ~ Pending(Tail(events), j) /\ Head(events).job = j /\ EndsWith(events, j, status) =>
              Head(events).status \in {status, "UNSURE"}
<1> DEFINE n == Len(events)
           rest == Tail(events)
<1>1. /\ n \in Nat \ {0} /\ rest \in Seq(Event) /\ Head(events) = events[1] /\ events[1] \in Event
      /\ DOMAIN events = 1..n /\ DOMAIN rest = 1..(n - 1)
      /\ \A i \in 1..(n - 1) : rest[i] = events[i + 1]
  OBVIOUS
<1> HIDE DEF n, rest
<1>2. \A k \in DOMAIN events : k > 1 => k - 1 \in DOMAIN rest /\ rest[k - 1] = events[k]
  BY <1>1
<1>3. ASSUME EndsWith(events, j, status) PROVE EndsWith(rest, j, status)
  <2> SUFFICES ASSUME NEW i \in DOMAIN rest, rest[i].job = j,
                      \A k \in DOMAIN rest : k > i => rest[k].job # j
               PROVE  rest[i].status \in {status, "UNSURE"}
    BY DEF EndsWith
  <2>1. i + 1 \in DOMAIN events /\ events[i + 1] = rest[i]
    BY <1>1
  <2>2. ASSUME NEW k \in DOMAIN events, k > i + 1 PROVE events[k].job # j
    <3>1. k - 1 \in DOMAIN rest /\ k - 1 > i /\ rest[k - 1] = events[k]
      BY <1>1, <1>2, <2>2
    <3> QED
      BY <3>1
  <2> QED
    BY <1>3, <2>1, <2>2 DEF EndsWith
<1>4. ASSUME ~ Pending(rest, j)
      PROVE  \A k \in DOMAIN events : k > 1 => events[k].job # j
  BY <1>2, <1>4 DEF Pending
<1>5. ASSUME ~ Pending(rest, j), events[1].job # j PROVE ~ Pending(events, j)
  <2>1. \A k \in DOMAIN events : k = 1 \/ k > 1
    BY <1>1
  <2> QED
    BY <1>4, <1>5, <2>1 DEF Pending
<1>6. ASSUME ~ Pending(rest, j), events[1].job = j, EndsWith(events, j, status)
      PROVE  events[1].status \in {status, "UNSURE"}
  <2>1. 1 \in DOMAIN events
    BY <1>1
  <2> QED
    BY <1>4, <1>6, <2>1 DEF EndsWith
<1> QED
  BY <1>1, <1>3, <1>5, <1>6 DEF rest

LEMMA EventsUnsent ==
  ASSUME NEW events \in Seq(Event), NEW sent \in 0..Len(events), NEW gone,
         gone = {events[i].job : i \in (sent + 1)..Len(events)}, NEW j, NEW status
  PROVE  LET left == Doubted(SubSeq(events, 1, sent), gone) IN
         /\ left \in Seq(Event)
         /\ j \in gone => EndsWith(left, j, status)
         /\ j \notin gone =>
              /\ EndsWith(events, j, status) => EndsWith(left, j, status)
              /\ Pending(events, j) => Pending(left, j)
<1> DEFINE n == Len(events)
           front == SubSeq(events, 1, sent)
           left == Doubted(front, gone)
<1>1. /\ n \in Nat /\ DOMAIN events = 1..n /\ sent <= n /\ sent \in Nat
      /\ \A i \in 1..n : events[i] \in Event
  OBVIOUS
<1>2. DOMAIN front = 1..sent /\ \A i \in 1..sent : front[i] = events[i]
  BY <1>1
<1>3. /\ DOMAIN left = 1..sent
      /\ \A i \in 1..sent :
           left[i] = IF events[i].job \in gone THEN [events[i] EXCEPT !.status = "UNSURE"] ELSE events[i]
  BY <1>2 DEF Doubted
<1> HIDE DEF left, front, n
<1>4. ASSUME NEW i \in 1..sent
      PROVE  /\ left[i] \in Event
             /\ left[i].job = events[i].job
             /\ events[i].job \in gone => left[i].status = "UNSURE"
             /\ events[i].job \notin gone => left[i].status = events[i].status
  <2>1. events[i] \in Event
    BY <1>1
  <2>2. CASE events[i].job \in gone
    <3>1. left[i] = [events[i] EXCEPT !.status = "UNSURE"]
      BY <1>3, <2>2
    <3> QED
      BY <2>1, <2>2, <3>1 DEF Event
  <2>3. CASE events[i].job \notin gone
    <3>1. left[i] = events[i]
      BY <1>3, <2>3
    <3> QED
      BY <2>1, <2>3, <3>1
  <2> QED
    BY <2>2, <2>3
<1>5. left \in Seq(Event)
  <2>1. left = [i \in 1..sent |-> left[i]]
    BY <1>3 DEF left, Doubted
  <2>2. left \in [1..sent -> Event]
    BY <1>4, <2>1
  <2> QED
    BY <1>1, <2>2
<1>6. ASSUME j \in gone PROVE EndsWith(left, j, status)
  BY <1>3, <1>4, <1>6 DEF EndsWith
<1>7. ASSUME j \notin gone, NEW i \in DOMAIN events, events[i].job = j PROVE i \in 1..sent
  BY <1>1, <1>7 DEF n
<1>8. ASSUME j \notin gone, EndsWith(events, j, status) PROVE EndsWith(left, j, status)
  <2> SUFFICES ASSUME NEW i \in DOMAIN left, left[i].job = j,
                      \A k \in DOMAIN left : k > i => left[k].job # j
               PROVE  left[i].status \in {status, "UNSURE"}
    BY DEF EndsWith
  <2>1. i \in 1..sent /\ i \in DOMAIN events /\ events[i].job = j /\ left[i].status = events[i].status
    BY <1>1, <1>3, <1>4, <1>8
  <2>2. \A k \in DOMAIN events : k > i => events[k].job # j
    BY <1>3, <1>4, <1>7, <1>8
  <2> QED
    BY <1>8, <2>1, <2>2 DEF EndsWith
<1>9. ASSUME j \notin gone, Pending(events, j) PROVE Pending(left, j)
  BY <1>3, <1>4, <1>7, <1>9 DEF Pending
<1> QED
  BY <1>5, <1>6, <1>8, <1>9 DEF left, front

LEMMA DoubtWarranted ==
  ASSUME NEW w \in View, NEW status
  PROVE  Outdated(w) \in View /\ Warranted(Outdated(w), status)
<1>1. Doubt(w.shown) \in {"UNSURE", "NONE"}
  BY DEF Doubt, View, Heard, JobStatus, Terminal
<1>2. Doubt(w.asked) \in {"UNSURE", "NONE", "SENT"}
  BY DEF Doubt
<1> QED
  BY <1>1, <1>2 DEF Outdated, View, Heard, JobStatus, Warranted

-----------------------------------------------------------------------------
\* A step that leaves alone what Final looks at, makes no verdict final.
LEMMA FinalKept ==
  ASSUME NEW i \in Jobs, Final(i)',
         post'[i] = post[i], row'[i].status = row[i].status, entry'[i].st = entry[i].st,
         faults'.api = 0 => faults.api = 0,
         \A c \in Cancels : cancel[c].job = i /\ cancel[c].pc \in {"update", "error"} =>
                            cancel'[c] = cancel[c],
         entry'[i].holder \in Slots =>
           entry'[i].holder = entry[i].holder /\ run'[entry[i].holder] = run[entry[i].holder]
  PROVE  Final(i)
<1>1. Removing(i) => Removing(i)'
  BY DEF Removing
<1>2. HalfCancelled(i) => HalfCancelled(i)'
  BY DEF HalfCancelled
<1>3. ASSUME entry'[i].holder \in Slots, Reported(run'[entry'[i].holder])
      PROVE  entry[i].holder \in Slots /\ Reported(run[entry[i].holder])
  BY <1>3
<1> QED
  BY <1>1, <1>2, <1>3 DEF Final, Finished, Published

\* An entry that no slot holds and that is still to run is not final.
LEMMA NotFinalAlive ==
  ASSUME NEW i \in Jobs, entry'[i].st \in Alive,
         entry'[i].holder \in Slots => ~ Reported(run'[entry'[i].holder])
  PROVE  ~ Final(i)'
BY DEF Final, Finished, Alive

LEMMA FinalApi ==
  ASSUME TypeOK, NEW j \in Jobs, CreateRow(j) \/ Enqueue(j) \/ AbortPost(j),
         NEW i \in Jobs, Tale(i), Final(i)'
  PROVE  Final(i) /\ row'[i].status = row[i].status
<1>1. CASE i = j
  <2>1. row'[i].status = "QUEUED"
    BY <1>1 DEF CreateRow, Enqueue, AbortPost, TypeOK, Tale, Story
  <2> QED
    BY <2>1 DEF Final
<1>2. CASE i # j
  <2>1. /\ post'[i] = post[i] /\ row'[i] = row[i] /\ entry'[i] = entry[i]
        /\ run' = run /\ cancel' = cancel
        /\ faults'.api = 0 => faults.api = 0
    BY <1>2 DEF CreateRow, Enqueue, AbortPost, TypeOK, Faults
  <2> QED
    BY <2>1, FinalKept
<1> QED
  BY <1>1, <1>2

LEMMA FinalCancel ==
  ASSUME TypeOK, AccountsInv, Protected, NEW c \in Cancels,
         CancelNext(c) \/ CancelAbort(c) \/ \E j \in Jobs : CancelRead(c, j),
         NEW i \in Jobs, Final(i)'
  PROVE  Final(i) /\ row'[i].status = row[i].status
<1>1. /\ post' = post /\ run' = run
      /\ \A d \in Cancels : d # c => cancel'[d] = cancel[d]
      /\ faults'.api = 0 => faults.api = 0
  BY DEF CancelNext, CancelAbort, CancelRead, CancelLookup, CancelRemove, CancelUpdate, TypeOK, Faults
<1>2. CASE cancel[c].pc \in {"idle", "lookup"} \/ cancel[c].job # i
  <2>1. row'[i] = row[i] /\ entry'[i] = entry[i] /\ cancel[c].pc # "error"
    BY <1>2 DEF CancelNext, CancelAbort, CancelRead, CancelLookup, CancelRemove, CancelUpdate, TypeOK
  <2> QED
    BY <1>1, <1>2, <2>1, FinalKept
<1>3. CASE cancel[c].pc = "remove" /\ cancel[c].job = i
  <2>1. row' = row
    BY <1>3 DEF CancelNext, CancelAbort, CancelRead, CancelLookup, CancelRemove, CancelUpdate
  <2>2. \/ entry'[i] = entry[i]
        \/ entry'[i] = Absent /\ cancel'[c].pc = "update" /\ cancel'[c].job = i
    BY <1>3 DEF CancelNext, CancelAbort, CancelRead, CancelLookup, CancelRemove, CancelUpdate, TypeOK
  <2>3. CASE entry'[i] = entry[i]
    BY <1>1, <1>3, <2>1, <2>3, FinalKept
  <2>4. CASE entry'[i] = Absent /\ cancel'[c].pc = "update" /\ cancel'[c].job = i
    BY <2>4, LockAssumption DEF LockAssumption, Final, Finished, Removing, Absent
  <2> QED
    BY <2>2, <2>3, <2>4
<1>4. CASE cancel[c].pc = "update" /\ cancel[c].job = i
  <2>1. entry'[i] = entry[i] /\ entry[i].st = "absent" /\ entry[i].holder \notin Slots
    BY <1>4, StoryAccounts
    DEF CancelNext, CancelAbort, CancelRead, CancelLookup, CancelRemove, CancelUpdate,
        Protected, CancelledLeavesQueue, PastRemove
  <2>2. CASE CancelUpdate(c)
    <3>1. row'[i].status = "CANCELLED"
      BY <1>4, <2>2 DEF CancelUpdate, TypeOK, Row
    <3> QED
      BY <3>1 DEF Final
  <2>3. CASE CancelAbort(c)
    <3>1. row' = row /\ cancel'[c] = [pc |-> "error", job |-> i] /\ faults'.api # 0
      BY <1>4, <2>3 DEF CancelAbort, TypeOK, Faults
    <3> QED
      BY <2>1, <3>1 DEF Final, HalfCancelled, Finished
  <2> QED
    BY <1>4, <2>2, <2>3 DEF CancelNext, CancelRead, CancelLookup, CancelRemove
<1> QED
  BY <1>2, <1>3, <1>4
  DEF CancelNext, CancelAbort, CancelRead, CancelLookup, CancelRemove, CancelUpdate

LEMMA FinalTake ==
  ASSUME TypeOK, NEW s \in Slots, NEW j \in Jobs, TakeJob(s, j),
         NEW i \in Jobs, Tale(i), Final(i)'
  PROVE  Final(i) /\ row'[i].status = row[i].status
<1>1. /\ post' = post /\ row' = row /\ cancel' = cancel /\ faults' = faults
      /\ run[s].job = NoJob
      /\ \A t \in Slots \ {s} : run'[t] = run[t]
      /\ run'[s].pc = "markRunning"
  BY DEF TakeJob, TypeOK
<1>2. CASE i # j
  <2>1. entry'[i] = entry[i] /\ entry[i].holder # s
    BY <1>1, <1>2, NoJobAssumption DEF NoJobAssumption, TakeJob, TypeOK, Tale, Story
  <2> QED
    BY <1>1, <2>1, FinalKept
<1>3. CASE i = j
  <2>1. entry'[i].st = "active" /\ entry'[i].holder = s
    BY <1>3 DEF TakeJob, Take, TypeOK, Entry
  <2> QED
    BY <1>1, <2>1, NotFinalAlive DEF Alive, Reported
<1> QED
  BY <1>2, <1>3

LEMMA FinalCrash ==
  ASSUME TypeOK, NEW p \in Procs, Crash(p), NEW i \in Jobs, Final(i)'
  PROVE  Final(i) /\ row'[i].status = row[i].status
<1>1. /\ post' = post /\ row' = row /\ cancel' = cancel /\ entry'[i].st = entry[i].st
      /\ faults'.api = faults.api
  BY DEF Crash, TypeOK, Entry, Faults
<1>2. ASSUME entry'[i].holder \in Slots
      PROVE  entry'[i].holder = entry[i].holder /\ run'[entry[i].holder] = run[entry[i].holder]
  BY <1>2, LockAssumption DEF LockAssumption, Crash, TypeOK, Entry
<1> QED
  BY <1>1, <1>2, FinalKept

LEMMA FinalQueue ==
  ASSUME TypeOK, AccountsInv, faults'.lock = 0, faults.crash <= MaxStalledCount,
         NEW j \in Jobs, LoseLock(j) \/ QueueTimer(j) \/ Trim(j),
         NEW i \in Jobs, Tale(i), Final(i)'
  PROVE  Final(i) /\ row'[i].status = row[i].status
<1>1. ~ LoseLock(j)
  BY DEF LoseLock, TypeOK, Faults
<1>2. /\ post' = post /\ row' = row /\ cancel' = cancel /\ run' = run /\ faults' = faults
      /\ i # j => entry'[i] = entry[i]
  BY <1>1 DEF QueueTimer, ExpireLock, StalledCheck, EndBackoff, Trim, QueueStep, TypeOK
<1>3. CASE i # j
  BY <1>2, <1>3, FinalKept
<1>4. CASE i = j
  <2>1. CASE ExpireLock(j)
    <3>1. entry'[i].st = entry[i].st /\ entry'[i].holder \notin Slots
      BY <1>4, <2>1, LockAssumption
      DEF LockAssumption, ExpireLock, QueueStep, ReleaseLock, TypeOK, Entry
    <3> QED
      BY <1>2, <3>1, FinalKept
  <2>2. CASE StalledCheck(j)
    <3>1. entry[i].st = "active" /\ entry[i].holder \notin Slots /\ entry'[i] = Stall(entry[i])
      BY <1>4, <2>2, LockAssumption DEF LockAssumption, StalledCheck, QueueStep, TypeOK
    <3>2. Cut(entry[i]) <= faults.crash
      BY <3>1 DEF Tale, Story, Alive, FreeStory
    <3>3. entry[i].stalls + 1 <= MaxStalledCount
      BY <3>1, <3>2, StalledAssumption DEF StalledAssumption, Cut, TypeOK, Entry, Faults
    <3>4. entry'[i].st = "waiting" /\ entry'[i].holder \notin Slots
      BY <3>1, <3>3, StalledAssumption DEF StalledAssumption, Stall, TypeOK, Entry
    <3> QED
      BY <3>4, NotFinalAlive DEF Alive
  <2>3. CASE EndBackoff(j)
    <3>1. entry'[i].st = "waiting" /\ entry'[i].holder = entry[i].holder /\ entry[i].st = "delayed"
      BY <1>4, <2>3 DEF EndBackoff, QueueStep, Promote, TypeOK, Entry
    <3> QED
      BY <3>1, StoryAccounts, NotFinalAlive DEF Alive
  <2>4. CASE Trim(j)
    BY <1>2, <1>4, <2>4 DEF Trim, Final
  <2> QED
    BY <1>1, <2>1, <2>2, <2>3, <2>4 DEF QueueTimer
<1> QED
  BY <1>3, <1>4

\* What a step of the processor publishes.
Due(s) == {e \in Emissions : e.from = run[s].pc /\ e.to = run'[s].pc}

LEMMA FinalProcess ==
  ASSUME TypeOK, AccountsInv, Protected, faults'.db = 0, NEW s \in Slots, Process(s),
         NEW i \in Jobs, Tale(i), Final(i)'
  PROVE  \/ Final(i) /\ row'[i].status = row[i].status /\ (run[s].job = i => Due(s) = {})
         \/ run[s].job = i /\ Due(s) # {} /\ \A e \in Due(s) : e.status = row'[i].status
<1> DEFINE j == run[s].job
<1>1. /\ post' = post /\ cancel' = cancel /\ faults'.api = faults.api
      /\ run[s].pc # "idle" /\ j \in Jobs
      /\ entry[j].st = "active" /\ entry[j].holder = s
      /\ \A t \in Slots : t # s => run'[t] = run[t]
  <2>1. run[s].pc # "idle"
    BY DEF Process, MarkRunning, LogStarted, Handle, MarkSucceeded, LogCompleted, AnnounceDone,
           Count, LogFailed, MarkFailed, LogExhausted, AnnounceFailed, Announce, Await, Ack, Nack
  <2>2. faults'.api = faults.api
    BY DEF Process, MarkRunning, LogStarted, Handle, MarkSucceeded, LogCompleted, AnnounceDone,
           Count, LogFailed, MarkFailed, LogExhausted, AnnounceFailed, Announce, Await, Ack, Nack,
           Resolve, Reject, TypeOK, Faults
  <2> QED
    BY <2>1, <2>2, ProcessFrame DEF Protected, WorkersHoldLocks
<1>2. CASE i # j
  <2>1. row'[i] = row[i] /\ entry'[i] = entry[i]
    BY <1>2, ProcessFrame
  <2>2. entry[i].holder # s
    BY <1>1, <1>2 DEF Tale, Story
  <2> QED
    BY <1>1, <1>2, <2>1, <2>2, FinalKept
<1>3. CASE i = j
  <2>1. /\ entry[i].made < MaxAttempts[i]
        /\ row[i] \in Row /\ entry[i].made \in Nat /\ MaxAttempts[i] \in Nat
        /\ HeldStory(row[i], entry[i], announced[i], MaxAttempts[i], faults.crash, run[s])
    <3>1. row[i] \in Row /\ entry[i].made \in Nat /\ MaxAttempts[i] \in Nat
      BY AttemptsAssumption DEF AttemptsAssumption, TypeOK, Entry
    <3> QED
      BY <1>1, <1>3, <3>1, StoryAccounts DEF Tale, Story, Alive
  <2>2. ASSUME row'[i].status = row[i].status, Reported(run[s]), run[s].pc \notin {e.from : e \in Emissions}
        PROVE  Final(i) /\ row'[i].status = row[i].status /\ (run[s].job = i => Due(s) = {})
    BY <1>1, <1>3, <2>2 DEF Final, Due
  <2>3. {e.from : e \in Emissions} = {"logStarted", "logCompleted", "logExhausted"}
    BY DEF Emissions, Emission
  <2>7. /\ Emission("logCompleted", "announceDone", "SUCCEEDED") \in Emissions
        /\ \A e \in Emissions : e.from = "logCompleted" => e.status = "SUCCEEDED"
        /\ Emission("logCompleted", "announceDone", "SUCCEEDED").from = "logCompleted"
        /\ Emission("logCompleted", "announceDone", "SUCCEEDED").to = "announceDone"
    BY DEF Emissions, Emission
  <2>8. /\ Emission("logExhausted", "announceFailed", "FAILED") \in Emissions
        /\ \A e \in Emissions : e.from = "logExhausted" => e.status = "FAILED"
        /\ Emission("logExhausted", "announceFailed", "FAILED").from = "logExhausted"
        /\ Emission("logExhausted", "announceFailed", "FAILED").to = "announceFailed"
    BY DEF Emissions, Emission
  <2>4. CASE Ack(s)
    BY <2>2, <2>3, <2>4 DEF Ack, Reported
  <2>5. CASE Nack(s)
    <3>1. run[s].pc = "nack" /\ row' = row /\ entry'[i] = Fail(entry[i], MaxAttempts[i])
      BY <1>1, <1>3, <2>5 DEF Nack, TypeOK, attemptsOption
    <3>2. entry'[i].holder \notin Slots
      BY <3>1, LockAssumption DEF LockAssumption, Fail
    <3>3. ~ (entry[i].made + 1 < MaxAttempts[i])
      BY <3>1, <3>2, NotFinalAlive DEF Fail, Alive
    <3>4. entry[i].made < row[i].attempts /\ (run[s].exhausted <=> row[i].attempts >= MaxAttempts[i])
      BY <2>1, <3>1 DEF HeldStory, Counted
    <3>5. run[s].exhausted
      BY <2>1, <3>3, <3>4 DEF Row
    <3> QED
      BY <2>2, <2>3, <3>1, <3>5 DEF Reported
  <2>6. CASE ~ Ack(s) /\ ~ Nack(s)
    <3>1. /\ run'[s].job = i
          /\ HeldStory(row'[i], entry[i], announced'[i], MaxAttempts[i], faults.crash, run'[s])
      BY <1>1, <1>3, <2>1, <2>6, HeldGoesOn
    <3>2. entry' = entry
      BY <2>6
      DEF Process, MarkRunning, LogStarted, Handle, MarkSucceeded, LogCompleted, AnnounceDone,
          Count, LogFailed, MarkFailed, LogExhausted, AnnounceFailed, Await, Announce
    <3>3. Reported(run'[s])
      BY <1>1, <1>3, <3>2, NotFinalAlive DEF Alive
    <3>a. ASSUME NEW step, NEW next, NEW write, Await(s, step, next, write)
          PROVE  run[s].pc = step /\ run'[s].pc = next /\ run'[s].exhausted = run[s].exhausted
      <4>1. run[s].pc = step /\ run'[s] = [run[s] EXCEPT !.pc = next] /\ run[s] \in Run
        BY <3>a, Resolved DEF TypeOK
      <4> QED
        BY <4>1 DEF Run
    <3>b. ASSUME NEW step, NEW next, NEW event \in {"completed", "failed"},
                 Announce(s, step, next, event)
          PROVE  run[s].pc = step /\ run'[s].exhausted = run[s].exhausted /\ run'[s].pc = next /\ row' = row
      <4>1. /\ run[s].pc = step /\ run'[s] = [run[s] EXCEPT !.pc = next] /\ run[s] \in Run
            /\ row' = row
        BY <3>b DEF TypeOK, Faults, Announce, Resolve, Reject
      <4> QED
        BY <4>1 DEF Run
    <3>4. CASE LogCompleted(s)
      <4>1. run[s].pc = "logCompleted" /\ run'[s].pc = "announceDone"
        BY <3>4, <3>a DEF LogCompleted
      <4>2. row'[i].status = "SUCCEEDED"
        BY <3>1, <4>1 DEF HeldStory, StatusStory
      <4> QED
        BY <1>3, <4>1, <4>2, <2>7 DEF Due
    <3>5. CASE LogExhausted(s)
      <4>1. run[s].pc = "logExhausted" /\ run'[s].pc = "announceFailed"
        BY <3>5, <3>a DEF LogExhausted
      <4>2. row'[i].status = "FAILED"
        BY <3>1, <4>1 DEF HeldStory, StatusStory
      <4> QED
        BY <1>3, <4>1, <4>2, <2>8 DEF Due
    <3>6. CASE AnnounceDone(s)
      <4>1. run[s].pc = "announceDone" /\ row' = row
        BY <3>6, <3>b DEF AnnounceDone
      <4> QED
        BY <2>2, <2>3, <4>1 DEF Reported
    <3>7. CASE AnnounceFailed(s)
      <4>1. run[s].pc = "announceFailed" /\ row' = row
        BY <3>7, <3>b DEF AnnounceFailed
      <4> QED
        BY <2>2, <2>3, <4>1 DEF Reported
    <3>8. ASSUME MarkRunning(s) \/ LogStarted(s) \/ MarkSucceeded(s) \/ MarkFailed(s)
          PROVE  ~ Reported(run'[s])
      BY <3>8, <3>a DEF MarkRunning, LogStarted, MarkSucceeded, MarkFailed, Reported
    <3>9. ASSUME Handle(s) \/ Count(s) PROVE ~ Reported(run'[s])
      BY <3>9 DEF Handle, Count, Reject, Reported, TypeOK, Run, Faults
    <3>10. ASSUME LogFailed(s) PROVE ~ Reported(run'[s])
      <4>1. /\ run'[s].exhausted = run[s].exhausted
            /\ run'[s].pc = IF run[s].exhausted THEN "markFailed" ELSE "nack"
        BY <3>10, <3>a DEF LogFailed
      <4> QED
        BY <4>1 DEF Reported
    <3> QED
      BY <2>6, <3>3, <3>4, <3>5, <3>6, <3>7, <3>8, <3>9, <3>10 DEF Process
  <2> QED
    BY <2>4, <2>5, <2>6
<1> QED
  BY <1>2, <1>3

\* A step of the processor publishes what is due, which is at most one event.
LEMMA Publishes ==
  ASSUME TypeOK, NEW s \in Slots, ProcessAndEmit(s)
  PROVE  /\ Due(s) = {} => bus' = bus
         /\ Due(s) # {} => \E e \in Due(s) :
              /\ bus' = Append(bus, [job |-> run[s].job, status |-> e.status])
              /\ [job |-> run[s].job, status |-> e.status] \in Event
<1>1. run[s].pc # "idle"
  BY DEF ProcessAndEmit, Process, MarkRunning, LogStarted, Handle, MarkSucceeded, LogCompleted,
         AnnounceDone, Count, LogFailed, MarkFailed, LogExhausted, AnnounceFailed, Announce, Await,
         Ack, Nack
<1>2. run[s].job \in Jobs
  BY <1>1, BusySlot
<1>3. bus' = IF Due(s) = {} THEN bus
             ELSE emitJobUpdate(run[s].job, (CHOOSE e \in Due(s) : TRUE).status)
  BY DEF ProcessAndEmit, Due
<1>4. ASSUME Due(s) # {} PROVE (CHOOSE e \in Due(s) : TRUE) \in Due(s)
  BY <1>4
<1>5. \A e \in Due(s) : e.status \in {"RUNNING", "SUCCEEDED", "FAILED"}
  BY DEF Due, Emissions, Emission
<1>6. \A e \in Due(s) : [job |-> run[s].job, status |-> e.status] \in Event
  BY <1>2, <1>5 DEF Event
<1> QED
  BY <1>3, <1>4, <1>6 DEF emitJobUpdate

\* What the theorems on the lifecycle give a step that the queue tolerates.
LEMMA ToleratedBefore ==
  ASSUME TypeOK, TypeOK', LockProtects, StoryInv, Next, Tolerated'
  PROVE  /\ Tolerated /\ Protected
         /\ \A i \in Jobs : Tale(i)
         /\ faults'.db = 0 /\ faults'.lock = 0
<1>1. Smooth
  BY SmoothBefore DEF Tolerated
<1>2. faults.crash <= MaxStalledCount
  BY CrashesCount, StalledAssumption DEF StalledAssumption, TypeOK, Faults, Tolerated
<1> QED
  BY <1>1, <1>2 DEF StoryInv, LockProtects, Tolerated, Smooth, Undisturbed

\* Every viewer watches a job.
LEMMA WatchedJob == \A v \in Viewers : Watches[v] \in Jobs
BY ViewerAssumption DEF ViewerAssumption

LEMMA FeedProcess ==
  ASSUME TypeOK, TypeOK', AccountsInv, LockProtects, StoryInv, FeedInv,
         NEW s \in Slots, ProcessAndEmit(s)
  PROVE  FeedInv'
<1>1. Process(s) /\ Next /\ room' = room /\ view' = view
  BY DEF ProcessAndEmit, Next
<1>2. FeedType'
  BY <1>1, Publishes, EventAppended DEF FeedInv, FeedType
<1>3. ASSUME Tolerated', NEW v \in Viewers PROVE Shows(v)'
  <2> DEFINE j == Watches[v]
  <2>1. j \in Jobs /\ bus \in Seq(Event) /\ Shows(v)
    BY <1>1, <1>3, ToleratedBefore, WatchedJob DEF FeedInv, FeedType
  <2> SUFFICES ASSUME Final(j)'
               PROVE  /\ EndsWith(bus', j, row'[j].status)
                      /\ ~ Pending(bus', j) => Warranted(view[v], row'[j].status)
    BY <1>1 DEF Shows
  <2> HIDE DEF j
  <2>2. \/ Final(j) /\ row'[j].status = row[j].status /\ (run[s].job = j => Due(s) = {})
        \/ run[s].job = j /\ Due(s) # {} /\ \A e \in Due(s) : e.status = row'[j].status
    BY <1>1, <1>3, <2>1, ToleratedBefore, FinalProcess
  <2>3. CASE Final(j) /\ row'[j].status = row[j].status /\ (run[s].job = j => Due(s) = {})
    <3>1. EndsWith(bus, j, row[j].status) /\ (~ Pending(bus, j) => Warranted(view[v], row[j].status))
      BY <2>1, <2>3 DEF Shows, j
    <3>2. CASE Due(s) = {}
      BY <2>3, <3>1, <3>2, Publishes
    <3>3. CASE Due(s) # {}
      <4>1. PICK e \in Due(s) : /\ bus' = Append(bus, [job |-> run[s].job, status |-> e.status])
                                /\ [job |-> run[s].job, status |-> e.status] \in Event
        BY <3>3, Publishes
      <4>2. [job |-> run[s].job, status |-> e.status].job # j
        BY <2>3, <3>3
      <4> QED
        BY <2>1, <2>3, <3>1, <4>1, <4>2, EventAppended
    <3> QED
      BY <3>2, <3>3
  <2>4. CASE run[s].job = j /\ Due(s) # {} /\ \A e \in Due(s) : e.status = row'[j].status
    <3>1. PICK e \in Due(s) : /\ bus' = Append(bus, [job |-> run[s].job, status |-> e.status])
                              /\ [job |-> run[s].job, status |-> e.status] \in Event
      BY <2>4, Publishes
    <3>2. /\ [job |-> run[s].job, status |-> e.status].job = j
          /\ [job |-> run[s].job, status |-> e.status].status = row'[j].status
      BY <2>4
    <3> QED
      BY <2>1, <3>1, <3>2, EventAppended
  <2> QED
    BY <2>2, <2>3, <2>4
<1> QED
  BY <1>1, <1>2, <1>3 DEF FeedInv

\* A step of another actor than the processors makes no verdict final, and publishes
\* nothing.
LEMMA NoNews ==
  ASSUME TypeOK, TypeOK', AccountsInv, LockProtects, StoryInv, Tolerated',
         Silent \/ \E p \in Procs : Crash(p), NEW i \in Jobs, Final(i)'
  PROVE  Final(i) /\ row'[i].status = row[i].status
<1>1. Next
  BY DEF Silent, Next
<1>2. /\ Protected /\ Tale(i) /\ faults'.lock = 0 /\ faults.crash <= MaxStalledCount
  BY <1>1, ToleratedBefore DEF Tolerated
<1>3. CASE Silent
  BY <1>2, <1>3, FinalApi, FinalCancel, FinalTake, FinalQueue DEF Silent, ApiStep
<1>4. CASE \E p \in Procs : Crash(p)
  BY <1>4, FinalCrash
<1> QED
  BY <1>3, <1>4

LEMMA FeedSilent ==
  ASSUME TypeOK, TypeOK', AccountsInv, LockProtects, StoryInv, FeedInv, Silent
  PROVE  FeedInv'
<1>1. Next /\ bus' = bus /\ room' = room /\ view' = view
  BY DEF Silent, Next, feed
<1>2. ASSUME Tolerated', NEW v \in Viewers PROVE Shows(v)'
  <2>1. Watches[v] \in Jobs /\ Shows(v)
    BY <1>1, <1>2, ToleratedBefore, WatchedJob DEF FeedInv
  <2> QED
    BY <1>1, <1>2, <2>1, NoNews DEF Shows
<1> QED
  BY <1>1, <1>2 DEF FeedInv, FeedType

\* The loss of events leaves views in doubt of their jobs.
LEMMA MissedViews ==
  ASSUME FeedType, NEW js, Missed(js)
  PROVE  /\ view' \in [Viewers -> View]
         /\ \A v \in Viewers : Watches[v] \notin js => view'[v] = view[v]
         /\ \A v \in Viewers : Watches[v] \in js => \A status : Warranted(view'[v], status)
<1>1. ASSUME NEW v \in Viewers, Watches[v] \in js
      PROVE  view'[v] \in View /\ \A status : Warranted(view'[v], status)
  <2>1. view[v] \in View /\ view'[v] = Outdated(view[v])
    BY <1>1 DEF FeedType, Missed
  <2> QED
    BY <2>1, DoubtWarranted
<1>2. ASSUME NEW v \in Viewers, Watches[v] \notin js PROVE view'[v] = view[v]
  BY <1>2 DEF FeedType, Missed
<1>3. view' = [v \in Viewers |-> view'[v]]
  BY DEF Missed
<1>4. \A v \in Viewers : view'[v] \in View
  BY <1>1, <1>2 DEF FeedType
<1> QED
  BY <1>1, <1>2, <1>3, <1>4

LEMMA FeedCrash ==
  ASSUME TypeOK, TypeOK', AccountsInv, LockProtects, StoryInv, FeedInv,
         NEW p \in Procs, CrashUnsent(p)
  PROVE  FeedInv'
<1>1. Crash(p) /\ Next /\ room' = room /\ FeedType
  BY DEF CrashUnsent, Next, FeedInv
<1>2. PICK sent \in 0..Len(bus) :
        LET gone == {bus[i].job : i \in (sent + 1)..Len(bus)} IN
        bus' = Doubted(SubSeq(bus, 1, sent), gone) /\ Missed(gone)
  BY DEF CrashUnsent
<1> DEFINE gone == {bus[i].job : i \in (sent + 1)..Len(bus)}
<1>3. /\ bus \in Seq(Event) /\ bus' = Doubted(SubSeq(bus, 1, sent), gone) /\ Missed(gone)
      /\ gone = {bus[i].job : i \in (sent + 1)..Len(bus)}
  BY <1>1, <1>2 DEF FeedType
<1> HIDE DEF gone
<1>4. FeedType'
  BY <1>1, <1>3, EventsUnsent, MissedViews DEF FeedType
<1>5. ASSUME Tolerated', NEW v \in Viewers PROVE Shows(v)'
  <2> DEFINE j == Watches[v]
  <2>1. j \in Jobs /\ Shows(v)
    BY <1>1, <1>5, ToleratedBefore, WatchedJob DEF FeedInv
  <2> SUFFICES ASSUME Final(j)'
               PROVE  /\ EndsWith(bus', j, row'[j].status)
                      /\ ~ Pending(bus', j) => Warranted(view'[v], row'[j].status)
    BY <1>1 DEF Shows
  <2>2. Final(j) /\ row'[j].status = row[j].status
    BY <1>1, <1>5, <2>1, NoNews
  <2>3. EndsWith(bus, j, row[j].status) /\ (~ Pending(bus, j) => Warranted(view[v], row[j].status))
    BY <2>1, <2>2 DEF Shows
  <2> HIDE DEF j
  <2>4. CASE j \in gone
    <3>1. EndsWith(bus', j, row'[j].status)
      BY <1>3, <2>4, EventsUnsent
    <3>2. Warranted(view'[v], row'[j].status)
      BY <1>1, <1>3, <2>4, MissedViews DEF j
    <3> QED
      BY <3>1, <3>2
  <2>5. CASE j \notin gone
    <3>1. EndsWith(bus', j, row[j].status) /\ (Pending(bus, j) => Pending(bus', j))
      BY <1>3, <2>3, <2>5, EventsUnsent
    <3>2. view'[v] = view[v]
      BY <1>1, <1>3, <2>5, MissedViews DEF j
    <3> QED
      BY <2>2, <2>3, <3>1, <3>2
  <2> QED
    BY <2>4, <2>5
<1> QED
  BY <1>4, <1>5 DEF FeedInv

\* The steps of the API process and the clients leave the job alone.
LEMMA JobUntouched ==
  ASSUME UNCHANGED vars
  PROVE  /\ Tolerated' <=> Tolerated
         /\ \A j \in Jobs : Final(j)' <=> Final(j)
         /\ row' = row
BY DEF vars, Tolerated, Smooth, Undisturbed, Final, Finished, Published, Removing, HalfCancelled

LEMMA FeedDelivery ==
  ASSUME FeedInv, Forward \/ LoseEvent
  PROVE  FeedInv'
<1> DEFINE event == Head(bus)
<1>1. /\ UNCHANGED vars /\ room' = room /\ bus # <<>> /\ bus' = Tail(bus)
      /\ FeedType /\ bus \in Seq(Event) /\ event \in Event
  <2>1. bus # <<>> /\ bus \in Seq(Event)
    BY DEF Forward, LoseEvent, FeedInv, FeedType
  <2> QED
    BY <2>1, EventTaken DEF Forward, LoseEvent, FeedInv
<1> HIDE DEF event
<1>2. \A v \in Viewers : view[v] \in View
  BY <1>1 DEF FeedType
<1>3. ASSUME NEW v \in Viewers
      PROVE  /\ view'[v] \in View
             /\ Watches[v] = event.job =>
                  \A status : event.status \in {status, "UNSURE"} => Warranted(view'[v], status)
             /\ Watches[v] # event.job => view'[v] = view[v]
  <2>1. CASE Forward
    <3>1. CASE v \in room /\ Watches[v] = event.job
      <4>1. view'[v] = [Outdated(view[v]) EXCEPT !.shown = event.status]
        BY <2>1, <3>1 DEF Forward, event
      <4>2. /\ Outdated(view[v]) \in View /\ event.status \in Heard
            /\ \A status : Warranted(Outdated(view[v]), status)
        BY <1>1, <1>2, DoubtWarranted DEF Event, Heard, JobStatus, Terminal
      <4> QED
        BY <3>1, <4>1, <4>2 DEF View, Warranted
    <3>2. CASE v \notin room /\ Watches[v] = event.job
      <4>1. view'[v] = Outdated(view[v])
        BY <2>1, <3>2 DEF Forward, event
      <4> QED
        BY <1>2, <3>2, <4>1, DoubtWarranted
    <3>3. CASE Watches[v] # event.job
      BY <1>2, <2>1, <3>3 DEF Forward, event
    <3> QED
      BY <3>1, <3>2, <3>3
  <2>2. CASE LoseEvent
    <3>1. Missed({event.job})
      BY <2>2 DEF LoseEvent, event
    <3> QED
      BY <1>1, <1>2, <3>1, MissedViews
  <2> QED
    BY <2>1, <2>2
<1>4. view' = [v \in Viewers |-> view'[v]]
  BY DEF Forward, LoseEvent, Missed
<1>5. FeedType'
  BY <1>1, <1>3, <1>4, EventTaken DEF FeedType
<1>6. ASSUME Tolerated', NEW v \in Viewers PROVE Shows(v)'
  <2> DEFINE j == Watches[v]
  <2> SUFFICES ASSUME Final(j)'
               PROVE  /\ EndsWith(bus', j, row[j].status)
                      /\ ~ Pending(bus', j) => Warranted(view'[v], row[j].status)
    BY <1>1, JobUntouched DEF Shows
  <2>1. /\ EndsWith(bus, j, row[j].status)
        /\ ~ Pending(bus, j) => Warranted(view[v], row[j].status)
    BY <1>1, <1>6, WatchedJob, JobUntouched DEF FeedInv, Shows
  <2> HIDE DEF j
  <2>2. EndsWith(bus', j, row[j].status)
    BY <1>1, <2>1, EventTaken
  <2>3. ASSUME ~ Pending(bus', j) PROVE Warranted(view'[v], row[j].status)
    <3>1. CASE event.job = j
      <4>1. event.status \in {row[j].status, "UNSURE"}
        BY <1>1, <2>1, <2>3, <3>1, EventTaken DEF event
      <4> QED
        BY <1>3, <3>1, <4>1 DEF j
    <3>2. CASE event.job # j
      <4>1. ~ Pending(bus, j)
        BY <1>1, <2>3, <3>2, EventTaken DEF event
      <4> QED
        BY <1>3, <2>1, <3>2, <4>1 DEF j
    <3> QED
      BY <3>1, <3>2
  <2> QED
    BY <2>2, <2>3
<1> QED
  BY <1>5, <1>6 DEF FeedInv

\* A reading is of the verdict, once there is one; the rest of what a client does
\* leaves what it shows and asked for, or drops it.
LEMMA FeedClient ==
  ASSUME TypeOK, FeedInv, NEW u \in Viewers,
         \/ subscribe(u) \/ unsubscribe(u)
         \/ monitorJob(u) \/ getJob(u) \/ connectWebSocket(u) \/ monitorFailed(u)
  PROVE  FeedInv'
<1>1. UNCHANGED vars /\ bus' = bus /\ FeedType /\ view[u] \in View
  BY DEF subscribe, unsubscribe, monitorJob, getJob, connectWebSocket, monitorFailed, FeedInv, FeedType
<1>2. room' \subseteq Viewers
  BY <1>1 DEF subscribe, unsubscribe, monitorJob, getJob, connectWebSocket, monitorFailed, FeedType
<1>3. ASSUME NEW w \in View, view' = [view EXCEPT ![u] = w],
             Warranted(view[u], row[Watches[u]].status) => Warranted(w, row[Watches[u]].status)
      PROVE  FeedInv'
  <2>1. FeedType' /\ view'[u] = w /\ \A v \in Viewers : v # u => view'[v] = view[v]
    BY <1>1, <1>2, <1>3 DEF FeedType
  <2>2. ASSUME Tolerated', NEW v \in Viewers PROVE Shows(v)'
    <3>1. Shows(v) /\ Watches[v] \in Jobs
      BY <1>1, <2>2, WatchedJob, JobUntouched DEF FeedInv
    <3>2. Warranted(view[v], row[Watches[v]].status) => Warranted(view'[v], row[Watches[v]].status)
      BY <1>3, <2>1
    <3> QED
      BY <1>1, <3>1, <3>2, JobUntouched DEF Shows
  <2> QED
    BY <2>1, <2>2 DEF FeedInv
<1>4. CASE subscribe(u) \/ unsubscribe(u)
  <2>1. view' = [view EXCEPT ![u] = view[u]]
    BY <1>1, <1>4 DEF subscribe, unsubscribe, FeedType
  <2> QED
    BY <1>1, <1>3, <2>1
<1>5. CASE monitorJob(u)
  <2> DEFINE w == [shown |-> "NONE", asked |-> "SENT"]
  <2>1. w \in View /\ view' = [view EXCEPT ![u] = w] /\ Warranted(w, row[Watches[u]].status)
    BY <1>5 DEF monitorJob, View, Heard, JobStatus, Warranted
  <2> QED
    BY <1>3, <2>1
<1>6. CASE getJob(u)
  <2> DEFINE w == [view[u] EXCEPT !.asked = row[Watches[u]].status]
  <2>1. view' = [view EXCEPT ![u] = w]
    BY <1>1, <1>6 DEF getJob, FeedType
  <2>2. row[Watches[u]].status \in Heard
    BY WatchedJob DEF TypeOK, Row, Heard
  <2>3. w \in View /\ w.shown = view[u].shown /\ w.asked = row[Watches[u]].status
    BY <1>1, <2>2 DEF View
  <2> QED
    BY <1>3, <2>1, <2>3 DEF Warranted
<1>7. CASE connectWebSocket(u)
  <2> DEFINE w == [shown |-> view[u].asked, asked |-> "NONE"]
  <2>1. view' = [view EXCEPT ![u] = w] /\ view[u].asked # "SENT"
    BY <1>1, <1>7 DEF connectWebSocket, FeedType
  <2>2. w \in View
    BY <1>1, <2>1 DEF View, Heard, JobStatus
  <2> QED
    BY <1>3, <2>1, <2>2 DEF Warranted
<1>8. CASE monitorFailed(u)
  <2> DEFINE w == [view[u] EXCEPT !.asked = "NONE"]
  <2>1. view' = [view EXCEPT ![u] = w]
    BY <1>1, <1>8 DEF monitorFailed, FeedType
  <2>2. w \in View /\ w.shown = view[u].shown /\ w.asked = "NONE"
    BY <1>1 DEF View, Heard, JobStatus
  <2> QED
    BY <1>3, <2>1, <2>2 DEF Warranted
<1> QED
  BY <1>4, <1>5, <1>6, <1>7, <1>8

LEMMA FeedInitially == FeedInit => FeedInv
<1> SUFFICES ASSUME FeedInit PROVE FeedInv
  OBVIOUS
<1>1. FeedType
  BY DEF FeedInit, FeedType, Blank, View, Heard, JobStatus
<1>2. \A j \in Jobs : ~ Final(j)
  BY DEF FeedInit, Init, NoRow, Final
<1> QED
  BY <1>1, <1>2, WatchedJob DEF FeedInv, Shows

LEMMA FeedStep ==
  ASSUME TypeOK, TypeOK', AccountsInv, LockProtects, StoryInv, FeedInv, [FeedNext]_<<vars, feed>>
  PROVE  FeedInv'
<1>1. ASSUME UNCHANGED <<vars, feed>> PROVE FeedInv'
  <2>1. UNCHANGED vars /\ bus' = bus /\ room' = room /\ view' = view
    BY <1>1 DEF feed
  <2>2. \A v \in Viewers : Shows(v)' <=> Shows(v)
    BY <2>1, JobUntouched, WatchedJob DEF Shows
  <2> QED
    BY <2>1, <2>2, JobUntouched DEF FeedInv, FeedType
<1> QED
  BY <1>1, FeedProcess, FeedCrash, FeedSilent, FeedDelivery, FeedClient DEF FeedNext

\* FeedTellsVerdict: when a job has its verdict and every event is delivered, a client
\* shows that verdict, unless a later event than what it shows passed it by.  The last
\* event of a job that has its verdict is that verdict, whatever crashes cut off before,
\* and what was read before it is outdated by it, heard or not.
THEOREM FeedTold == FeedSpec => []FeedTellsVerdict
<1>1. FeedInv => FeedTellsVerdict
  <2> SUFFICES ASSUME FeedInv, Tolerated, NEW v \in Viewers, HasVerdict(Watches[v]), Quiet(v)
               PROVE  view[v].shown \in {row[Watches[v]].status, "UNSURE", "NONE"}
    BY DEF FeedTellsVerdict, Tolerated, Smooth
  <2>1. Final(Watches[v])
    BY DEF HasVerdict, Settled, Agreed, Terminal, Cancelling, Removing, Final
  <2>2. ~ Pending(bus, Watches[v])
    BY DEF Quiet, Pending
  <2>3. Shows(v)
    BY DEF FeedInv
  <2> QED
    BY <2>1, <2>2, <2>3 DEF Shows, Warranted
<1>2. FeedSpec => FeedInit /\ [][FeedNext]_<<vars, feed>>
  BY DEF FeedSpec
<1> QED
  BY <1>1, <1>2, FeedRefines, FeedInitially, FeedStep, TypeCorrect, AccountsAlways,
     LockProtectsInvariant, StoryAlways, PTL
=============================================================================
