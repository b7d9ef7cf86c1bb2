----------------------------- MODULE BullQueue -----------------------------
(***************************************************************************)
(* One entry of a BullMQ queue, as far as this repository relies on it.    *)
(* BullMQ is a library (package-lock.json pins 5.78.1): these operators    *)
(* model its contract from how src/queues, src/services and src/workers    *)
(* use it, and every component that owns a queue instantiates them.        *)
(*                                                                         *)
(* An entry is identified by the jobId its producer passes to Queue.add.   *)
(* A worker slot that takes it receives the entry's lock and renews it;    *)
(* the lock of a slot that died is an Orphan until it expires.  Time is    *)
(* abstracted: a backoff delay, a lock or a stalled-check interval ends at *)
(* any later step.  Priority order among waiting entries is abstracted to  *)
(* an arbitrary choice.                                                    *)
(***************************************************************************)
EXTENDS Naturals

CONSTANTS
  Slots,            \* the concurrent processor slots of all worker processes
  NoLock,           \* no slot holds the entry's lock
  Orphan,           \* the lock exists, but the process that took it is gone
  MaxStalledCount   \* WorkerOptions.maxStalledCount (the default is 1)

ASSUME LockAssumption ==
  /\ NoLock \notin Slots
  /\ Orphan \notin Slots
  /\ NoLock # Orphan

ASSUME StalledAssumption == MaxStalledCount \in Nat

EntryState == {"absent", "waiting", "active", "delayed", "completed", "failed"}

Entry == [st     : EntryState,
          made   : Nat,                        \* attemptsMade
          stalls : Nat,                        \* stalledCounter
          holder : Slots \cup {NoLock, Orphan}]

Absent == [st |-> "absent", made |-> 0, stalls |-> 0, holder |-> NoLock]

\* Queue.add under an id that is already present is ignored.
Add(e) == IF e.st = "absent" THEN [Absent EXCEPT !.st = "waiting"] ELSE e

Take(e, s) == [e EXCEPT !.st = "active", !.holder = s]

\* The processor's promise resolved: moveToCompleted.
Complete(e) ==
  [st |-> "completed", made |-> e.made + 1, stalls |-> e.stalls, holder |-> NoLock]

\* The processor's promise rejected: back to delayed while attempts remain.
Fail(e, attempts) ==
  [st     |-> IF e.made + 1 < attempts THEN "delayed" ELSE "failed",
   made   |-> e.made + 1,
   stalls |-> e.stalls,
   holder |-> NoLock]

Promote(e) == [e EXCEPT !.st = "waiting"]

ReleaseLock(e) == [e EXCEPT !.holder = NoLock]

\* The stalled check found an active entry without a lock.
Stall(e) ==
  [st     |-> IF e.stalls + 1 > MaxStalledCount THEN "failed" ELSE "waiting",
   made   |-> e.made,
   stalls |-> e.stalls + 1,
   holder |-> e.holder]

\* Job.remove() rejects when a worker holds the entry's lock.
Removable(e) == e.holder = NoLock

Finished(e) == e.st \in {"completed", "failed"}
=============================================================================
