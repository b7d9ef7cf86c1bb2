---------------------------- MODULE JobContract -----------------------------
(***************************************************************************)
(* What the service promises about a job, without its queue, its worker    *)
(* slots and its log: README.md's lifecycle QUEUED, RUNNING, SUCCEEDED,    *)
(* FAILED or CANCELLED, with at most maxAttempts tries, of which a lost    *)
(* worker process costs one more each and may take a verdict back.         *)
(*                                                                         *)
(* The promise on cancellation is the one the code keeps: a request is     *)
(* accepted only for a job that is QUEUED or RUNNING, and an accepted      *)
(* request may land after the job has come to its own end.                 *)
(***************************************************************************)
EXTENDS Naturals

CONSTANTS
  Jobs,         \* the jobs clients may submit
  NoJob,        \* the job of a request that is not accepted
  Cancels,      \* cancel requests
  MaxAttempts   \* maxAttempts of each job

VARIABLES
  status,    \* the status GET /v1/jobs/:id shows
  runs,      \* how often the job's handler was given a chance
  tries,     \* failed attempts that were counted
  told,      \* verdicts that webhooks were told
  accepted,  \* the job an accepted, unanswered cancel request is for
  lost       \* worker processes that died

cvars == <<status, runs, tries, told, accepted, lost>>

Init ==
  /\ status = [j \in Jobs |-> "NONE"]
  /\ runs = [j \in Jobs |-> 0]
  /\ tries = [j \in Jobs |-> 0]
  /\ told = [j \in Jobs |-> [completed |-> 0, failed |-> 0]]
  /\ accepted = [c \in Cancels |-> NoJob]
  /\ lost = 0

Open(j) == status[j] \in {"QUEUED", "RUNNING"}

\* Only the loss of a worker reopens a job that has its verdict.
Runnable(j) == Open(j) \/ (lost > 0 /\ status[j] \in {"SUCCEEDED", "FAILED"})

Move(j, to) ==
  /\ status' = [status EXCEPT ![j] = to]
  /\ UNCHANGED <<runs, tries, told, accepted, lost>>

Submit(j) == status[j] = "NONE" /\ Move(j, "QUEUED")

Run(j) ==
  /\ Runnable(j)
  /\ runs[j] < MaxAttempts[j] + lost
  /\ runs' = [runs EXCEPT ![j] = @ + 1]
  /\ UNCHANGED <<status, tries, told, accepted, lost>>

Start(j) == Runnable(j) /\ tries[j] < runs[j] /\ Move(j, "RUNNING")

Succeed(j) == status[j] = "RUNNING" /\ tries[j] < runs[j] /\ Move(j, "SUCCEEDED")

Miss(j) ==
  /\ status[j] = "RUNNING"
  /\ tries[j] < runs[j]
  /\ tries' = [tries EXCEPT ![j] = @ + 1]
  /\ UNCHANGED <<status, runs, told, accepted, lost>>

GiveUp(j) == status[j] = "RUNNING" /\ tries[j] >= MaxAttempts[j] /\ Move(j, "FAILED")

Tell(j, event) ==
  /\ status[j] = (IF event = "completed" THEN "SUCCEEDED" ELSE "FAILED")
  /\ told[j].completed + told[j].failed <= lost
  /\ told' = [told EXCEPT ![j][event] = @ + 1]
  /\ UNCHANGED <<status, runs, tries, accepted, lost>>

Accept(c, j) ==
  /\ accepted[c] = NoJob
  /\ Open(j)
  /\ accepted' = [accepted EXCEPT ![c] = j]
  /\ UNCHANGED <<status, runs, tries, told, lost>>

Land(c) ==
  /\ accepted[c] # NoJob
  /\ status' = [status EXCEPT ![accepted[c]] = "CANCELLED"]
  /\ accepted' = [accepted EXCEPT ![c] = NoJob]
  /\ UNCHANGED <<runs, tries, told, lost>>

Drop(c) ==
  /\ accepted' = [accepted EXCEPT ![c] = NoJob]
  /\ UNCHANGED <<status, runs, tries, told, lost>>

Lose == lost' = lost + 1 /\ UNCHANGED <<status, runs, tries, told, accepted>>

Next ==
  \/ \E j \in Jobs :
       \/ Submit(j) \/ Run(j) \/ Start(j) \/ Succeed(j) \/ Miss(j) \/ GiveUp(j)
       \/ \E event \in {"completed", "failed"} : Tell(j, event)
  \/ \E c \in Cancels : Land(c) \/ Drop(c) \/ \E j \in Jobs : Accept(c, j)
  \/ Lose

Spec == Init /\ [][Next]_cvars
=============================================================================
