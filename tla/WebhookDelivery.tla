-------------------------- MODULE WebhookDelivery --------------------------
(***************************************************************************)
(* Webhook deliveries: dispatchEvent fans an event out to one delivery row *)
(* and one queue entry per active webhook, worker slots post the delivery  *)
(* to its URL and write the outcome to the row, clients create, deactivate *)
(* and delete webhooks meanwhile.  Every webhook subscribes to '*'.        *)
(*                                                                         *)
(* The circuit breaker is seen as a failure counter per URL that may       *)
(* expire at any time; module CircuitBreaker has its calls and its clock.  *)
(***************************************************************************)
EXTENDS BullQueue

CONSTANTS
  Events,       \* the calls of dispatchEvent
  Webhooks,     \* the webhooks clients may register
  Urls,         \* the URLs they point to
  UrlOf,        \* the URL of a webhook
  NoDelivery,   \* the delivery of an idle slot
  MaxAttempts,  \* attempts, of the queue and of the dispatch processor alike
  Threshold,    \* FAILURE_THRESHOLD of the circuit breaker
  MaxCrashes,   \* bound on crashes of worker slots
  MaxErrors,    \* bound on rejected database and Redis calls
  MaxChanges    \* bound on PUT and DELETE requests for webhooks

Deliveries == Events \X Webhooks

ASSUME WebhookAssumption ==
  /\ UrlOf \in [Webhooks -> Urls]
  /\ NoDelivery \notin Deliveries
  /\ MaxAttempts \in Nat \ {0}
  /\ Threshold \in Nat \ {0}
  /\ MaxCrashes \in Nat
  /\ MaxErrors \in Nat
  /\ MaxChanges \in Nat

VARIABLES
  hook,      \* the webhooks' rows
  disp,      \* the calls of dispatchEvent
  row,       \* the deliveries' rows
  entry,     \* the deliveries' entries in the webhook-dispatch queue
  run,       \* what each worker slot is doing
  failures,  \* the circuit breaker's failure counters
  posts,     \* HTTP requests sent for a delivery (history)
  accepted,  \* has the endpoint accepted the delivery (history)
  wanted,    \* deliveries whose webhook was active when the event looked for
             \* webhooks, and ever since (history)
  changes,   \* PUT and DELETE requests so far
  faults     \* faults so far

vars == <<hook, disp, row, entry, run, failures, posts, accepted, wanted, changes, faults>>

hookVars == <<hook, wanted, changes>>
workVars == <<row, entry, run, failures, posts, accepted>>

WebhookDeliveryStatus == {"NONE", "PENDING", "DELIVERED", "RETRYING", "FAILED"}

Row == [status : WebhookDeliveryStatus, attempts : Nat]
NoRow == [status |-> "NONE", attempts |-> 0]

RunStep == {"idle", "read", "check", "failFast", "post", "recordSuccess", "markDelivered",
            "recordFailure", "markFailure", "ack", "nack"}

\* attempts: delivery.attempts as the processor read it
Idle == [pc |-> "idle", job |-> NoDelivery, attempts |-> 0]

Init ==
  /\ hook = [w \in Webhooks |-> "unborn"]
  /\ disp = [e \in Events |-> [pc |-> "idle", todo |-> {}, at |-> NoDelivery]]
  /\ row = [d \in Deliveries |-> NoRow]
  /\ entry = [d \in Deliveries |-> Absent]
  /\ run = [s \in Slots |-> Idle]
  /\ failures = [u \in Urls |-> 0]
  /\ posts = [d \in Deliveries |-> 0]
  /\ accepted = [d \in Deliveries |-> FALSE]
  /\ wanted = {}
  /\ changes = 0
  /\ faults = [crash |-> 0, error |-> 0]

UrlFor(d) == UrlOf[d[2]]

\* The webhook relation's onDelete: Cascade.
Exists(d) == row[d].status # "NONE"

isCircuitOpen(n) == n >= Threshold

\* The attempts option of the queue; one less or more would part it from the
\* dispatch processor's own limit.
oneAttemptLess(d) == MaxAttempts - 1
oneAttemptMore(d) == MaxAttempts + 1
attemptsOption(d) == MaxAttempts

\* attempts >= maxAttempts in the catch block.
ExhaustedLate(attempts) == attempts > MaxAttempts
Exhausted(attempts) == attempts >= MaxAttempts

\* The attempts the catch block writes: those read at the start, and this one.
sameAttempts(n) == n
nextAttempts(n) == n + 1

\* The slot after its processor settled.
FreedKeepingJob(r) == [r EXCEPT !.pc = "idle"]
Freed(r) == Idle

CountError ==
  /\ faults.error < MaxErrors
  /\ faults' = [faults EXCEPT !.error = @ + 1]

(***************************************************************************)
(* createWebhook, updateWebhook and deleteWebhook.                         *)
(***************************************************************************)
createWebhook(w) ==
  /\ hook[w] = "unborn"
  /\ hook' = [hook EXCEPT ![w] = "active"]
  /\ UNCHANGED <<wanted, changes, disp, workVars, faults>>

\* getWebhook finds the webhook; otherwise it answers 404.
Change(w) ==
  /\ hook[w] \in {"active", "inactive"}
  /\ changes < MaxChanges
  /\ changes' = changes + 1

updateWebhook(w, state) ==
  /\ Change(w)
  /\ hook' = [hook EXCEPT ![w] = state]
  /\ wanted' = IF state = "active" THEN wanted ELSE {d \in wanted : d[2] # w}
  /\ UNCHANGED <<disp, workVars, faults>>

deleteWebhook(w) ==
  /\ Change(w)
  /\ hook' = [hook EXCEPT ![w] = "deleted"]
  /\ wanted' = {d \in wanted : d[2] # w}
  /\ row' = [d \in Deliveries |-> IF d[2] = w THEN NoRow ELSE row[d]]
  /\ UNCHANGED <<disp, entry, run, failures, posts, accepted, faults>>

(***************************************************************************)
(* dispatchEvent.                                                          *)
(***************************************************************************)
\* Webhooks that become active later are not part of the event.
FindWebhooks(e) ==
  LET found == {w \in Webhooks : hook[w] = "active"} IN
  /\ disp[e].pc = "idle"
  /\ disp' = [disp EXCEPT ![e].pc = IF found = {} THEN "done" ELSE "create",
                          ![e].todo = found]
  /\ wanted' = wanted \cup ({e} \X found)
  /\ UNCHANGED <<hook, changes, workVars, faults>>

\* webhookDelivery.create for one of the webhooks left; a webhook deleted
\* since makes it reject, and dispatchEvent as a whole.
CreateDelivery(e, w) ==
  /\ disp[e].pc = "create"
  /\ w \in disp[e].todo
  /\ IF hook[w] = "deleted"
       THEN /\ disp' = [disp EXCEPT ![e].pc = "failed"]
            /\ UNCHANGED row
       ELSE /\ disp' = [disp EXCEPT ![e].pc = "add", ![e].at = w]
            /\ row' = [row EXCEPT ![<<e, w>>] = [status |-> "PENDING", attempts |-> 0]]
  /\ UNCHANGED <<hookVars, entry, run, failures, posts, accepted, faults>>

AddEntry(e) == [entry EXCEPT ![<<e, disp[e].at>>] = Add(@)]

AddDelivery(e) ==
  LET left == disp[e].todo \ {disp[e].at} IN
  /\ disp[e].pc = "add"
  /\ entry' = AddEntry(e)
  /\ disp' = [disp EXCEPT ![e].pc = IF left = {} THEN "done" ELSE "create",
                          ![e].todo = left]
  /\ UNCHANGED <<hookVars, row, run, failures, posts, accepted, faults>>

\* A call rejects or the dispatching process dies.
DispatchError(e) ==
  /\ disp[e].pc \in {"idle", "create", "add"}
  /\ CountError
  /\ disp' = [disp EXCEPT ![e].pc = "failed"]
  /\ IF disp[e].pc = "add" THEN entry' \in {entry, AddEntry(e)} ELSE UNCHANGED entry
  /\ UNCHANGED <<hookVars, row, run, failures, posts, accepted>>

(***************************************************************************)
(* The dispatch processor of workers/index.ts.                             *)
(***************************************************************************)
Goto(s, step) == run' = [run EXCEPT ![s].pc = step]

TakeDelivery(s, d) ==
  /\ run[s].pc = "idle"
  /\ entry[d].st = "waiting"
  /\ entry' = [entry EXCEPT ![d] = Take(@, s)]
  /\ run' = [run EXCEPT ![s] = [pc |-> "read", job |-> d, attempts |-> 0]]
  /\ UNCHANGED <<hookVars, disp, row, failures, posts, accepted, faults>>

\* A delivery that is gone, or whose webhook is inactive, is skipped.
Read(s) ==
  LET d == run[s].job IN
  /\ run[s].pc = "read"
  /\ \/ /\ Exists(d) /\ hook[d[2]] = "active"
        /\ run' = [run EXCEPT ![s].pc = "check", ![s].attempts = row[d].attempts]
        /\ UNCHANGED faults
     \/ /\ ~ (Exists(d) /\ hook[d[2]] = "active")
        /\ Goto(s, "ack")
        /\ UNCHANGED faults
     \/ CountError /\ Goto(s, "nack")
  /\ UNCHANGED <<hookVars, disp, row, entry, failures, posts, accepted>>

\* Redis errors fail open.
CheckCircuit(s) ==
  /\ run[s].pc = "check"
  /\ \/ /\ Goto(s, IF isCircuitOpen(failures[UrlFor(run[s].job)]) THEN "failFast" ELSE "post")
        /\ UNCHANGED faults
     \/ CountError /\ Goto(s, "post")
  /\ UNCHANGED <<hookVars, disp, row, entry, failures, posts, accepted>>

\* An update of the delivery's row, which rejects when the row is gone.
UpdateRow(s, new, next, otherwise) ==
  LET d == run[s].job
      write == IF Exists(d) THEN [row EXCEPT ![d] = new] ELSE row
  IN
  /\ \/ row' = write /\ Goto(s, IF Exists(d) THEN next ELSE otherwise) /\ UNCHANGED faults
     \/ row' \in {row, write} /\ Goto(s, otherwise) /\ CountError
  /\ UNCHANGED <<hookVars, disp, entry, failures, posts, accepted>>

\* After failing for the open circuit: return, or rethrow as for an error.
rethrowFailFast(s) == "nack"
afterFailFast(s) == "ack"

FailFast(s) ==
  /\ run[s].pc = "failFast"
  /\ UpdateRow(s, [row[run[s].job] EXCEPT !.status = "FAILED"], afterFailFast(s), "nack")

\* The request failed, or the response is not ok, and a form that does not look.
afterAnyResponse(s) == "recordSuccess"
afterRefusal(s) == "recordFailure"

\* The HTTP request; the endpoint may accept it although the answer is lost.
Post(s) ==
  LET d == run[s].job IN
  /\ run[s].pc = "post"
  /\ posts' = [posts EXCEPT ![d] = @ + 1]
  /\ \/ Goto(s, "recordSuccess") /\ accepted' = [accepted EXCEPT ![d] = TRUE]
     \/ Goto(s, afterRefusal(s)) /\ accepted' \in {accepted, [accepted EXCEPT ![d] = TRUE]}
  /\ UNCHANGED <<hookVars, disp, row, entry, failures, faults>>

\* The breaker's own errors are swallowed.
Record(s, step, n, next) ==
  /\ run[s].pc = step
  /\ \/ failures' = [failures EXCEPT ![UrlFor(run[s].job)] = n] /\ UNCHANGED faults
     \/ UNCHANGED failures /\ CountError
  /\ Goto(s, next)
  /\ UNCHANGED <<hookVars, disp, row, entry, posts, accepted>>

RecordSuccess(s) == Record(s, "recordSuccess", 0, "markDelivered")

\* An update that rejects lands in the catch block, like a failed request.
MarkDelivered(s) ==
  /\ run[s].pc = "markDelivered"
  /\ UpdateRow(s, [row[run[s].job] EXCEPT !.status = "DELIVERED"], "ack", "recordFailure")

RecordFailure(s) ==
  Record(s, "recordFailure", failures[UrlFor(run[s].job)] + 1, "markFailure")

MarkFailure(s) ==
  LET attempts == nextAttempts(run[s].attempts) IN
  /\ run[s].pc = "markFailure"
  /\ IF Exhausted(attempts)
       THEN UpdateRow(s, [status |-> "FAILED", attempts |-> attempts], "ack", "nack")
       ELSE UpdateRow(s, [status |-> "RETRYING", attempts |-> attempts], "nack", "nack")

\* BullMQ records the outcome only for the slot that still holds the lock.
Finish(s, step, new) ==
  LET d == run[s].job IN
  /\ run[s].pc = step
  /\ entry' = IF entry[d].holder = s THEN [entry EXCEPT ![d] = new] ELSE entry
  /\ run' = [run EXCEPT ![s] = Freed(@)]
  /\ UNCHANGED <<hookVars, disp, row, failures, posts, accepted, faults>>

Ack(s) == Finish(s, "ack", Complete(entry[run[s].job]))

Nack(s) == Finish(s, "nack", Fail(entry[run[s].job], attemptsOption(run[s].job)))

(***************************************************************************)
(* Faults, and the timers of BullMQ and Redis.                             *)
(***************************************************************************)
\* The slots of some worker processes die; the processes restart.
Crash(dead) ==
  /\ faults.crash < MaxCrashes
  /\ faults' = [faults EXCEPT !.crash = @ + 1]
  /\ run' = [s \in Slots |-> IF s \in dead THEN Idle ELSE run[s]]
  /\ entry' = [d \in Deliveries |->
       IF entry[d].holder \in dead THEN [entry[d] EXCEPT !.holder = Orphan] ELSE entry[d]]
  /\ UNCHANGED <<hookVars, disp, row, failures, posts, accepted>>

QueueStep(d, new) ==
  /\ entry' = [entry EXCEPT ![d] = new]
  /\ UNCHANGED <<hookVars, disp, row, run, failures, posts, accepted, faults>>

ExpireLock(d) == entry[d].holder = Orphan /\ QueueStep(d, ReleaseLock(entry[d]))

StalledCheck(d) ==
  entry[d].st = "active" /\ entry[d].holder = NoLock /\ QueueStep(d, Stall(entry[d]))

EndBackoff(d) == entry[d].st = "delayed" /\ QueueStep(d, Promote(entry[d]))

\* removeOnComplete keeps the last 1000 entries, removeOnFail keeps them all.
Trim(d) == entry[d].st = "completed" /\ QueueStep(d, Absent)

\* The failure counter's time to live ends.
ExpireFailures(u) ==
  /\ failures[u] > 0
  /\ failures' = [failures EXCEPT ![u] = 0]
  /\ UNCHANGED <<hookVars, disp, row, entry, run, posts, accepted, faults>>

-----------------------------------------------------------------------------
Dispatch(e) ==
  \/ FindWebhooks(e)
  \/ \E w \in Webhooks : CreateDelivery(e, w)
  \/ AddDelivery(e)

Process(s) ==
  \/ Read(s) \/ CheckCircuit(s) \/ FailFast(s) \/ Post(s)
  \/ RecordSuccess(s) \/ MarkDelivered(s) \/ RecordFailure(s) \/ MarkFailure(s)
  \/ Ack(s) \/ Nack(s)

QueueTimer(d) == ExpireLock(d) \/ StalledCheck(d) \/ EndBackoff(d)

Next ==
  \/ \E w \in Webhooks :
       createWebhook(w) \/ deleteWebhook(w) \/ \E state \in {"active", "inactive"} : updateWebhook(w, state)
  \/ \E e \in Events : Dispatch(e) \/ DispatchError(e)
  \/ \E s \in Slots : Process(s) \/ \E d \in Deliveries : TakeDelivery(s, d)
  \/ \E dead \in SUBSET Slots : dead # {} /\ Crash(dead)
  \/ \E d \in Deliveries : QueueTimer(d) \/ Trim(d)
  \/ \E u \in Urls : ExpireFailures(u)

Spec == Init /\ [][Next]_vars

\* Workers keep running what they started, but for the POST, which has no timeout and
\* may hang for ever; BullMQ hands out waiting entries and its timers fire.
Fairness ==
  /\ \A e \in Events : WF_vars(disp[e].pc # "idle" /\ Dispatch(e))
  /\ \A s \in Slots : WF_vars(run[s].pc # "post" /\ Process(s))
  /\ \A d \in Deliveries : WF_vars(\E s \in Slots : TakeDelivery(s, d))
  /\ \A d \in Deliveries : WF_vars(QueueTimer(d))

FairSpec == Spec /\ Fairness

-----------------------------------------------------------------------------
\* Every variable has its type; a call of dispatchEvent that is at a webhook
\* still has it to do, and a slot is idle exactly when it has no delivery.
TypeOK ==
  /\ hook \in [Webhooks -> {"unborn", "active", "inactive", "deleted"}]
  /\ disp \in [Events -> [pc : {"idle", "create", "add", "done", "failed"},
                          todo : SUBSET Webhooks, at : Webhooks \cup {NoDelivery}]]
  /\ \A e \in Events : disp[e].pc = "add" => disp[e].at \in disp[e].todo
  /\ row \in [Deliveries -> Row]
  /\ entry \in [Deliveries -> Entry]
  /\ run \in [Slots -> [pc : RunStep, job : Deliveries \cup {NoDelivery}, attempts : Nat]]
  /\ \A s \in Slots : run[s].pc = "idle" <=> run[s].job = NoDelivery
  /\ failures \in [Urls -> Nat]
  /\ posts \in [Deliveries -> Nat]
  /\ accepted \in [Deliveries -> BOOLEAN]
  /\ wanted \in SUBSET Deliveries
  /\ changes \in Nat
  /\ faults \in [crash : Nat, error : Nat]

Working(d) == \E s \in Slots : run[s].job = d

\* Every call was answered, and the queue tolerated every crash.
Calm == faults.error = 0 /\ faults.crash <= MaxStalledCount

\* An endpoint receives a delivery at most once per attempt and once more per
\* tolerated stall, whatever crashes and errors happen.
BoundedPosts == \A d \in Deliveries : posts[d] <= MaxAttempts + MaxStalledCount

\* The processor counts attempts in the row, BullMQ in the entry, and each has
\* its own limit: a webhook that stays active is never left with a delivery
\* the queue is done with and the row shows as PENDING or RETRYING.
SettledDelivery ==
  Calm => \A d \in wanted :
    disp[d[1]].pc = "done" /\ ~ Working(d) /\ (Finished(entry[d]) \/ entry[d].st = "absent") =>
      row[d].status \in {"DELIVERED", "FAILED"}

\* No delivery is reported as DELIVERED that the endpoint never accepted,
\* even when responses are lost, rows deleted and updates rejected.
DeliveredWasAccepted ==
  \A d \in Deliveries : row[d].status = "DELIVERED" => accepted[d]

\* The row's attempts and BullMQ's attemptsMade are counted apart; the row
\* counts no attempt that sent no request, and never falls behind the queue,
\* which would give up on a RETRYING delivery.
AttemptsNeverLag ==
  \A d \in Deliveries :
    /\ row[d].attempts <= posts[d]
    /\ Calm /\ d \in wanted /\ entry[d].st \in {"waiting", "delayed", "active"}
         => entry[d].made <= row[d].attempts

\* A verdict on a delivery is not revised, as long as its webhook exists, no
\* slot dies between the verdict and the queue's, and no call fails.
VerdictIsFinal ==
  [][\A d \in Deliveries :
       faults.error + faults.crash = 0 /\ row[d].status \in {"DELIVERED", "FAILED"} => row'[d].status \in {row[d].status, "NONE"}]_vars

\* Every delivery of a dispatched event comes to a verdict, unless its webhook is
\* deactivated or deleted meanwhile.  An endpoint that never answers holds its own
\* delivery and one slot; the others are judged as long as it leaves a slot free.
EventuallyJudged ==
  \A d \in Deliveries :
    \/ disp[d[1]].pc = "done" /\ d \in wanted ~>
         d \notin wanted \/ row[d].status \in {"DELIVERED", "FAILED"} \/ ~ Calm
    \/ <>[](\E s \in Slots : run[s].pc = "post" /\ run[s].job = d)
    \/ <>[](\A s \in Slots : run[s].pc = "post")
=============================================================================
