------------------------ MODULE WebhookDeliveryProofs ------------------------
(***************************************************************************)
(* Theorems of WebhookDelivery, for every set of events, webhooks and      *)
(* worker slots and for every fault budget.                                *)
(***************************************************************************)
EXTENDS WebhookDelivery, TLAPS

-----------------------------------------------------------------------------
(***************************************************************************)
(* Type correctness, one part per group of variables.                      *)
(***************************************************************************)
SlotRecord == [pc : RunStep, job : Deliveries \cup {NoDelivery}, attempts : Nat]

HookType == hook \in [Webhooks -> {"unborn", "active", "inactive", "deleted"}]

CallStep == {"idle", "create", "add", "done", "failed"}
CallTodo == SUBSET Webhooks
CallAt == Webhooks \cup {NoDelivery}
Call == [pc : CallStep, todo : CallTodo, at : CallAt]

DispType ==
  /\ disp \in [Events -> Call]
  /\ \A e \in Events : disp[e].pc = "add" => disp[e].at \in disp[e].todo

RunType ==
  /\ run \in [Slots -> SlotRecord]
  /\ \A s \in Slots : run[s].pc = "idle" <=> run[s].job = NoDelivery

HistoryType ==
  /\ failures \in [Urls -> Nat]
  /\ posts \in [Deliveries -> Nat]
  /\ accepted \in [Deliveries -> BOOLEAN]
  /\ wanted \in SUBSET Deliveries
  /\ changes \in Nat
  /\ faults \in [crash : Nat, error : Nat]

RowType == row \in [Deliveries -> Row]
EntryType == entry \in [Deliveries -> Entry]

\* Every operation of the queue returns an entry.
LEMMA EntryOperations ==
  ASSUME NEW e \in Entry
  PROVE  /\ Absent \in Entry
         /\ Add(e) \in Entry
         /\ \A s \in Slots : Take(e, s) \in Entry
         /\ Complete(e) \in Entry
         /\ \A n \in Nat : Fail(e, n) \in Entry
         /\ Promote(e) \in Entry
         /\ ReleaseLock(e) \in Entry
         /\ Stall(e) \in Entry
         /\ [e EXCEPT !.holder = Orphan] \in Entry
<1> USE DEF Entry, EntryState
<1>1. Absent \in Entry /\ Add(e) \in Entry
  BY DEF Absent, Add
<1>2. \A s \in Slots : Take(e, s) \in Entry
  BY DEF Take
<1>3. Complete(e) \in Entry
  BY DEF Complete
<1>4. \A n \in Nat : Fail(e, n) \in Entry
  BY DEF Fail
<1>5. Promote(e) \in Entry /\ ReleaseLock(e) \in Entry
  BY DEF Promote, ReleaseLock
<1>6. Stall(e) \in Entry
  BY DEF Stall
<1>7. [e EXCEPT !.holder = Orphan] \in Entry
  OBVIOUS
<1> QED
  BY <1>1, <1>2, <1>3, <1>4, <1>5, <1>6, <1>7

LEMMA TypeInit == Init => TypeOK
BY LockAssumption, WebhookAssumption
DEF LockAssumption, WebhookAssumption, Init, TypeOK, Row, NoRow, WebhookDeliveryStatus, Entry, EntryState,
    Absent, Idle, RunStep

\* A slot at work has a delivery to work on.
LEMMA BusySlot ==
  ASSUME TypeOK, NEW s \in Slots, run[s].pc # "idle"
  PROVE  run[s].job \in Deliveries /\ run[s].job # NoDelivery
BY WebhookAssumption DEF WebhookAssumption, TypeOK

LEMMA ErrorType ==
  ASSUME TypeOK, CountError
  PROVE  faults' \in [crash : Nat, error : Nat] /\ faults'.crash = faults.crash
         /\ faults'.error = faults.error + 1
BY DEF TypeOK, CountError

\* A slot at work that goes on to another step.
LEMMA GotoType ==
  ASSUME TypeOK, NEW s \in Slots, run[s].pc # "idle", NEW step \in RunStep \ {"idle"}, Goto(s, step)
  PROVE  /\ RunType'
         /\ run'[s] = [run[s] EXCEPT !.pc = step]
         /\ \A t \in Slots : t # s => run'[t] = run[t]
BY DEF TypeOK, Goto, RunType, SlotRecord

LEMMA TypeClients ==
  ASSUME TypeOK, NEW w \in Webhooks,
         createWebhook(w) \/ deleteWebhook(w)
           \/ \E state \in {"active", "inactive"} : updateWebhook(w, state)
  PROVE  TypeOK'
<1>1. HookType' /\ wanted' \in SUBSET Deliveries /\ changes' \in Nat
  <2>1. CASE createWebhook(w)
    BY <2>1 DEF createWebhook, TypeOK, HookType
  <2>2. CASE deleteWebhook(w)
    BY <2>2 DEF deleteWebhook, Change, TypeOK, HookType
  <2>3. ASSUME NEW state \in {"active", "inactive"}, updateWebhook(w, state)
        PROVE  HookType' /\ wanted' \in SUBSET Deliveries /\ changes' \in Nat
    <3>1. hook' = [hook EXCEPT ![w] = state] /\ wanted' \subseteq wanted /\ changes' = changes + 1
      BY <2>3 DEF updateWebhook, Change
    <3> QED
      BY <3>1 DEF TypeOK, HookType
  <2> QED
    BY <2>1, <2>2, <2>3
<1>2. RowType'
  BY DEF createWebhook, deleteWebhook, updateWebhook, workVars, TypeOK, RowType, Row, NoRow,
         WebhookDeliveryStatus
<1>3. UNCHANGED <<disp, entry, run, failures, posts, accepted, faults>>
  BY DEF createWebhook, deleteWebhook, updateWebhook, workVars
<1> QED
  BY <1>1, <1>2, <1>3 DEF TypeOK, HookType, DispType, RunType, HistoryType, RowType, EntryType, SlotRecord,
      Call, CallStep, CallTodo, CallAt

\* The writes to the record of a call of dispatchEvent.
LEMMA CallWrites ==
  ASSUME NEW f \in [Events -> Call], NEW e \in Events,
         NEW p \in CallStep, NEW t \in CallTodo, NEW a \in CallAt
  PROVE  /\ [f EXCEPT ![e].pc = p] \in [Events -> Call]
         /\ [f EXCEPT ![e].pc = p, ![e].todo = t] \in [Events -> Call]
         /\ [f EXCEPT ![e].pc = p, ![e].at = a] \in [Events -> Call]
BY DEF Call

LEMMA TypeDispatch ==
  ASSUME TypeOK, NEW e \in Events, Dispatch(e) \/ DispatchError(e)
  PROVE  TypeOK'
<1>1. UNCHANGED <<hook, changes, run, failures, posts, accepted>>
  BY DEF Dispatch, FindWebhooks, CreateDelivery, AddDelivery, DispatchError, hookVars, workVars
<1>2. DispType'
  <2>0. /\ disp \in [Events -> Call] /\ disp[e].todo \in CallTodo /\ disp[e].at \in CallAt
        /\ {"create", "add", "done", "failed"} \subseteq CallStep
    BY DEF TypeOK, Call, CallStep, CallTodo, CallAt
  <2>1. disp' \in [Events -> Call]
    <3>1. CASE FindWebhooks(e)
      <4> DEFINE found == {w \in Webhooks : hook[w] = "active"}
                 step == IF found = {} THEN "done" ELSE "create"
      <4>1. disp' = [disp EXCEPT ![e].pc = step, ![e].todo = found]
        BY <3>1 DEF FindWebhooks
      <4>2. step \in CallStep /\ found \in CallTodo
        BY DEF CallStep, CallTodo
      <4> HIDE DEF step, found
      <4> QED
        BY <2>0, <4>1, <4>2, CallWrites
    <3>2. ASSUME NEW w \in Webhooks, CreateDelivery(e, w)
          PROVE  disp' \in [Events -> Call]
      <4>1. \/ disp' = [disp EXCEPT ![e].pc = "failed"]
            \/ disp' = [disp EXCEPT ![e].pc = "add", ![e].at = w]
        BY <3>2 DEF CreateDelivery
      <4>2. w \in CallAt
        BY DEF CallAt
      <4> QED
        BY <2>0, <4>1, <4>2, CallWrites
    <3>3. CASE AddDelivery(e)
      <4> DEFINE left == disp[e].todo \ {disp[e].at}
                 step == IF left = {} THEN "done" ELSE "create"
      <4>1. disp' = [disp EXCEPT ![e].pc = step, ![e].todo = left]
        BY <3>3 DEF AddDelivery
      <4>2. step \in CallStep /\ left \in CallTodo
        BY <2>0 DEF CallStep, CallTodo
      <4> HIDE DEF step, left
      <4> QED
        BY <2>0, <4>1, <4>2, CallWrites
    <3>4. CASE DispatchError(e)
      BY <2>0, <3>4, CallWrites DEF DispatchError
    <3> QED
      BY <3>1, <3>2, <3>3, <3>4 DEF Dispatch
  <2>2. \A x \in Events : x # e => disp'[x] = disp[x]
    BY <2>0 DEF Dispatch, FindWebhooks, CreateDelivery, AddDelivery, DispatchError
  <2>3. disp'[e].pc = "add" => disp'[e].at \in disp'[e].todo
    <3>1. ASSUME NEW w \in Webhooks, CreateDelivery(e, w), disp'[e].pc = "add"
          PROVE  disp'[e].at \in disp'[e].todo
      BY <2>0, <3>1 DEF CreateDelivery, Call
    <3> QED
      BY <2>0, <3>1 DEF Dispatch, FindWebhooks, AddDelivery, DispatchError, Call
  <2> QED
    BY <2>1, <2>2, <2>3 DEF TypeOK, DispType
<1>3. wanted' \in SUBSET Deliveries
  <2>1. \A found \in SUBSET Webhooks : {e} \X found \subseteq Deliveries
    BY DEF Deliveries
  <2>2. wanted' = wanted \/ \E found \in SUBSET Webhooks : wanted' = wanted \cup ({e} \X found)
    BY DEF Dispatch, FindWebhooks, CreateDelivery, AddDelivery, DispatchError, hookVars
  <2> QED
    BY <2>1, <2>2 DEF TypeOK
<1>4. RowType'
  <2>1. \/ row' = row
        \/ \E w \in Webhooks : row' = [row EXCEPT ![<<e, w>>] = [status |-> "PENDING", attempts |-> 0]]
    BY DEF Dispatch, FindWebhooks, CreateDelivery, AddDelivery, DispatchError, workVars
  <2>2. [status |-> "PENDING", attempts |-> 0] \in Row
    BY DEF Row, WebhookDeliveryStatus
  <2> QED
    BY <2>1, <2>2 DEF TypeOK, RowType
<1>5. faults' \in [crash : Nat, error : Nat]
  BY ErrorType DEF Dispatch, FindWebhooks, CreateDelivery, AddDelivery, DispatchError, TypeOK
<1>6. EntryType'
  <2>1. AddEntry(e) \in [Deliveries -> Entry]
    BY EntryOperations DEF AddEntry, TypeOK
  <2> QED
    BY <2>1 DEF Dispatch, FindWebhooks, CreateDelivery, AddDelivery, DispatchError, workVars, TypeOK,
                EntryType
<1> QED
  BY <1>1, <1>2, <1>3, <1>4, <1>5, <1>6
  DEF TypeOK, HookType, DispType, RunType, HistoryType, RowType, EntryType, SlotRecord,
      Call, CallStep, CallTodo, CallAt

LEMMA TypeTake ==
  ASSUME TypeOK, NEW s \in Slots, NEW d \in Deliveries, TakeDelivery(s, d)
  PROVE  TypeOK'
<1>1. UNCHANGED <<hook, wanted, changes, disp, row, failures, posts, accepted, faults>>
  BY DEF TakeDelivery, hookVars
<1>2. EntryType'
  BY EntryOperations DEF TakeDelivery, TypeOK, EntryType
<1>3. RunType'
  BY WebhookAssumption DEF WebhookAssumption, TakeDelivery, TypeOK, RunType, SlotRecord, RunStep
<1> QED
  BY <1>1, <1>2, <1>3 DEF TypeOK, HookType, DispType, RunType, HistoryType, RowType, EntryType, SlotRecord,
      Call, CallStep, CallTodo, CallAt

\* What an update of the delivery's row does.
LEMMA UpdateFrame ==
  ASSUME TypeOK, NEW s \in Slots, run[s].pc # "idle", NEW new \in Row,
         NEW next \in RunStep \ {"idle"}, NEW otherwise \in RunStep \ {"idle"},
         UpdateRow(s, new, next, otherwise)
  PROVE  /\ RowType' /\ RunType' /\ faults' \in [crash : Nat, error : Nat]
         /\ faults'.crash = faults.crash /\ faults'.error \in {faults.error, faults.error + 1}
         /\ UNCHANGED <<hookVars, disp, entry, failures, posts, accepted>>
         /\ \A t \in Slots : t # s => run'[t] = run[t]
         /\ \A d \in Deliveries : d # run[s].job => row'[d] = row[d]
         /\ run[s].job \in Deliveries
         /\ row'[run[s].job] \in {row[run[s].job], new}
         /\ run'[s] \in {[run[s] EXCEPT !.pc = next], [run[s] EXCEPT !.pc = otherwise]}
         /\ faults'.error = faults.error =>
              IF Exists(run[s].job)
                THEN row'[run[s].job] = new /\ run'[s] = [run[s] EXCEPT !.pc = next]
                ELSE row'[run[s].job] = row[run[s].job]
<1> DEFINE d == run[s].job
           write == IF Exists(d) THEN [row EXCEPT ![d] = new] ELSE row
<1>0. d \in Deliveries
  BY BusySlot
<1>1. /\ write \in [Deliveries -> Row]
      /\ \A i \in Deliveries : i # d => write[i] = row[i]
      /\ write[d] = IF Exists(d) THEN new ELSE row[d]
  BY <1>0 DEF TypeOK
<1> HIDE DEF write
<1>2. \/ row' = write /\ Goto(s, IF Exists(d) THEN next ELSE otherwise) /\ UNCHANGED faults
      \/ row' \in {row, write} /\ Goto(s, otherwise) /\ CountError
  BY DEF UpdateRow, write
<1>3. /\ RunType'
      /\ run'[s] = [run[s] EXCEPT !.pc = next] \/ run'[s] = [run[s] EXCEPT !.pc = otherwise]
      /\ \A t \in Slots : t # s => run'[t] = run[t]
  BY <1>2, GotoType
<1>4. /\ faults' \in [crash : Nat, error : Nat]
      /\ faults'.crash = faults.crash /\ faults'.error \in {faults.error, faults.error + 1}
      /\ CountError => faults'.error # faults.error
  BY <1>2, ErrorType DEF TypeOK
<1>5. RowType' /\ (\A i \in Deliveries : i # d => row'[i] = row[i]) /\ row'[d] \in {row[d], new}
  BY <1>0, <1>1, <1>2 DEF TypeOK, RowType
<1>6. faults'.error = faults.error /\ Exists(d) => row'[d] = new /\ run'[s] = [run[s] EXCEPT !.pc = next]
  BY <1>0, <1>1, <1>2, <1>4, GotoType
<1>7. ~ Exists(d) => row'[d] = row[d]
  BY <1>0, <1>1, <1>2
<1>8. UNCHANGED <<hookVars, disp, entry, failures, posts, accepted>>
  BY DEF UpdateRow
<1> QED
  BY <1>0, <1>3, <1>4, <1>5, <1>6, <1>7, <1>8

LEMMA TypeProcess ==
  ASSUME TypeOK, NEW s \in Slots, Process(s)
  PROVE  TypeOK'
<1> DEFINE d == run[s].job
<1>0. run[s].pc # "idle" /\ d \in Deliveries /\ row[d] \in Row /\ UrlFor(d) \in Urls
      /\ run[s].attempts \in Nat
  <2>1. run[s].pc # "idle"
    BY DEF Process, Read, CheckCircuit, FailFast, Post, RecordSuccess, MarkDelivered, RecordFailure,
           MarkFailure, Ack, Nack, Finish, Record
  <2>2. d \in Deliveries
    BY <2>1, BusySlot
  <2>3. UrlFor(d) \in Urls
    BY <2>2, WebhookAssumption DEF WebhookAssumption, UrlFor, Deliveries
  <2> QED
    BY <2>1, <2>2, <2>3 DEF TypeOK
<1> HIDE DEF d
<1>1. ASSUME NEW new \in Row, NEW next \in RunStep \ {"idle"}, NEW otherwise \in RunStep \ {"idle"},
             UpdateRow(s, new, next, otherwise)
      PROVE  TypeOK'
  <2>1. RowType' /\ RunType' /\ faults' \in [crash : Nat, error : Nat]
        /\ UNCHANGED <<hookVars, disp, entry, failures, posts, accepted>>
    BY <1>0, <1>1, UpdateFrame
  <2> QED
    BY <2>1
    DEF hookVars, TypeOK, HookType, DispType, RunType, HistoryType, RowType, EntryType, SlotRecord,
        Call, CallStep, CallTodo, CallAt
<1>2. CASE Read(s)
  <2>1. faults' \in [crash : Nat, error : Nat]
    BY <1>2, ErrorType DEF Read, TypeOK
  <2>2. RunType'
    <3>1. CASE run' = [run EXCEPT ![s].pc = "check", ![s].attempts = row[d].attempts]
      <4>1. "check" \in RunStep \ {"idle"} /\ row[d].attempts \in Nat
        BY <1>0 DEF RunStep, Row
      <4>2. run \in [Slots -> SlotRecord] /\ \A t \in Slots : run[t].pc = "idle" <=> run[t].job = NoDelivery
        BY DEF TypeOK, SlotRecord
      <4>3. run' \in [Slots -> SlotRecord]
        <5>1. run[s] \in SlotRecord
          BY <4>2
        <5>2. [run[s] EXCEPT !.pc = "check", !.attempts = row[d].attempts] \in SlotRecord
          BY <4>1, <5>1 DEF SlotRecord
        <5>3. run' = [run EXCEPT ![s] = [run[s] EXCEPT !.pc = "check", !.attempts = row[d].attempts]]
          BY <3>1, <4>2
        <5> QED
          BY <4>2, <5>2, <5>3
      <4>4. \A t \in Slots : run'[t].pc = "idle" <=> run'[t].job = NoDelivery
        BY <1>0, <3>1, <4>1, <4>2 DEF SlotRecord
      <4> QED
        BY <4>3, <4>4 DEF RunType
    <3>2. CASE Goto(s, "ack") \/ Goto(s, "nack")
      BY <1>0, <3>2, GotoType DEF RunStep
    <3> QED
      BY <1>2, <3>1, <3>2 DEF Read, d
  <2> QED
    BY <1>2, <2>1, <2>2 DEF Read, hookVars, TypeOK, RunType, SlotRecord
<1>3. CASE CheckCircuit(s)
  <2>1. faults' \in [crash : Nat, error : Nat]
    BY <1>3, ErrorType DEF CheckCircuit, TypeOK
  <2>2. RunType'
    BY <1>0, <1>3, GotoType DEF CheckCircuit, RunStep
  <2> QED
    BY <1>3, <2>1, <2>2 DEF CheckCircuit, hookVars, TypeOK, RunType, SlotRecord
<1>4. CASE FailFast(s)
  <2>1. [row[d] EXCEPT !.status = "FAILED"] \in Row
    BY <1>0 DEF Row, WebhookDeliveryStatus
  <2> QED
    BY <1>1, <1>4, <2>1 DEF FailFast, afterFailFast, RunStep, d
<1>5. CASE Post(s)
  <2>1. RunType'
    BY <1>0, <1>5, GotoType DEF Post, afterRefusal, RunStep
  <2>2. posts' \in [Deliveries -> Nat] /\ accepted' \in [Deliveries -> BOOLEAN]
    <3>1. posts' = [posts EXCEPT ![d] = @ + 1] /\ accepted' \in {accepted, [accepted EXCEPT ![d] = TRUE]}
      BY <1>5 DEF Post, d
    <3>2. posts[d] + 1 \in Nat /\ posts \in [Deliveries -> Nat] /\ accepted \in [Deliveries -> BOOLEAN]
      BY <1>0 DEF TypeOK
    <3>3. posts' \in [Deliveries -> Nat]
      BY <3>1, <3>2
    <3>4. accepted' \in [Deliveries -> BOOLEAN]
      BY <3>1, <3>2
    <3> QED
      BY <3>3, <3>4
  <2> QED
    BY <1>5, <2>1, <2>2 DEF Post, hookVars, TypeOK, RunType, SlotRecord
<1>6. ASSUME NEW step, NEW n \in Nat, NEW next \in RunStep \ {"idle"}, Record(s, step, n, next)
      PROVE  TypeOK'
  <2>1. faults' \in [crash : Nat, error : Nat]
    BY <1>6, ErrorType DEF Record, TypeOK
  <2>2. failures' \in [Urls -> Nat]
    BY <1>0, <1>6 DEF Record, TypeOK, d
  <2>3. RunType'
    BY <1>0, <1>6, GotoType DEF Record
  <2> QED
    BY <1>6, <2>1, <2>2, <2>3 DEF Record, hookVars, TypeOK, RunType, SlotRecord
<1>7. CASE RecordSuccess(s)
  BY <1>6, <1>7 DEF RecordSuccess, RunStep
<1>8. CASE MarkDelivered(s)
  <2>1. [row[d] EXCEPT !.status = "DELIVERED"] \in Row
    BY <1>0 DEF Row, WebhookDeliveryStatus
  <2> QED
    BY <1>1, <1>8, <2>1 DEF MarkDelivered, RunStep, d
<1>9. CASE RecordFailure(s)
  <2>1. failures[UrlFor(d)] + 1 \in Nat
    BY <1>0 DEF TypeOK
  <2> QED
    BY <1>6, <1>9, <2>1 DEF RecordFailure, RunStep, d
<1>10. CASE MarkFailure(s)
  <2> DEFINE n == nextAttempts(run[s].attempts)
  <2>1. [status |-> "FAILED", attempts |-> n] \in Row /\ [status |-> "RETRYING", attempts |-> n] \in Row
    BY <1>0 DEF nextAttempts, Row, WebhookDeliveryStatus
  <2>2. \/ UpdateRow(s, [status |-> "FAILED", attempts |-> n], "ack", "nack")
        \/ UpdateRow(s, [status |-> "RETRYING", attempts |-> n], "nack", "nack")
    BY <1>10 DEF MarkFailure
  <2> QED
    BY <1>1, <2>1, <2>2 DEF RunStep
<1>11. ASSUME NEW step, NEW new \in Entry, Finish(s, step, new)
       PROVE  TypeOK'
  <2>1. entry' \in [Deliveries -> Entry]
    BY <1>0, <1>11 DEF Finish, TypeOK, d
  <2>2. RunType'
    BY <1>11 DEF Finish, Freed, Idle, TypeOK, RunType, SlotRecord, RunStep
  <2> QED
    BY <1>11, <2>1, <2>2 DEF Finish, hookVars, TypeOK, RunType, SlotRecord
<1>12. CASE Ack(s)
  BY <1>0, <1>11, <1>12, EntryOperations DEF Ack, TypeOK, d
<1>13. CASE Nack(s)
  BY <1>0, <1>11, <1>13, EntryOperations, WebhookAssumption
  DEF WebhookAssumption, Nack, attemptsOption, TypeOK, d
<1> QED
  BY <1>2, <1>3, <1>4, <1>5, <1>7, <1>8, <1>9, <1>10, <1>12, <1>13 DEF Process

LEMMA TypeRest ==
  ASSUME TypeOK,
         \/ \E dead \in SUBSET Slots : Crash(dead)
         \/ \E d \in Deliveries : QueueTimer(d) \/ Trim(d)
         \/ \E u \in Urls : ExpireFailures(u)
  PROVE  TypeOK'
<1>1. ASSUME NEW dead \in SUBSET Slots, Crash(dead) PROVE TypeOK'
  <2>1. entry' \in [Deliveries -> Entry]
    BY <1>1, EntryOperations DEF Crash, TypeOK
  <2>2. RunType'
    BY <1>1 DEF Crash, Idle, TypeOK, RunType, SlotRecord, RunStep
  <2>3. faults' \in [crash : Nat, error : Nat]
    BY <1>1 DEF Crash, TypeOK
  <2> QED
    BY <1>1, <2>1, <2>2, <2>3 DEF Crash, hookVars, TypeOK, RunType, SlotRecord
<1>2. ASSUME NEW d \in Deliveries, QueueTimer(d) \/ Trim(d) PROVE TypeOK'
  <2>1. PICK new \in Entry : QueueStep(d, new)
    BY <1>2, EntryOperations DEF QueueTimer, ExpireLock, StalledCheck, EndBackoff, Trim, TypeOK
  <2> QED
    BY <2>1 DEF QueueStep, hookVars, TypeOK
<1>3. ASSUME NEW u \in Urls, ExpireFailures(u) PROVE TypeOK'
  BY <1>3 DEF ExpireFailures, hookVars, TypeOK
<1> QED
  BY <1>1, <1>2, <1>3

LEMMA TypeStep ==
  ASSUME TypeOK, Next
  PROVE  TypeOK'
BY TypeClients, TypeDispatch, TypeTake, TypeProcess, TypeRest DEF Next

\* Every variable keeps its type; a slot is idle exactly when it has no delivery.
THEOREM TypeCorrect == Spec => []TypeOK
<1>1. TypeOK /\ UNCHANGED vars => TypeOK'
  BY DEF TypeOK, vars
<1> QED
  BY TypeInit, TypeStep, <1>1, PTL DEF Spec

-----------------------------------------------------------------------------
(***************************************************************************)
(* The ledger of a delivery: requests sent against the attempts and the    *)
(* stalls that the entry has counted, the row's attempts against the       *)
(* requests, and the verdict DELIVERED against the endpoint's answer.      *)
(***************************************************************************)
Alive == {"waiting", "active", "delayed"}
Verdicts == {"DELIVERED", "FAILED"}

\* The event has yet to add this delivery's entry to the queue.
Unsent(d) ==
  \/ disp[d[1]].pc = "idle"
  \/ disp[d[1]].pc \in {"create", "add"} /\ d[2] \in disp[d[1]].todo

\* The processor's steps up to the request, and those between it and the end.
Before == {"read", "check", "failFast", "post"}
Beyond == {"recordSuccess", "markDelivered", "recordFailure", "markFailure"}

\* May the current run have sent its request?  A run that was cut off may have.
Spent(e, runs) ==
  IF e.st # "active" \/ (e.holder \in Slots /\ runs[e.holder].pc \in Before) THEN 0 ELSE 1

Ledger(d) ==
  /\ Unsent(d) => /\ entry[d] = Absent /\ posts[d] = 0
                  /\ row[d].status \in {"NONE", "PENDING"} /\ row[d].attempts = 0
  /\ entry[d].holder # NoLock => entry[d].st = "active"
  /\ entry[d].holder \in Slots => run[entry[d].holder].job = d
  /\ entry[d].st \in Alive =>
       /\ entry[d].made < MaxAttempts
       /\ entry[d].stalls <= MaxStalledCount
       /\ posts[d] <= entry[d].made + entry[d].stalls + Spent(entry[d], run)
  /\ posts[d] <= MaxAttempts + MaxStalledCount
  /\ row[d].attempts <= posts[d]
  /\ row[d].status = "DELIVERED" => accepted[d]

SlotLedger(s) ==
  run[s].pc # "idle" =>
    /\ entry[run[s].job].st = "active" /\ entry[run[s].job].holder = s
    /\ run[s].pc \in {"recordSuccess", "markDelivered"} => accepted[run[s].job]
    /\ run[s].pc \in {"check", "failFast", "post"} => run[s].attempts <= posts[run[s].job]
    /\ run[s].pc \in Beyond => run[s].attempts < posts[run[s].job]

LedgerInv == (\A d \in Deliveries : Ledger(d)) /\ (\A s \in Slots : SlotLedger(s))

(***************************************************************************)
(* A delivery that is still wanted, as long as no call fails and BullMQ    *)
(* tolerates the crashes: the row keeps pace with the queue, and whatever  *)
(* ends the entry has written a verdict first.                             *)
(***************************************************************************)
Cut(e) == e.stalls + (IF e.st = "active" /\ e.holder \notin Slots THEN 1 ELSE 0)

\* The queue is done with the delivery.
Ended(d) ==
  \/ Finished(entry[d])
  \/ entry[d].st = "absent" /\ disp[d[1]].pc = "done"
  \/ entry[d].st = "absent" /\ disp[d[1]].pc \in {"create", "add"} /\ d[2] \notin disp[d[1]].todo

HeldPace(r, e, q) ==
  /\ q.pc \in Before \cup Beyond => e.made <= r.attempts
  /\ q.pc \in {"check", "failFast", "post"} \cup Beyond => q.attempts = r.attempts
  /\ q.pc = "nack" => e.made < r.attempts /\ r.attempts < MaxAttempts
  /\ q.pc = "ack" => e.made <= r.attempts /\ r.status \in Verdicts

Pace(d) ==
  /\ hook[d[2]] = "active"
  /\ disp[d[1]].pc # "idle"
  /\ disp[d[1]].pc = "add" /\ disp[d[1]].at = d[2] => Exists(d)
  /\ entry[d].st # "absent" => Exists(d)
  /\ entry[d].st \in Alive => entry[d].made <= row[d].attempts /\ Cut(entry[d]) <= faults.crash
  /\ entry[d].holder \in Slots => HeldPace(row[d], entry[d], run[entry[d].holder])
  /\ Ended(d) => row[d].status \in Verdicts

PaceInv == Calm => \A d \in wanted : Pace(d)

\* Without faults a verdict is written last, by the slot that is about to tell the
\* queue that it is done.
Final(d) ==
  row[d].status \in Verdicts /\ entry[d].st \in Alive =>
    entry[d].holder \in Slots /\ run[entry[d].holder].pc = "ack"

FinalInv == faults.error + faults.crash = 0 => \A d \in Deliveries : Final(d)

\* A delivery is the pair of its event and its webhook.
LEMMA DeliveryPair ==
  ASSUME NEW d \in Deliveries
  PROVE  d[1] \in Events /\ d[2] \in Webhooks /\ d = <<d[1], d[2]>>
BY DEF Deliveries

\* How far a call of dispatchEvent comes with each step.
LEMMA CallSteps ==
  ASSUME TypeOK, NEW e \in Events
  PROVE  /\ FindWebhooks(e) =>
              /\ disp[e].pc = "idle" /\ disp'[e].pc \in {"done", "create"}
              /\ disp'[e].todo = {w \in Webhooks : hook[w] = "active"}
              /\ disp'[e].pc = "done" => disp'[e].todo = {}
         /\ \A w \in Webhooks : CreateDelivery(e, w) =>
              /\ disp[e].pc = "create" /\ w \in disp[e].todo /\ disp'[e].todo = disp[e].todo
              /\ \/ hook[w] = "deleted" /\ disp'[e].pc = "failed"
                 \/ disp'[e].pc = "add" /\ disp'[e].at = w
         /\ AddDelivery(e) =>
              /\ disp[e].pc = "add" /\ disp'[e].pc \in {"done", "create"}
              /\ disp'[e].todo = disp[e].todo \ {disp[e].at}
              /\ disp'[e].pc = "done" => disp'[e].todo = {}
         /\ DispatchError(e) =>
              /\ disp[e].pc \in {"idle", "create", "add"} /\ disp'[e].pc = "failed"
              /\ disp'[e].todo = disp[e].todo
         /\ Dispatch(e) \/ DispatchError(e) => \A x \in Events : x # e => disp'[x] = disp[x]
<1>1. disp \in [Events -> Call]
  BY DEF TypeOK, Call, CallStep, CallTodo, CallAt
<1>2. ASSUME FindWebhooks(e)
      PROVE  /\ disp[e].pc = "idle" /\ disp'[e].pc \in {"done", "create"}
             /\ disp'[e].todo = {w \in Webhooks : hook[w] = "active"}
             /\ disp'[e].pc = "done" => disp'[e].todo = {}
  <2> DEFINE found == {w \in Webhooks : hook[w] = "active"}
  <2>1. disp[e].pc = "idle" /\ disp' = [disp EXCEPT ![e].pc = IF found = {} THEN "done" ELSE "create", ![e].todo = found]
    BY <1>2 DEF FindWebhooks
  <2> HIDE DEF found
  <2>2. disp'[e].pc = (IF found = {} THEN "done" ELSE "create") /\ disp'[e].todo = found
    BY <1>1, <2>1 DEF Call
  <2> QED
    BY <2>1, <2>2 DEF found
<1>3. ASSUME NEW w \in Webhooks, CreateDelivery(e, w)
      PROVE  /\ disp[e].pc = "create" /\ w \in disp[e].todo /\ disp'[e].todo = disp[e].todo
             /\ \/ hook[w] = "deleted" /\ disp'[e].pc = "failed"
                \/ disp'[e].pc = "add" /\ disp'[e].at = w
  BY <1>1, <1>3 DEF CreateDelivery, Call
<1>4. ASSUME AddDelivery(e)
      PROVE  /\ disp[e].pc = "add" /\ disp'[e].pc \in {"done", "create"}
             /\ disp'[e].todo = disp[e].todo \ {disp[e].at}
             /\ disp'[e].pc = "done" => disp'[e].todo = {}
  <2> DEFINE left == disp[e].todo \ {disp[e].at}
  <2>1. disp[e].pc = "add" /\ disp' = [disp EXCEPT ![e].pc = IF left = {} THEN "done" ELSE "create", ![e].todo = left]
    BY <1>4 DEF AddDelivery
  <2> HIDE DEF left
  <2>2. disp'[e].pc = (IF left = {} THEN "done" ELSE "create") /\ disp'[e].todo = left
    BY <1>1, <2>1 DEF Call
  <2> QED
    BY <2>1, <2>2 DEF left
<1>5. ASSUME DispatchError(e)
      PROVE  /\ disp[e].pc \in {"idle", "create", "add"} /\ disp'[e].pc = "failed"
             /\ disp'[e].todo = disp[e].todo
  BY <1>1, <1>5 DEF DispatchError, Call
<1>6. ASSUME Dispatch(e) \/ DispatchError(e) PROVE \A x \in Events : x # e => disp'[x] = disp[x]
  BY <1>1, <1>6 DEF Dispatch, FindWebhooks, CreateDelivery, AddDelivery, DispatchError
<1> QED
  BY <1>2, <1>3, <1>4, <1>5, <1>6

\* A step that leaves a delivery's entry, its requests and what its slot may still
\* send alone, and its row or resets it.
LEMMA LedgerKept ==
  ASSUME NEW i \in Deliveries, Ledger(i), TypeOK,
         entry'[i] = entry[i], posts'[i] = posts[i], accepted[i] => accepted'[i],
         Unsent(i)' => Unsent(i),
         row'[i] = row[i] \/ (row'[i].status \in {"NONE", "PENDING"} /\ row'[i].attempts = 0),
         entry[i].holder \in Slots =>
           /\ run'[entry[i].holder].job = run[entry[i].holder].job
           /\ run'[entry[i].holder].pc \in Before => run[entry[i].holder].pc \in Before
  PROVE  Ledger(i)'
<1>1. Spent(entry'[i], run) <= Spent(entry'[i], run') /\ Spent(entry'[i], run) \in Nat
      /\ Spent(entry'[i], run') \in Nat
  BY DEF Spent
<1>2. /\ entry[i] \in Entry /\ posts[i] \in Nat
  BY DEF TypeOK
<1> QED
  BY <1>1, <1>2 DEF Ledger, Entry

\* The slot at work on a delivery goes on: it sends the request at most once.
LEMMA LedgerHeld ==
  ASSUME NEW i \in Deliveries, Ledger(i), TypeOK, NEW s \in Slots,
         entry[i].st = "active", entry[i].holder = s,
         entry'[i] = entry[i], disp' = disp, run'[s].job = i,
         \/ posts'[i] = posts[i] /\ (run'[s].pc \in Before => run[s].pc \in Before)
         \/ posts'[i] = posts[i] + 1 /\ run[s].pc \in Before /\ run'[s].pc \notin Before,
         row'[i].attempts <= posts'[i],
         row'[i].status = "DELIVERED" => accepted'[i]
  PROVE  Ledger(i)'
<1>1. ~ Unsent(i) /\ ~ Unsent(i)'
  BY DEF Ledger, Absent, Unsent
<1>2. /\ entry[i].made \in Nat /\ entry[i].stalls \in Nat /\ posts[i] \in Nat /\ MaxAttempts \in Nat
      /\ MaxStalledCount \in Nat
  BY WebhookAssumption, StalledAssumption DEF WebhookAssumption, StalledAssumption, TypeOK, Entry
<1>3. /\ entry[i].made < MaxAttempts /\ entry[i].stalls <= MaxStalledCount
      /\ posts[i] <= entry[i].made + entry[i].stalls + Spent(entry[i], run)
  BY DEF Ledger, Alive
<1>4. posts'[i] <= entry[i].made + entry[i].stalls + Spent(entry[i], run')
      /\ Spent(entry[i], run') \in {0, 1}
  BY <1>2, <1>3 DEF Spent
<1>5. posts'[i] <= MaxAttempts + MaxStalledCount
  BY <1>2, <1>3, <1>4
<1> QED
  BY <1>1, <1>3, <1>4, <1>5 DEF Ledger

\* The run is over, or its slot is gone, and the entry counts it; or a timer moves
\* an entry that no slot works on.
LEMMA LedgerReleased ==
  ASSUME NEW i \in Deliveries, Ledger(i), TypeOK, NEW new \in Entry, entry'[i] = new,
         row'[i] = row[i], posts'[i] = posts[i], accepted'[i] = accepted[i], disp' = disp,
         entry[i].st # "absent", new.holder \notin Slots,
         \/ entry[i].st = "active"
              /\ new \in {Complete(entry[i]), Fail(entry[i], MaxAttempts), [entry[i] EXCEPT !.holder = Orphan]}
         \/ entry[i].st = "active" /\ entry[i].holder \notin Slots
              /\ new \in {ReleaseLock(entry[i]), Stall(entry[i])} /\ (new = Stall(entry[i]) => new.holder = NoLock)
         \/ entry[i].st = "delayed" /\ new = Promote(entry[i])
         \/ new = Absent
  PROVE  Ledger(i)'
<1>1. ~ Unsent(i) /\ ~ Unsent(i)'
  BY DEF Ledger, Absent, Unsent
<1>2. /\ entry[i].made \in Nat /\ entry[i].stalls \in Nat /\ posts[i] \in Nat /\ MaxAttempts \in Nat
      /\ MaxStalledCount \in Nat /\ entry[i] \in Entry
  BY WebhookAssumption, StalledAssumption DEF WebhookAssumption, StalledAssumption, TypeOK, Entry
<1>3. /\ posts[i] <= MaxAttempts + MaxStalledCount
      /\ row[i].attempts <= posts[i] /\ (row[i].status = "DELIVERED" => accepted[i])
  BY DEF Ledger
<1>4. ASSUME entry[i].st \in Alive
      PROVE  /\ entry[i].made < MaxAttempts /\ entry[i].stalls <= MaxStalledCount
             /\ posts[i] <= entry[i].made + entry[i].stalls + Spent(entry[i], run)
             /\ Spent(entry[i], run) \in {0, 1}
             /\ entry[i].st # "active" => Spent(entry[i], run) = 0
  BY <1>4 DEF Ledger, Spent
<1>5. new.holder # NoLock => new.st = "active"
  BY <1>2, LockAssumption
  DEF LockAssumption, Ledger, Complete, Fail, ReleaseLock, Stall, Promote, Absent, Entry
<1>6. ASSUME new.st \in Alive
      PROVE  /\ new.made < MaxAttempts /\ new.stalls <= MaxStalledCount
             /\ posts[i] <= new.made + new.stalls + (IF new.st = "active" THEN 1 ELSE 0)
  <2>1. CASE entry[i].st = "active" /\ new = Complete(entry[i])
    BY <1>6, <2>1 DEF Complete, Alive
  <2>2. CASE entry[i].st = "active" /\ new = Fail(entry[i], MaxAttempts)
    BY <1>2, <1>4, <1>6, <2>2 DEF Fail, Alive
  <2>3. CASE entry[i].st = "active" /\ new = [entry[i] EXCEPT !.holder = Orphan]
    BY <1>2, <1>4, <1>6, <2>3 DEF Alive, Entry
  <2>4. CASE entry[i].st = "active" /\ new = ReleaseLock(entry[i])
    BY <1>2, <1>4, <1>6, <2>4 DEF ReleaseLock, Alive, Entry
  <2>5. CASE entry[i].st = "active" /\ new = Stall(entry[i])
    BY <1>2, <1>4, <1>6, <2>5 DEF Stall, Alive
  <2>6. CASE entry[i].st = "delayed" /\ new = Promote(entry[i])
    BY <1>2, <1>4, <1>6, <2>6 DEF Promote, Alive, Entry
  <2>7. CASE new = Absent
    BY <1>6, <2>7 DEF Absent, Alive
  <2> QED
    BY <2>1, <2>2, <2>3, <2>4, <2>5, <2>6, <2>7
<1>7. Spent(new, run') = IF new.st = "active" THEN 1 ELSE 0
  BY DEF Spent
<1> QED
  BY <1>1, <1>3, <1>5, <1>6, <1>7 DEF Ledger

\* What a slot has written of its run stays true while only others step.
LEMMA SlotKept ==
  ASSUME TypeOK, NEW t \in Slots, SlotLedger(t), run'[t] = run[t],
         run[t].pc # "idle" =>
           /\ entry'[run[t].job] = entry[run[t].job]
           /\ posts'[run[t].job] = posts[run[t].job]
           /\ accepted[run[t].job] => accepted'[run[t].job]
  PROVE  SlotLedger(t)'
BY DEF SlotLedger

LEMMA LedgerClients ==
  ASSUME TypeOK, LedgerInv, NEW w \in Webhooks,
         createWebhook(w) \/ deleteWebhook(w)
           \/ \E state \in {"active", "inactive"} : updateWebhook(w, state)
  PROVE  LedgerInv'
<1>1. /\ disp' = disp /\ entry' = entry /\ run' = run /\ posts' = posts /\ accepted' = accepted
      /\ \A i \in Deliveries : row'[i] = row[i] \/ row'[i] = NoRow
  BY DEF createWebhook, deleteWebhook, updateWebhook, workVars, TypeOK
<1>2. ASSUME NEW i \in Deliveries PROVE Ledger(i)'
  BY <1>1, LedgerKept DEF LedgerInv, NoRow, Unsent
<1>3. ASSUME NEW t \in Slots PROVE SlotLedger(t)'
  BY <1>1, SlotKept DEF LedgerInv
<1> QED
  BY <1>2, <1>3 DEF LedgerInv

LEMMA LedgerDispatch ==
  ASSUME TypeOK, LedgerInv, NEW e \in Events, Dispatch(e) \/ DispatchError(e)
  PROVE  LedgerInv'
<1>1. /\ run' = run /\ posts' = posts /\ accepted' = accepted
      /\ \A x \in Events : x # e => disp'[x] = disp[x]
      /\ disp[e].pc \notin {"done", "failed"}
  BY DEF Dispatch, FindWebhooks, CreateDelivery, AddDelivery, DispatchError, workVars, TypeOK
<1>2. ASSUME NEW i \in Deliveries, Unsent(i)' PROVE Unsent(i)
  <2>1. /\ disp'[e].pc # "idle"
        /\ disp[e].pc # "idle" => disp[e].pc \in {"create", "add"} /\ disp'[e].todo \subseteq disp[e].todo
    BY CallSteps DEF Dispatch
  <2> QED
    BY <1>1, <1>2, <2>1, DeliveryPair DEF Unsent
<1>3. ASSUME NEW i \in Deliveries
      PROVE  /\ Ledger(i)'
             /\ entry[i].st = "active" => entry'[i] = entry[i]
  <2>1. CASE entry'[i] = entry[i]
    <3>1. \/ row'[i] = row[i]
          \/ row'[i] = [status |-> "PENDING", attempts |-> 0]
      <4>1. \/ row' = row
            \/ \E w \in Webhooks : row' = [row EXCEPT ![<<e, w>>] = [status |-> "PENDING", attempts |-> 0]]
        BY DEF Dispatch, FindWebhooks, CreateDelivery, AddDelivery, DispatchError, workVars
      <4> QED
        BY <4>1 DEF TypeOK
    <3> QED
      BY <1>1, <1>2, <2>1, <3>1, LedgerKept DEF LedgerInv
  <2>2. CASE entry'[i] # entry[i]
    <3>1. /\ entry' = AddEntry(e) /\ disp[e].pc = "add" /\ row' = row
          /\ disp'[e].pc = "failed" \/ disp'[e].todo = disp[e].todo \ {disp[e].at}
          /\ disp'[e].pc \in {"failed", "create", "done"}
      <4>1. AddDelivery(e) \/ (DispatchError(e) /\ disp[e].pc = "add")
        BY <2>2 DEF Dispatch, FindWebhooks, CreateDelivery, DispatchError, workVars
      <4>2. entry' = AddEntry(e) /\ row' = row
        BY <2>2, <4>1 DEF AddDelivery, DispatchError
      <4> QED
        BY <4>1, <4>2, CallSteps
    <3>2. i = <<e, disp[e].at>> /\ entry'[i] = Add(entry[i])
      BY <2>2, <3>1 DEF AddEntry, TypeOK
    <3>3. i[1] = e /\ i[2] = disp[e].at
      BY <3>2
    <3>4. Unsent(i) /\ ~ Unsent(i)'
      BY <3>1, <3>3 DEF Unsent, TypeOK
    <3>5. entry'[i] = Add(Absent) /\ entry[i] = Absent /\ posts'[i] = 0 /\ row'[i] = row[i] /\ row[i].attempts = 0
          /\ row[i].status \in {"NONE", "PENDING"}
      BY <1>1, <3>1, <3>2, <3>4 DEF LedgerInv, Ledger
    <3> QED
      BY <3>4, <3>5, LockAssumption, WebhookAssumption, StalledAssumption
      DEF LockAssumption, WebhookAssumption, StalledAssumption, Ledger, Add, Absent, Spent
  <2> QED
    BY <2>1, <2>2
<1>4. ASSUME NEW t \in Slots PROVE SlotLedger(t)'
  <2>1. run[t].pc # "idle" => run[t].job \in Deliveries /\ entry[run[t].job].st = "active"
    BY BusySlot DEF LedgerInv, SlotLedger
  <2> QED
    BY <1>1, <1>3, <2>1, SlotKept DEF LedgerInv
<1> QED
  BY <1>3, <1>4 DEF LedgerInv

LEMMA LedgerTake ==
  ASSUME TypeOK, LedgerInv, NEW s \in Slots, NEW d \in Deliveries, TakeDelivery(s, d)
  PROVE  LedgerInv'
<1>1. /\ disp' = disp /\ row' = row /\ posts' = posts /\ accepted' = accepted
      /\ run[s].pc = "idle" /\ entry[d].st = "waiting" /\ entry'[d] = Take(entry[d], s)
      /\ \A i \in Deliveries : i # d => entry'[i] = entry[i]
      /\ \A t \in Slots : t # s => run'[t] = run[t]
      /\ run'[s] = [pc |-> "read", job |-> d, attempts |-> 0]
  BY DEF TakeDelivery, TypeOK
<1>2. run[s].job \notin Deliveries
  BY <1>1, WebhookAssumption DEF WebhookAssumption, TypeOK
<1>3. ASSUME NEW i \in Deliveries, i # d PROVE Ledger(i)'
  <2>1. entry[i].holder # s
    BY <1>2 DEF LedgerInv, Ledger
  <2> QED
    BY <1>1, <1>3, <2>1, LedgerKept DEF LedgerInv, Unsent
<1>4. Ledger(d)'
  <2>1. ~ Unsent(d)'
    BY <1>1 DEF LedgerInv, Ledger, Absent, Unsent
  <2>2. /\ entry'[d].st = "active" /\ entry'[d].holder = s
        /\ entry'[d].made = entry[d].made /\ entry'[d].stalls = entry[d].stalls
    BY <1>1 DEF Take, TypeOK, Entry
  <2>3. Spent(entry[d], run) = 0 /\ Spent(entry'[d], run') = 0
    BY <1>1, <2>2 DEF Spent, Before
  <2> QED
    BY <1>1, <2>1, <2>2, <2>3 DEF LedgerInv, Ledger, Alive
<1>5. ASSUME NEW t \in Slots PROVE SlotLedger(t)'
  <2>1. CASE t = s
    <3>1. entry'[d].st = "active" /\ entry'[d].holder = s
      BY <1>1 DEF Take, TypeOK, Entry
    <3> QED
      BY <1>1, <2>1, <3>1 DEF SlotLedger, Beyond
  <2>2. CASE t # s
    <3>1. run[t].pc # "idle" => run[t].job \in Deliveries /\ entry[run[t].job].st = "active"
      BY BusySlot DEF LedgerInv, SlotLedger
    <3> QED
      BY <1>1, <2>2, <3>1, SlotKept DEF LedgerInv
  <2> QED
    BY <2>1, <2>2
<1> QED
  BY <1>3, <1>4, <1>5 DEF LedgerInv

-----------------------------------------------------------------------------
\* A slot at work holds its delivery, which no other slot does.
LEMMA ProcessFrame ==
  ASSUME TypeOK, LedgerInv, NEW s \in Slots, Process(s)
  PROVE  /\ run[s].pc # "idle" /\ run[s].job \in Deliveries
         /\ entry[run[s].job].st = "active" /\ entry[run[s].job].holder = s
         /\ UNCHANGED <<hookVars, disp>> /\ faults'.crash = faults.crash
         /\ faults.error \in Nat /\ faults'.error \in {faults.error, faults.error + 1}
         /\ \A t \in Slots : t # s => run'[t] = run[t]
         /\ \A i \in Deliveries : i # run[s].job =>
              /\ row'[i] = row[i] /\ entry'[i] = entry[i]
              /\ posts'[i] = posts[i] /\ accepted'[i] = accepted[i]
         /\ ~ Ack(s) /\ ~ Nack(s) =>
              entry' = entry /\ run'[s].job = run[s].job /\ run'[s].pc # "idle"
<1> DEFINE d == run[s].job
<1>1. run[s].pc # "idle"
  BY DEF Process, Read, CheckCircuit, FailFast, Post, RecordSuccess, MarkDelivered, RecordFailure,
         MarkFailure, Ack, Nack, Finish, Record
<1>2. d \in Deliveries /\ entry[d].st = "active" /\ entry[d].holder = s
  BY <1>1, BusySlot DEF LedgerInv, SlotLedger
<1>3. UNCHANGED <<hookVars, disp>>
  BY DEF Process, Read, CheckCircuit, FailFast, Post, RecordSuccess, MarkDelivered, RecordFailure,
         MarkFailure, Ack, Nack, Finish, Record, UpdateRow
<1>4. /\ faults'.crash = faults.crash
      /\ faults.error \in Nat /\ faults'.error \in {faults.error, faults.error + 1}
  <2>1. faults.error \in Nat
    BY DEF TypeOK
  <2> QED
    BY <2>1, ErrorType
    DEF Process, Read, CheckCircuit, FailFast, Post, RecordSuccess, MarkDelivered, RecordFailure,
        MarkFailure, Ack, Nack, Finish, Record, UpdateRow
<1>5. \A t \in Slots : t # s => run'[t] = run[t]
  BY DEF Process, Read, CheckCircuit, FailFast, Post, RecordSuccess, MarkDelivered, RecordFailure,
         MarkFailure, Ack, Nack, Finish, Record, UpdateRow, Goto, TypeOK
<1>6. ASSUME NEW i \in Deliveries, i # d
      PROVE  /\ row'[i] = row[i] /\ entry'[i] = entry[i]
             /\ posts'[i] = posts[i] /\ accepted'[i] = accepted[i]
  <2>1. row'[i] = row[i]
    BY <1>6
    DEF Process, Read, CheckCircuit, FailFast, Post, RecordSuccess, MarkDelivered, RecordFailure,
        MarkFailure, Ack, Nack, Finish, Record, UpdateRow, TypeOK
  <2>2. entry'[i] = entry[i]
    BY <1>6
    DEF Process, Read, CheckCircuit, FailFast, Post, RecordSuccess, MarkDelivered, RecordFailure,
        MarkFailure, Ack, Nack, Finish, Record, UpdateRow, TypeOK
  <2>3. posts'[i] = posts[i] /\ accepted'[i] = accepted[i]
    BY <1>6
    DEF Process, Read, CheckCircuit, FailFast, Post, RecordSuccess, MarkDelivered, RecordFailure,
        MarkFailure, Ack, Nack, Finish, Record, UpdateRow, TypeOK
  <2> QED
    BY <2>1, <2>2, <2>3
<1>7. ASSUME ~ Ack(s), ~ Nack(s) PROVE entry' = entry /\ run'[s].job = d /\ run'[s].pc # "idle"
  <2>1. entry' = entry
    BY <1>7
    DEF Process, Read, CheckCircuit, FailFast, Post, RecordSuccess, MarkDelivered, RecordFailure,
        MarkFailure, Record, UpdateRow
  <2>2. \/ run' = [run EXCEPT ![s].pc = "check", ![s].attempts = row[d].attempts]
        \/ \E step \in RunStep \ {"idle"} : Goto(s, step)
    BY <1>7
    DEF Process, Read, CheckCircuit, FailFast, Post, RecordSuccess, MarkDelivered, RecordFailure,
        MarkFailure, Record, UpdateRow, afterFailFast, afterRefusal, RunStep
  <2>3. run \in [Slots -> SlotRecord]
    BY DEF TypeOK, SlotRecord
  <2> QED
    BY <2>1, <2>2, <2>3 DEF Goto, SlotRecord
<1> QED
  BY <1>1, <1>2, <1>3, <1>4, <1>5, <1>6, <1>7

\* What a step of the processor writes: q is the slot's record, r the row, p the
\* requests sent and a the answer of the endpoint, each before and after.
Wrote(q, r, p, a, q1, r1, p1, a1, exists, active, calm) ==
  \/ /\ q.pc = "read" /\ r1 = r /\ p1 = p /\ a1 = a
     /\ \/ exists /\ active /\ q1.pc = "check" /\ q1.attempts = r.attempts
        \/ ~ (exists /\ active) /\ q1.pc = "ack"
        \/ ~ calm /\ q1.pc = "nack"
  \/ /\ q.pc = "check" /\ r1 = r /\ p1 = p /\ a1 = a
     /\ q1.pc \in {"failFast", "post"} /\ q1.attempts = q.attempts
  \/ /\ q.pc = "failFast" /\ p1 = p /\ a1 = a /\ q1.pc \in {"ack", "nack"}
     /\ r1 = r \/ (exists /\ r1 = [r EXCEPT !.status = "FAILED"])
     /\ calm /\ exists => r1.status = "FAILED" /\ r1.attempts = r.attempts /\ q1.pc = "ack"
  \/ /\ q.pc = "post" /\ r1 = r /\ p1 = p + 1 /\ q1.attempts = q.attempts
     /\ \/ q1.pc = "recordSuccess" /\ a1
        \/ q1.pc = "recordFailure" /\ (a => a1)
  \/ /\ q.pc = "recordSuccess" /\ r1 = r /\ p1 = p /\ a1 = a
     /\ q1.pc = "markDelivered" /\ q1.attempts = q.attempts
  \/ /\ q.pc = "markDelivered" /\ p1 = p /\ a1 = a
     /\ q1.pc \in {"ack", "recordFailure"} /\ q1.attempts = q.attempts
     /\ r1 = r \/ (exists /\ r1 = [r EXCEPT !.status = "DELIVERED"])
     /\ calm /\ exists => r1.status = "DELIVERED" /\ r1.attempts = r.attempts /\ q1.pc = "ack"
  \/ /\ q.pc = "recordFailure" /\ r1 = r /\ p1 = p /\ a1 = a
     /\ q1.pc = "markFailure" /\ q1.attempts = q.attempts
  \/ /\ q.pc = "markFailure" /\ p1 = p /\ a1 = a /\ q1.pc \in {"ack", "nack"}
     /\ r1 = r \/ (exists /\ r1 = [status |-> IF Exhausted(q.attempts + 1) THEN "FAILED" ELSE "RETRYING",
                                   attempts |-> q.attempts + 1])
     /\ calm /\ exists =>
          r1.attempts = q.attempts + 1 /\
          IF Exhausted(q.attempts + 1) THEN r1.status = "FAILED" /\ q1.pc = "ack"
                                       ELSE r1.status = "RETRYING" /\ q1.pc = "nack"

LEMMA ProcessWrites ==
  ASSUME TypeOK, LedgerInv, NEW s \in Slots, Process(s), ~ Ack(s), ~ Nack(s), NEW d, d = run[s].job
  PROVE  Wrote(run[s], row[d], posts[d], accepted[d], run'[s], row'[d], posts'[d], accepted'[d],
               Exists(d), hook[d[2]] = "active", faults'.error = faults.error)
<1>0. /\ d \in Deliveries /\ run \in [Slots -> SlotRecord] /\ row[d] \in Row
      /\ posts \in [Deliveries -> Nat] /\ accepted \in [Deliveries -> BOOLEAN]
      /\ run[s].pc # "idle" /\ faults.error \in Nat
  BY ProcessFrame DEF TypeOK, SlotRecord
<1>1. /\ CountError => faults'.error # faults.error
      /\ \A step : Goto(s, step) => run'[s].pc = step /\ run'[s].attempts = run[s].attempts
  BY <1>0, ErrorType DEF Goto, SlotRecord
<1>2. CASE Read(s)
  <2>1. run' = [run EXCEPT ![s].pc = "check", ![s].attempts = row[d].attempts] =>
          run'[s].pc = "check" /\ run'[s].attempts = row[d].attempts
    BY <1>0 DEF SlotRecord
  <2> QED
    BY <1>1, <1>2, <2>1 DEF Read, Wrote
<1>3. CASE CheckCircuit(s)
  BY <1>1, <1>3 DEF CheckCircuit, Wrote
<1>4. ASSUME NEW new \in Row, NEW next \in RunStep \ {"idle"}, NEW otherwise \in RunStep \ {"idle"},
             UpdateRow(s, new, next, otherwise)
      PROVE  /\ posts' = posts /\ accepted' = accepted
             /\ row'[d] = row[d] \/ (Exists(d) /\ row'[d] = new)
             /\ run'[s].pc \in {next, otherwise} /\ run'[s].attempts = run[s].attempts
             /\ faults'.error = faults.error /\ Exists(d) => row'[d] = new /\ run'[s].pc = next
  <2>1. \/ row' = (IF Exists(d) THEN [row EXCEPT ![d] = new] ELSE row)
             /\ Goto(s, IF Exists(d) THEN next ELSE otherwise) /\ UNCHANGED faults
        \/ row' \in {row, IF Exists(d) THEN [row EXCEPT ![d] = new] ELSE row}
             /\ Goto(s, otherwise) /\ CountError
    BY <1>4 DEF UpdateRow
  <2>2. [row EXCEPT ![d] = new][d] = new
    BY <1>0 DEF TypeOK
  <2>3. posts' = posts /\ accepted' = accepted
    BY <1>4 DEF UpdateRow
  <2>4. CASE Exists(d)
    BY <1>1, <2>1, <2>2, <2>3, <2>4
  <2>5. CASE ~ Exists(d)
    BY <1>1, <2>1, <2>3, <2>5
  <2> QED
    BY <2>4, <2>5
<1>5. CASE FailFast(s)
  <2>1. [row[d] EXCEPT !.status = "FAILED"] \in Row
    BY <1>0 DEF Row, WebhookDeliveryStatus
  <2>2. run[s].pc = "failFast" /\ UpdateRow(s, [row[d] EXCEPT !.status = "FAILED"], "ack", "nack")
    BY <1>5 DEF FailFast, afterFailFast
  <2>3. "ack" \in RunStep \ {"idle"} /\ "nack" \in RunStep \ {"idle"}
    BY DEF RunStep
  <2>4. [row[d] EXCEPT !.status = "FAILED"].status = "FAILED"
        /\ [row[d] EXCEPT !.status = "FAILED"].attempts = row[d].attempts
    BY <1>0 DEF Row
  <2> QED
    BY <1>4, <2>1, <2>2, <2>3, <2>4 DEF Wrote
<1>6. CASE Post(s)
  <2>1. posts'[d] = posts[d] + 1
    BY <1>0, <1>6 DEF Post
  <2>2. /\ accepted' \in {accepted, [accepted EXCEPT ![d] = TRUE]}
        /\ \/ Goto(s, "recordSuccess") /\ accepted' = [accepted EXCEPT ![d] = TRUE]
           \/ Goto(s, "recordFailure")
    BY <1>6 DEF Post, afterRefusal
  <2>3. [accepted EXCEPT ![d] = TRUE][d] = TRUE
    BY <1>0
  <2>4. run[s].pc = "post" /\ row' = row
    BY <1>6 DEF Post
  <2> DEFINE before == accepted[d]
             after == accepted'[d]
  <2>5. \/ run'[s].pc = "recordSuccess" /\ after
        \/ run'[s].pc = "recordFailure" /\ (before => after)
    <3>1. CASE Goto(s, "recordSuccess") /\ accepted' = [accepted EXCEPT ![d] = TRUE]
      BY <1>1, <2>3, <3>1
    <3>2. CASE Goto(s, "recordFailure")
      <4>1. accepted' = accepted => (before => after)
        OBVIOUS
      <4>2. accepted' = [accepted EXCEPT ![d] = TRUE] => after
        BY <2>3
      <4>3. before => after
        BY <2>2, <4>1, <4>2
      <4> QED
        BY <1>1, <3>2, <4>3
    <3> QED
      BY <2>2, <3>1, <3>2
  <2>6. run'[s].attempts = run[s].attempts
    BY <1>1, <2>2
  <2> HIDE DEF before, after
  <2>7. Wrote(run[s], row[d], posts[d], before, run'[s], row'[d], posts'[d], after,
              Exists(d), hook[d[2]] = "active", faults'.error = faults.error)
    BY <2>1, <2>4, <2>5, <2>6 DEF Wrote
  <2> QED
    BY <2>7 DEF before, after
<1>7. CASE RecordSuccess(s)
  BY <1>1, <1>7 DEF RecordSuccess, Record, Wrote
<1>8. CASE MarkDelivered(s)
  <2>1. [row[d] EXCEPT !.status = "DELIVERED"] \in Row
    BY <1>0 DEF Row, WebhookDeliveryStatus
  <2>2. run[s].pc = "markDelivered"
        /\ UpdateRow(s, [row[d] EXCEPT !.status = "DELIVERED"], "ack", "recordFailure")
    BY <1>8 DEF MarkDelivered
  <2>3. "ack" \in RunStep \ {"idle"} /\ "recordFailure" \in RunStep \ {"idle"}
    BY DEF RunStep
  <2>4. [row[d] EXCEPT !.status = "DELIVERED"].status = "DELIVERED"
        /\ [row[d] EXCEPT !.status = "DELIVERED"].attempts = row[d].attempts
    BY <1>0 DEF Row
  <2> QED
    BY <1>4, <2>1, <2>2, <2>3, <2>4 DEF Wrote
<1>9. CASE RecordFailure(s)
  BY <1>1, <1>9 DEF RecordFailure, Record, Wrote
<1>10. CASE MarkFailure(s)
  <2> DEFINE n == run[s].attempts + 1
             new == [status |-> IF Exhausted(n) THEN "FAILED" ELSE "RETRYING", attempts |-> n]
             next == IF Exhausted(n) THEN "ack" ELSE "nack"
  <2>1. n \in Nat
    BY <1>0 DEF SlotRecord
  <2>2. new \in Row /\ next \in {"ack", "nack"} /\ new.attempts = n
        /\ new.status = (IF Exhausted(n) THEN "FAILED" ELSE "RETRYING")
    BY <2>1 DEF Row, WebhookDeliveryStatus
  <2>3. run[s].pc = "markFailure" /\ UpdateRow(s, new, next, "nack")
    BY <1>10 DEF MarkFailure, nextAttempts
  <2>4. {"ack", "nack"} \subseteq RunStep \ {"idle"}
    BY DEF RunStep
  <2>5. /\ posts' = posts /\ accepted' = accepted
        /\ row'[d] = row[d] \/ (Exists(d) /\ row'[d] = new)
        /\ run'[s].pc \in {next, "nack"}
        /\ faults'.error = faults.error /\ Exists(d) => row'[d] = new /\ run'[s].pc = next
    <3> HIDE DEF new, next
    <3> QED
      BY <1>4, <2>2, <2>3, <2>4
  <2> QED
    BY <2>2, <2>3, <2>5 DEF Wrote
<1> QED
  BY <1>2, <1>3, <1>5, <1>6, <1>7, <1>8, <1>9, <1>10 DEF Process

LEMMA LedgerProcess ==
  ASSUME TypeOK, LedgerInv, NEW s \in Slots, Process(s)
  PROVE  LedgerInv'
<1>0. PICK d \in Deliveries : d = run[s].job
  BY ProcessFrame
<1>1. /\ run[s].pc # "idle" /\ d = run[s].job
      /\ entry[d].st = "active" /\ entry[d].holder = s /\ disp' = disp
      /\ \A t \in Slots : t # s => run'[t] = run[t]
      /\ \A i \in Deliveries : i # d =>
           /\ row'[i] = row[i] /\ entry'[i] = entry[i]
           /\ posts'[i] = posts[i] /\ accepted'[i] = accepted[i]
  BY <1>0, ProcessFrame
<1>2. ASSUME NEW i \in Deliveries, i # d PROVE Ledger(i)'
  <2>1. entry[i].holder # s
    BY <1>1, <1>2 DEF LedgerInv, Ledger
  <2> QED
    BY <1>1, <1>2, <2>1, LedgerKept DEF LedgerInv, Unsent
<1>3. ASSUME NEW t \in Slots, t # s PROVE SlotLedger(t)'
  <2>1. run[t].pc # "idle" => run[t].job \in Deliveries /\ run[t].job # d
    BY <1>1, <1>3, BusySlot DEF LedgerInv, SlotLedger
  <2> QED
    BY <1>1, <1>3, <2>1, SlotKept DEF LedgerInv
<1>4. ASSUME ~ Ack(s), ~ Nack(s) PROVE Ledger(d)' /\ SlotLedger(s)'
  <2> DEFINE calm == faults'.error = faults.error
             active == hook[d[2]] = "active"
             before == accepted[d]
             after == accepted'[d]
  <2>1. Wrote(run[s], row[d], posts[d], before, run'[s], row'[d], posts'[d], after,
              Exists(d), active, calm)
    BY <1>1, <1>4, ProcessWrites
  <2>2. entry' = entry /\ run'[s].job = d /\ run'[s].pc # "idle"
    BY <1>1, <1>4, ProcessFrame
  <2>3. /\ posts[d] \in Nat /\ row[d].attempts \in Nat /\ run[s].attempts \in Nat
        /\ row[d] \in Row /\ row[d].attempts <= posts[d]
        /\ row[d].status = "DELIVERED" => before
        /\ run[s].pc \in {"recordSuccess", "markDelivered"} => before
        /\ run[s].pc \in {"check", "failFast", "post"} => run[s].attempts <= posts[d]
        /\ run[s].pc \in Beyond => run[s].attempts < posts[d]
    BY <1>1 DEF LedgerInv, Ledger, SlotLedger, TypeOK, Row
  <2> HIDE DEF calm, active, before, after
  <2>4. /\ row'[d].attempts <= posts'[d]
        /\ row'[d].status = "DELIVERED" => after
        /\ run'[s].pc \in {"recordSuccess", "markDelivered"} => after
        /\ run'[s].pc \in {"check", "failFast", "post"} => run'[s].attempts <= posts'[d]
        /\ run'[s].pc \in Beyond => run'[s].attempts < posts'[d]
    BY <2>1, <2>3 DEF Wrote, Row, Beyond
  <2>5. \/ posts'[d] = posts[d] /\ (run'[s].pc \in Before => run[s].pc \in Before)
        \/ posts'[d] = posts[d] + 1 /\ run[s].pc \in Before /\ run'[s].pc \notin Before
    BY <2>1 DEF Wrote, Before
  <2>6. Ledger(d)'
    <3>1. row'[d].status = "DELIVERED" => accepted'[d]
      BY <2>4 DEF after
    <3> QED
      BY <1>1, <2>2, <2>4, <2>5, <3>1, LedgerHeld DEF LedgerInv
  <2>7. SlotLedger(s)'
    BY <1>1, <2>2, <2>4 DEF SlotLedger, after
  <2> QED
    BY <2>6, <2>7
<1>5. ASSUME Ack(s) \/ Nack(s) PROVE Ledger(d)' /\ SlotLedger(s)'
  <2> DEFINE new == IF Ack(s) THEN Complete(entry[d]) ELSE Fail(entry[d], MaxAttempts)
  <2>1. /\ new \in Entry /\ new.holder \notin Slots
        /\ new \in {Complete(entry[d]), Fail(entry[d], MaxAttempts)}
    BY <1>1, EntryOperations, WebhookAssumption, LockAssumption
    DEF WebhookAssumption, LockAssumption, TypeOK, Complete, Fail
  <2>2. /\ row' = row /\ posts' = posts /\ accepted' = accepted
        /\ run'[s] = Idle
    BY <1>5 DEF Ack, Nack, Finish, Freed, TypeOK
  <2>3. entry'[d] = new
    <3>1. CASE Ack(s)
      BY <1>1, <3>1 DEF Ack, Finish, TypeOK
    <3>2. CASE ~ Ack(s) /\ Nack(s)
      BY <1>1, <3>2 DEF Nack, Finish, attemptsOption, TypeOK
    <3> QED
      BY <1>5, <3>1, <3>2
  <2> HIDE DEF new
  <2>4. Ledger(d)'
    <3>1. Ledger(d) /\ entry[d].st # "absent"
      BY <1>1 DEF LedgerInv
    <3> QED
      BY <1>1, <2>1, <2>2, <2>3, <3>1, LedgerReleased
  <2> QED
    BY <2>2, <2>4 DEF SlotLedger, Idle
<1>6. Ledger(d)' /\ SlotLedger(s)'
  BY <1>4, <1>5
<1>7. \A i \in Deliveries : Ledger(i)'
  BY <1>2, <1>6
<1>8. \A t \in Slots : SlotLedger(t)'
  BY <1>3, <1>6
<1> QED
  BY <1>7, <1>8 DEF LedgerInv

LEMMA LedgerCrash ==
  ASSUME TypeOK, LedgerInv, NEW dead \in SUBSET Slots, Crash(dead)
  PROVE  LedgerInv'
<1>1. /\ disp' = disp /\ row' = row /\ posts' = posts /\ accepted' = accepted
      /\ \A i \in Deliveries : entry'[i] = IF entry[i].holder \in dead
                                             THEN [entry[i] EXCEPT !.holder = Orphan] ELSE entry[i]
      /\ \A t \in Slots : run'[t] = IF t \in dead THEN Idle ELSE run[t]
  BY DEF Crash
<1>2. ASSUME NEW i \in Deliveries PROVE Ledger(i)'
  <2>1. CASE entry[i].holder \in dead
    <3> DEFINE new == [entry[i] EXCEPT !.holder = Orphan]
    <3>1. new \in Entry /\ new.holder \notin Slots /\ entry[i].st = "active"
      BY <2>1, EntryOperations, LockAssumption DEF LockAssumption, LedgerInv, Ledger, TypeOK, Entry
    <3>2. entry'[i] = new
      BY <1>1, <2>1
    <3> HIDE DEF new
    <3>3. entry[i].st # "absent" /\ new = [entry[i] EXCEPT !.holder = Orphan]
      BY <3>1 DEF new
    <3> QED
      BY <1>1, <3>1, <3>2, <3>3, LedgerReleased DEF LedgerInv
  <2>2. CASE entry[i].holder \notin dead
    <3>1. entry'[i] = entry[i] /\ (entry[i].holder \in Slots => run'[entry[i].holder] = run[entry[i].holder])
      BY <1>1, <2>2
    <3> QED
      BY <1>1, <3>1, LedgerKept DEF LedgerInv, Unsent
  <2> QED
    BY <2>1, <2>2
<1>3. ASSUME NEW t \in Slots PROVE SlotLedger(t)'
  <2>1. CASE t \in dead
    BY <1>1, <2>1 DEF SlotLedger, Idle
  <2>2. CASE t \notin dead
    <3>1. run[t].pc # "idle" => run[t].job \in Deliveries /\ entry[run[t].job].holder = t
      BY BusySlot DEF LedgerInv, SlotLedger
    <3> QED
      BY <1>1, <2>2, <3>1, SlotKept DEF LedgerInv
  <2> QED
    BY <2>1, <2>2
<1> QED
  BY <1>2, <1>3 DEF LedgerInv

\* What the timers of the queue do to an entry: none has a slot at work on it.
LEMMA TimerMoves ==
  ASSUME TypeOK, LedgerInv, NEW d \in Deliveries, QueueTimer(d) \/ Trim(d)
  PROVE  \E new \in Entry :
           /\ QueueStep(d, new)
           /\ entry[d].st # "absent" /\ new.holder \notin Slots /\ entry[d].holder \notin Slots
           /\ \/ entry[d].st = "active"
                   /\ new \in {ReleaseLock(entry[d]), Stall(entry[d])} /\ (new = Stall(entry[d]) => new.holder = NoLock)
              \/ entry[d].st = "delayed" /\ new = Promote(entry[d])
              \/ entry[d].st = "completed" /\ new = Absent
<1>0. entry[d] \in Entry /\ (entry[d].holder # NoLock => entry[d].st = "active")
  BY DEF LedgerInv, Ledger, TypeOK
<1>1. CASE ExpireLock(d)
  <2>1. ReleaseLock(entry[d]) # Stall(entry[d])
    BY <1>0 DEF ReleaseLock, Stall, Entry
  <2> QED
    BY <1>0, <1>1, <2>1, EntryOperations, LockAssumption DEF LockAssumption, ExpireLock, ReleaseLock, Entry
<1>2. CASE StalledCheck(d)
  BY <1>0, <1>2, EntryOperations, LockAssumption DEF LockAssumption, StalledCheck, Stall, Entry
<1>3. CASE EndBackoff(d)
  BY <1>0, <1>3, EntryOperations, LockAssumption DEF LockAssumption, EndBackoff, Promote, Entry
<1>4. CASE Trim(d)
  BY <1>0, <1>4, EntryOperations, LockAssumption DEF LockAssumption, Trim, Absent, Entry
<1> QED
  BY <1>1, <1>2, <1>3, <1>4 DEF QueueTimer

LEMMA LedgerTimers ==
  ASSUME TypeOK, LedgerInv, NEW d \in Deliveries, QueueTimer(d) \/ Trim(d)
  PROVE  LedgerInv'
<1>1. PICK new \in Entry :
           /\ QueueStep(d, new)
           /\ entry[d].st # "absent" /\ new.holder \notin Slots /\ entry[d].holder \notin Slots
           /\ \/ entry[d].st = "active"
                   /\ new \in {ReleaseLock(entry[d]), Stall(entry[d])} /\ (new = Stall(entry[d]) => new.holder = NoLock)
              \/ entry[d].st = "delayed" /\ new = Promote(entry[d])
              \/ entry[d].st = "completed" /\ new = Absent
  BY TimerMoves
<1>2. /\ disp' = disp /\ row' = row /\ posts' = posts /\ accepted' = accepted /\ run' = run
      /\ entry'[d] = new /\ \A i \in Deliveries : i # d => entry'[i] = entry[i]
  BY <1>1 DEF QueueStep, TypeOK
<1>3. ASSUME NEW i \in Deliveries PROVE Ledger(i)'
  <2>1. CASE i = d
    BY <1>1, <1>2, <2>1, LedgerReleased DEF LedgerInv
  <2>2. CASE i # d
    BY <1>2, <2>2, LedgerKept DEF LedgerInv, Unsent
  <2> QED
    BY <2>1, <2>2
<1>4. ASSUME NEW t \in Slots PROVE SlotLedger(t)'
  <2>1. run[t].pc # "idle" => run[t].job \in Deliveries /\ entry[run[t].job].holder = t
    BY BusySlot DEF LedgerInv, SlotLedger
  <2>2. run[t].pc # "idle" => run[t].job # d
    BY <1>1, <2>1
  <2> QED
    BY <1>2, <2>1, <2>2, SlotKept DEF LedgerInv
<1> QED
  BY <1>3, <1>4 DEF LedgerInv

LEMMA LedgerUntouched ==
  ASSUME LedgerInv, UNCHANGED <<disp, row, entry, run, posts, accepted>>
  PROVE  LedgerInv'
BY DEF LedgerInv, Ledger, SlotLedger, Unsent, Spent

LEMMA LedgerInit == Init => LedgerInv
BY LockAssumption, WebhookAssumption, StalledAssumption
DEF LockAssumption, WebhookAssumption, StalledAssumption, Init, LedgerInv, Ledger, SlotLedger, Absent,
    NoRow, Idle, Alive

LEMMA LedgerStep ==
  ASSUME TypeOK, LedgerInv, Next
  PROVE  LedgerInv'
<1>1. ASSUME NEW u \in Urls, ExpireFailures(u) PROVE LedgerInv'
  BY <1>1, LedgerUntouched DEF ExpireFailures
<1> QED
  BY <1>1, LedgerClients, LedgerDispatch, LedgerTake, LedgerProcess, LedgerCrash, LedgerTimers DEF Next

LEMMA LedgerAlways == Spec => [](TypeOK /\ LedgerInv)
<1>1. LedgerInv /\ UNCHANGED vars => LedgerInv'
  BY LedgerUntouched DEF vars
<1> QED
  BY LedgerInit, LedgerStep, TypeCorrect, <1>1, PTL DEF Spec

\* An endpoint receives a delivery at most once per attempt and once more per
\* tolerated stall, for every number of crashes and errors.
THEOREM PostsBounded == Spec => []BoundedPosts
<1>1. LedgerInv => BoundedPosts
  BY DEF LedgerInv, Ledger, BoundedPosts
<1> QED
  BY LedgerAlways, <1>1, PTL

\* A delivery reported as DELIVERED was accepted by the endpoint.
THEOREM NoFalseDelivery == Spec => []DeliveredWasAccepted
<1>1. LedgerInv => DeliveredWasAccepted
  BY DEF LedgerInv, Ledger, DeliveredWasAccepted
<1> QED
  BY LedgerAlways, <1>1, PTL

-----------------------------------------------------------------------------
\* A step that leaves a delivery, its slot, its call and its webhook alone.
LEMMA PaceKept ==
  ASSUME NEW d \in Deliveries, TypeOK, Pace(d),
         hook'[d[2]] = "active", disp'[d[1]] = disp[d[1]], entry'[d] = entry[d], row'[d] = row[d],
         entry[d].holder \in Slots => run'[entry[d].holder] = run[entry[d].holder],
         faults.crash <= faults'.crash, faults'.crash \in Nat
  PROVE  Pace(d)'
<1>1. /\ Exists(d)' <=> Exists(d)
      /\ Ended(d)' <=> Ended(d)
  BY DEF Exists, Ended, Finished
<1>2. Cut(entry[d]) \in Nat /\ faults.crash \in Nat
  BY DEF Cut, TypeOK, Entry
<1>3. entry[d].st \in Alive => Cut(entry[d]) <= faults'.crash
  BY <1>2 DEF Pace
<1> QED
  BY <1>1, <1>3 DEF Pace

\* A fault is not taken back: what is calm now was calm before.
LEMMA CalmBefore ==
  ASSUME TypeOK, Next, Calm'
  PROVE  Calm /\ faults'.error = faults.error /\ ~ CountError
<1>1. /\ faults.error \in Nat /\ faults.crash \in Nat /\ MaxStalledCount \in Nat
      /\ faults'.error = 0 /\ faults'.crash <= MaxStalledCount
  BY StalledAssumption DEF StalledAssumption, TypeOK, Calm
<1>2. ~ CountError
  BY <1>1, ErrorType
<1>3. faults' = faults \/ \E dead \in SUBSET Slots : Crash(dead)
  BY <1>2
  DEF Next, createWebhook, deleteWebhook, updateWebhook, Dispatch, FindWebhooks, CreateDelivery, AddDelivery,
      DispatchError, Process, Read, CheckCircuit, FailFast, Post, RecordSuccess, MarkDelivered, RecordFailure,
      MarkFailure, Ack, Nack, Finish, Record, UpdateRow, TakeDelivery, QueueTimer, ExpireLock, StalledCheck,
      EndBackoff, Trim, QueueStep, ExpireFailures
<1>4. faults'.error = faults.error /\ faults.crash <= faults'.crash /\ faults'.crash \in Nat
  <2>1. ASSUME NEW dead \in SUBSET Slots, Crash(dead)
        PROVE  faults'.error = faults.error /\ faults.crash <= faults'.crash /\ faults'.crash \in Nat
    <3>1. faults' = [faults EXCEPT !.crash = faults.crash + 1] /\ faults \in [crash : Nat, error : Nat]
      BY <2>1 DEF Crash, TypeOK
    <3> QED
      BY <1>1, <3>1
  <2> QED
    BY <1>1, <1>3, <2>1
<1> QED
  BY <1>1, <1>2, <1>4 DEF Calm

LEMMA PaceClients ==
  ASSUME TypeOK, NEW w \in Webhooks, NEW d \in wanted', d \in wanted => Pace(d),
         createWebhook(w) \/ deleteWebhook(w)
           \/ \E state \in {"active", "inactive"} : updateWebhook(w, state)
  PROVE  Pace(d)'
<1>1. d \in wanted /\ d \in Deliveries /\ d[2] \in Webhooks
  BY DeliveryPair DEF createWebhook, deleteWebhook, updateWebhook, TypeOK
<1>2. disp' = disp /\ entry' = entry /\ run' = run /\ faults' = faults
  BY DEF createWebhook, deleteWebhook, updateWebhook, workVars
<1>3. hook[d[2]] = "active" /\ faults.crash \in Nat
  BY <1>1 DEF Pace, TypeOK
<1>4. hook'[d[2]] = "active" /\ row'[d] = row[d]
  <2>1. CASE createWebhook(w)
    BY <1>1, <1>3, <2>1 DEF createWebhook, workVars, TypeOK
  <2>2. CASE deleteWebhook(w)
    BY <1>1, <1>3, <2>2 DEF deleteWebhook, TypeOK
  <2>3. ASSUME NEW state \in {"active", "inactive"}, updateWebhook(w, state)
        PROVE  hook'[d[2]] = "active" /\ row'[d] = row[d]
    BY <1>1, <1>3, <2>3 DEF updateWebhook, workVars, TypeOK
  <2> QED
    BY <2>1, <2>2, <2>3
<1> QED
  BY <1>1, <1>2, <1>3, <1>4, PaceKept

LEMMA PaceDispatch ==
  ASSUME TypeOK, LedgerInv, NEW e \in Events, NEW d \in wanted', d \in wanted => Pace(d), Dispatch(e)
  PROVE  Pace(d)'
<1>0. d \in Deliveries /\ d[1] \in Events /\ d[2] \in Webhooks /\ d = <<d[1], d[2]>>
  <2>1. wanted' \in SUBSET Deliveries
    BY TypeDispatch DEF TypeOK
  <2> QED
    BY <2>1, DeliveryPair
<1>1. /\ run' = run /\ faults' = faults /\ hook' = hook /\ faults.crash \in Nat
      /\ \A x \in Events : x # e => disp'[x] = disp[x]
  BY CallSteps DEF Dispatch, FindWebhooks, CreateDelivery, AddDelivery, hookVars, workVars, TypeOK
<1>2. CASE d[1] # e
  <2>1. d \in wanted /\ row'[d] = row[d] /\ entry'[d] = entry[d]
    <3>1. d \in wanted
      <4>1. \A found : d \notin {e} \X found
        BY <1>2
      <4>2. wanted' = wanted \/ \E found : wanted' = wanted \cup ({e} \X found)
        BY DEF Dispatch, FindWebhooks, CreateDelivery, AddDelivery, hookVars
      <4> QED
        BY <4>1, <4>2
    <3>2. row'[d] = row[d] /\ entry'[d] = entry[d]
      <4>1. \A w : d # <<e, w>>
        BY <1>2
      <4>2. \/ row' = row
            \/ \E w : row' = [row EXCEPT ![<<e, w>>] = [status |-> "PENDING", attempts |-> 0]]
        BY DEF Dispatch, FindWebhooks, CreateDelivery, AddDelivery, workVars
      <4>3. entry' \in {entry, AddEntry(e)} /\ AddEntry(e)[d] = entry[d]
        <5>1. entry' \in {entry, AddEntry(e)}
          BY DEF Dispatch, FindWebhooks, CreateDelivery, AddDelivery, workVars
        <5>2. AddEntry(e)[d] = entry[d]
          BY <1>0, <4>1 DEF AddEntry, TypeOK
        <5> QED
          BY <5>1, <5>2
      <4>4. row'[d] = row[d]
        BY <1>0, <4>1, <4>2 DEF TypeOK
      <4> QED
        BY <4>3, <4>4
    <3> QED
      BY <3>1, <3>2
  <2> QED
    BY <1>0, <1>1, <1>2, <2>1, PaceKept DEF Pace
<1>3. CASE d[1] = e /\ FindWebhooks(e)
  <2>1. /\ disp[e].pc = "idle" /\ disp'[e].pc \in {"done", "create"}
        /\ disp'[e].todo = {w \in Webhooks : hook[w] = "active"}
        /\ disp'[e].pc = "done" => disp'[e].todo = {}
    BY <1>3, CallSteps
  <2>2. d \notin wanted
    BY <1>3, <2>1 DEF Pace
  <2>3. d[2] \in disp'[e].todo
    <3>1. d \in {e} \X {w \in Webhooks : hook[w] = "active"}
      BY <1>3, <2>2 DEF FindWebhooks
    <3> QED
      BY <2>1, <3>1
  <2>4. entry'[d] = Absent
    <3>1. Unsent(d) /\ entry' = entry
      BY <1>3, <2>1 DEF Unsent, FindWebhooks, workVars
    <3> QED
      BY <1>0, <3>1 DEF LedgerInv, Ledger
  <2> QED
    BY <1>1, <1>3, <2>1, <2>3, <2>4, LockAssumption
    DEF LockAssumption, Pace, Absent, Alive, Ended, Finished
<1>4. ASSUME d[1] = e, NEW w \in Webhooks, CreateDelivery(e, w) PROVE Pace(d)'
  <2>1. /\ disp[e].pc = "create" /\ w \in disp[e].todo /\ disp'[e].todo = disp[e].todo
        /\ \/ hook[w] = "deleted" /\ disp'[e].pc = "failed"
           \/ disp'[e].pc = "add" /\ disp'[e].at = w
    BY <1>4, CallSteps
  <2>2. Pace(d) /\ entry' = entry
    BY <1>4 DEF CreateDelivery, hookVars
  <2>3. hook[w] = "deleted" => disp'[e].pc = "failed" /\ w # d[2]
    BY <1>4, <2>2 DEF Pace, CreateDelivery, TypeOK, Call
  <2>4. /\ w # d[2] => row'[d] = row[d]
        /\ w = d[2] => row'[d] = [status |-> "PENDING", attempts |-> 0]
    <3>1. w # d[2] => row'[d] = row[d]
      BY <1>0, <1>4 DEF CreateDelivery, TypeOK
    <3>2. w = d[2] => row' = [row EXCEPT ![d] = [status |-> "PENDING", attempts |-> 0]]
      BY <1>0, <1>4, <2>3 DEF CreateDelivery
    <3> QED
      BY <1>0, <3>1, <3>2 DEF TypeOK
  <2>5. CASE w = d[2]
    <3>1. entry[d] = Absent
      <4>1. Unsent(d)
        BY <1>4, <2>1, <2>5 DEF Unsent
      <4> QED
        BY <1>0, <4>1 DEF LedgerInv, Ledger
    <3>2. Exists(d)' /\ disp'[e].pc = "add" /\ d[2] \in disp'[e].todo
      BY <2>1, <2>3, <2>4, <2>5 DEF Exists
    <3> QED
      BY <1>1, <1>4, <2>2, <3>1, <3>2, LockAssumption
      DEF LockAssumption, Pace, Absent, Alive, Ended, Finished
  <2>6. CASE w # d[2]
    <3>1. Exists(d)' <=> Exists(d)
      BY <2>4, <2>6 DEF Exists
    <3>2. Ended(d)' => Ended(d)
      BY <1>4, <2>1, <2>2 DEF Ended, Finished
    <3>3. disp'[e].pc # "idle" /\ (disp'[e].pc = "add" => disp'[e].at # d[2])
      BY <2>1, <2>6
    <3> QED
      BY <1>1, <1>4, <2>2, <2>4, <2>6, <3>1, <3>2, <3>3 DEF Pace
  <2> QED
    BY <2>5, <2>6
<1>5. CASE d[1] = e /\ AddDelivery(e)
  <2>1. /\ disp[e].pc = "add" /\ disp'[e].pc \in {"done", "create"}
        /\ disp'[e].todo = disp[e].todo \ {disp[e].at}
        /\ disp'[e].pc = "done" => disp'[e].todo = {}
        /\ disp[e].at \in disp[e].todo
    BY <1>5, CallSteps DEF TypeOK
  <2>2. Pace(d) /\ row' = row
    BY <1>5 DEF AddDelivery, hookVars
  <2>3. CASE d[2] = disp[e].at
    <3>1. entry[d] = Absent
      <4>1. Unsent(d)
        BY <1>5, <2>1, <2>3 DEF Unsent
      <4> QED
        BY <1>0, <4>1 DEF LedgerInv, Ledger
    <3>2. entry'[d] = Add(Absent)
      BY <1>0, <1>5, <2>3, <3>1 DEF AddDelivery, AddEntry, TypeOK
    <3>3. Exists(d)
      BY <1>5, <2>1, <2>2, <2>3 DEF Pace
    <3>4. row[d].attempts \in Nat
      BY <1>0 DEF TypeOK, Row
    <3> QED
      BY <1>1, <1>5, <2>1, <2>2, <3>2, <3>3, <3>4, LockAssumption
      DEF LockAssumption, Pace, Exists, Add, Absent, Alive, Cut, Ended, Finished
  <2>4. CASE d[2] # disp[e].at
    <3>1. entry'[d] = entry[d]
      BY <1>0, <1>5, <2>4 DEF AddDelivery, AddEntry, TypeOK
    <3>2. Ended(d)' => Ended(d)
      BY <1>5, <2>1, <2>4, <3>1 DEF Ended, Finished
    <3>3. Exists(d)' <=> Exists(d)
      BY <2>2 DEF Exists
    <3> QED
      BY <1>1, <1>5, <2>1, <2>2, <3>1, <3>2, <3>3 DEF Pace
  <2> QED
    BY <2>3, <2>4
<1> QED
  BY <1>2, <1>3, <1>4, <1>5 DEF Dispatch

LEMMA PaceTake ==
  ASSUME TypeOK, LedgerInv, NEW s \in Slots, NEW i \in Deliveries, TakeDelivery(s, i),
         NEW d \in wanted', d \in wanted => Pace(d)
  PROVE  Pace(d)'
<1>1. /\ hook' = hook /\ disp' = disp /\ row' = row /\ faults' = faults /\ wanted' = wanted
      /\ run[s].pc = "idle" /\ entry[i].st = "waiting" /\ entry'[i] = Take(entry[i], s)
      /\ \A j \in Deliveries : j # i => entry'[j] = entry[j]
      /\ \A t \in Slots : t # s => run'[t] = run[t]
      /\ run'[s] = [pc |-> "read", job |-> i, attempts |-> 0]
  BY DEF TakeDelivery, hookVars, TypeOK
<1>2. d \in Deliveries /\ Pace(d) /\ faults.crash \in Nat
  BY <1>1 DEF TypeOK
<1>3. CASE d # i
  <2>1. run[s].job \notin Deliveries
    BY <1>1, WebhookAssumption DEF WebhookAssumption, TypeOK
  <2>2. entry[d].holder # s
    BY <1>2, <2>1 DEF LedgerInv, Ledger
  <2> QED
    BY <1>1, <1>2, <1>3, <2>2, PaceKept DEF Pace
<1>4. CASE d = i
  <2>1. /\ entry'[d].st = "active" /\ entry'[d].holder = s /\ entry'[d].made = entry[d].made
        /\ entry'[d].stalls = entry[d].stalls /\ entry[d].stalls \in Nat
    <3>1. entry[d] \in Entry /\ entry'[d] = Take(entry[d], s)
      BY <1>1, <1>2, <1>4 DEF TypeOK
    <3> QED
      BY <3>1 DEF Take, Entry
  <2>2. Cut(entry'[d]) = Cut(entry[d])
    BY <1>1, <1>4, <2>1 DEF Cut
  <2>3. Exists(d)' <=> Exists(d)
    BY <1>1 DEF Exists
  <2>4. ~ Ended(d)'
    BY <2>1 DEF Ended, Finished
  <2>5. HeldPace(row[d], entry'[d], run'[s])
    BY <1>1, <1>2, <1>4, <2>1 DEF HeldPace, Pace, Alive, Beyond
  <2> QED
    BY <1>1, <1>2, <1>4, <2>1, <2>2, <2>3, <2>4, <2>5 DEF Pace, Alive
<1> QED
  BY <1>3, <1>4

LEMMA PaceProcess ==
  ASSUME TypeOK, LedgerInv, NEW s \in Slots, Process(s), faults'.error = faults.error,
         NEW d \in wanted', d \in wanted => Pace(d)
  PROVE  Pace(d)'
<1>1. /\ run[s].pc # "idle" /\ run[s].job \in Deliveries
      /\ entry[run[s].job].st = "active" /\ entry[run[s].job].holder = s
      /\ hook' = hook /\ disp' = disp /\ wanted' = wanted /\ faults'.crash = faults.crash
      /\ \A t \in Slots : t # s => run'[t] = run[t]
      /\ \A i \in Deliveries : i # run[s].job => row'[i] = row[i] /\ entry'[i] = entry[i]
  BY ProcessFrame DEF hookVars
<1>2. /\ d \in Deliveries /\ Pace(d) /\ faults.crash \in Nat /\ entry[d] \in Entry
      /\ row[d] \in Row /\ run[s] \in SlotRecord
  BY <1>1 DEF TypeOK, SlotRecord
<1>3. CASE d # run[s].job
  <2>1. entry[d].holder # s
    BY <1>2, <1>3 DEF LedgerInv, Ledger
  <2> QED
    BY <1>1, <1>2, <1>3, <2>1, PaceKept DEF Pace
<1>4. CASE d = run[s].job
  <2>0. /\ entry[d].st = "active" /\ entry[d].holder = s /\ hook[d[2]] = "active" /\ Exists(d)
        /\ HeldPace(row[d], entry[d], run[s]) /\ entry[d].made <= row[d].attempts
        /\ Cut(entry[d]) = entry[d].stalls /\ entry[d].stalls \in Nat
    BY <1>1, <1>2, <1>4 DEF Pace, Alive, Cut, Entry
  <2>1. ASSUME ~ Ack(s), ~ Nack(s) PROVE Pace(d)'
    <3> DEFINE before == accepted[d]
               after == accepted'[d]
               exists == Exists(d)
               active == hook[d[2]] = "active"
               calm == faults'.error = faults.error
    <3>1. Wrote(run[s], row[d], posts[d], before, run'[s], row'[d], posts'[d], after,
                exists, active, calm)
      BY <1>4, <2>1, ProcessWrites
    <3>2. entry' = entry
      BY <2>1, ProcessFrame
    <3>3. exists /\ active /\ calm
      BY <2>0
    <3> HIDE DEF before, after, exists, active, calm
    <3>4. run'[s].pc # "idle" /\ run'[s].attempts \in Nat
      <4>1. RunType'
        BY TypeProcess DEF RunType, TypeOK, SlotRecord
      <4> QED
        BY <2>1, <4>1, ProcessFrame DEF RunType, SlotRecord
    <3>5. /\ row'[d].status # "NONE" /\ entry[d].made <= row'[d].attempts
          /\ HeldPace(row'[d], entry[d], run'[s])
      <4>1. /\ MaxAttempts \in Nat /\ row[d].attempts \in Nat /\ entry[d].made \in Nat
            /\ run[s].attempts \in Nat /\ row[d].status # "NONE"
        BY <1>2, <2>0, WebhookAssumption DEF WebhookAssumption, Row, SlotRecord, Entry, Exists
      <4>2. CASE run[s].pc \in {"read", "check", "failFast"}
        BY <1>2, <2>0, <3>1, <3>3, <4>1, <4>2 DEF Wrote, HeldPace, Before, Beyond, Verdicts, Row
      <4>3. CASE run[s].pc \in {"post", "recordSuccess", "markDelivered", "recordFailure"}
        BY <1>2, <2>0, <3>1, <3>3, <4>1, <4>3 DEF Wrote, HeldPace, Before, Beyond, Verdicts, Row
      <4>4. CASE run[s].pc = "markFailure"
        BY <1>2, <2>0, <3>1, <3>3, <4>1, <4>4 DEF Wrote, HeldPace, Before, Beyond, Verdicts, Row, Exhausted
      <4> QED
        BY <3>1, <4>2, <4>3, <4>4 DEF Wrote
    <3>6. Exists(d)' /\ ~ Ended(d)'
      BY <2>0, <3>2, <3>5 DEF Exists, Ended, Finished
    <3> QED
      BY <1>1, <1>2, <2>0, <3>2, <3>5, <3>6 DEF Pace
  <2>2. ASSUME Ack(s) \/ Nack(s) PROVE Pace(d)'
    <3>1. row' = row /\ (Exists(d)' <=> Exists(d))
      BY <2>2 DEF Ack, Nack, Finish, Exists
    <3>2. CASE Ack(s)
      <4>1. entry'[d] = Complete(entry[d]) /\ run[s].pc = "ack"
        BY <1>1, <1>2, <1>4, <3>2 DEF Ack, Finish, TypeOK
      <4> QED
        BY <1>1, <1>2, <2>0, <3>1, <4>1, LockAssumption
        DEF LockAssumption, Pace, Complete, Alive, HeldPace, Ended, Finished
    <3>3. CASE Nack(s)
      <4>1. entry'[d] = Fail(entry[d], MaxAttempts) /\ run[s].pc = "nack"
        BY <1>1, <1>2, <1>4, <3>3 DEF Nack, Finish, attemptsOption, TypeOK
      <4>2. entry[d].made < row[d].attempts /\ row[d].attempts < MaxAttempts
        BY <2>0, <4>1 DEF HeldPace
      <4>3. /\ entry[d].made \in Nat /\ row[d].attempts \in Nat /\ MaxAttempts \in Nat
        BY <1>2, WebhookAssumption DEF WebhookAssumption, Row, Entry
      <4>4. /\ entry'[d].st = "delayed" /\ entry'[d].made = entry[d].made + 1
            /\ entry'[d].stalls = entry[d].stalls /\ entry'[d].holder = NoLock
        BY <4>1, <4>2, <4>3 DEF Fail
      <4>5. entry'[d].made <= row[d].attempts /\ Cut(entry'[d]) = Cut(entry[d])
        BY <2>0, <4>2, <4>3, <4>4 DEF Cut
      <4> QED
        BY <1>1, <1>2, <2>0, <3>1, <4>4, <4>5, LockAssumption
        DEF LockAssumption, Pace, Alive, Ended, Finished
    <3> QED
      BY <2>2, <3>2, <3>3
  <2> QED
    BY <2>1, <2>2
<1> QED
  BY <1>3, <1>4

LEMMA PaceCrash ==
  ASSUME TypeOK, LedgerInv, NEW dead \in SUBSET Slots, Crash(dead),
         NEW d \in wanted', d \in wanted => Pace(d)
  PROVE  Pace(d)'
<1>1. /\ hook' = hook /\ disp' = disp /\ row' = row /\ wanted' = wanted
      /\ \A i \in Deliveries : entry'[i] = IF entry[i].holder \in dead
                                             THEN [entry[i] EXCEPT !.holder = Orphan] ELSE entry[i]
      /\ \A t \in Slots : run'[t] = IF t \in dead THEN Idle ELSE run[t]
      /\ faults.crash \in Nat /\ faults'.crash = faults.crash + 1
  BY DEF Crash, hookVars, TypeOK
<1>2. d \in Deliveries /\ Pace(d) /\ entry[d] \in Entry
  BY <1>1 DEF TypeOK
<1>3. CASE entry[d].holder \in dead
  <2>1. entry'[d] = [entry[d] EXCEPT !.holder = Orphan]
    BY <1>1, <1>2, <1>3
  <2>2. /\ entry'[d].st = entry[d].st /\ entry'[d].made = entry[d].made
        /\ entry'[d].stalls = entry[d].stalls /\ entry'[d].holder = Orphan
        /\ entry[d].stalls \in Nat
    BY <1>2, <2>1 DEF Entry
  <2>3. Cut(entry[d]) = entry[d].stalls /\ Cut(entry'[d]) <= entry[d].stalls + 1
        /\ Cut(entry'[d]) \in Nat
    BY <1>3, <2>2 DEF Cut
  <2>4. (Exists(d)' <=> Exists(d)) /\ (Ended(d)' <=> Ended(d))
    BY <1>1, <2>2 DEF Exists, Ended, Finished
  <2>5. entry'[d].st \in Alive => Cut(entry'[d]) <= faults'.crash
    BY <1>1, <1>2, <2>2, <2>3 DEF Pace
  <2> QED
    BY <1>1, <1>2, <2>2, <2>4, <2>5, LockAssumption DEF LockAssumption, Pace
<1>4. CASE entry[d].holder \notin dead
  <2>1. entry'[d] = entry[d] /\ (entry[d].holder \in Slots => run'[entry[d].holder] = run[entry[d].holder])
    BY <1>1, <1>2, <1>4
  <2> QED
    BY <1>1, <1>2, <2>1, PaceKept DEF Pace
<1> QED
  BY <1>3, <1>4

LEMMA PaceTimers ==
  ASSUME TypeOK, LedgerInv, Calm, NEW i \in Deliveries, QueueTimer(i) \/ Trim(i),
         NEW d \in wanted', d \in wanted => Pace(d)
  PROVE  Pace(d)'
<1>1. PICK new \in Entry :
           /\ QueueStep(i, new)
           /\ entry[i].st # "absent" /\ new.holder \notin Slots /\ entry[i].holder \notin Slots
           /\ \/ entry[i].st = "active"
                   /\ new \in {ReleaseLock(entry[i]), Stall(entry[i])} /\ (new = Stall(entry[i]) => new.holder = NoLock)
              \/ entry[i].st = "delayed" /\ new = Promote(entry[i])
              \/ entry[i].st = "completed" /\ new = Absent
  BY TimerMoves
<1>2. /\ hook' = hook /\ disp' = disp /\ row' = row /\ wanted' = wanted /\ run' = run /\ faults' = faults
      /\ entry'[i] = new /\ \A j \in Deliveries : j # i => entry'[j] = entry[j]
  BY <1>1 DEF QueueStep, hookVars, TypeOK
<1>3. /\ d \in Deliveries /\ Pace(d) /\ entry[d] \in Entry
      /\ faults.crash \in Nat /\ faults.crash <= MaxStalledCount /\ MaxStalledCount \in Nat
  BY <1>2, StalledAssumption DEF StalledAssumption, TypeOK, Calm
<1>4. CASE d # i
  BY <1>2, <1>3, <1>4, PaceKept DEF Pace
<1>5. CASE d = i
  <2>0. Exists(d)' <=> Exists(d)
    BY <1>2 DEF Exists
  <2>1. CASE entry[d].st = "active" /\ new = ReleaseLock(entry[d])
    <3>1. /\ entry'[d].st = "active" /\ entry'[d].made = entry[d].made
          /\ entry'[d].stalls = entry[d].stalls /\ entry'[d].holder = NoLock
      BY <1>2, <1>3, <1>5, <2>1 DEF ReleaseLock, Entry
    <3>2. Cut(entry'[d]) = Cut(entry[d]) /\ ~ Ended(d)'
      BY <1>1, <1>5, <2>1, <3>1, LockAssumption DEF LockAssumption, Cut, Ended, Finished
    <3> QED
      BY <1>2, <1>3, <2>0, <2>1, <3>1, <3>2, LockAssumption DEF LockAssumption, Pace, Alive
  <2>2. CASE entry[d].st = "active" /\ new = Stall(entry[d])
    <3>1. entry[d].stalls + 1 <= faults.crash /\ entry[d].stalls \in Nat
      BY <1>1, <1>3, <1>5, <2>2 DEF Pace, Alive, Cut, Entry
    <3>2. /\ entry'[d].st = "waiting" /\ entry'[d].made = entry[d].made
          /\ entry'[d].stalls = entry[d].stalls + 1 /\ entry'[d].holder = entry[d].holder
      BY <1>2, <1>3, <1>5, <2>2, <3>1 DEF Stall
    <3>3. Cut(entry'[d]) <= faults.crash /\ ~ Ended(d)'
      BY <3>1, <3>2 DEF Cut, Ended, Finished
    <3> QED
      BY <1>1, <1>2, <1>3, <1>5, <2>0, <2>2, <3>2, <3>3 DEF Pace, Alive
  <2>3. CASE entry[d].st = "delayed" /\ new = Promote(entry[d])
    <3>1. /\ entry'[d].st = "waiting" /\ entry'[d].made = entry[d].made
          /\ entry'[d].stalls = entry[d].stalls /\ entry'[d].holder = entry[d].holder
      BY <1>2, <1>3, <1>5, <2>3 DEF Promote, Entry
    <3>2. Cut(entry'[d]) = Cut(entry[d]) /\ ~ Ended(d)'
      BY <2>3, <3>1 DEF Cut, Ended, Finished
    <3> QED
      BY <1>1, <1>2, <1>3, <1>5, <2>0, <2>3, <3>1, <3>2 DEF Pace, Alive
  <2>4. CASE entry[d].st = "completed" /\ new = Absent
    <3>1. row[d].status \in Verdicts
      BY <1>3, <2>4 DEF Pace, Ended, Finished
    <3> QED
      BY <1>1, <1>2, <1>3, <1>5, <2>0, <2>4, <3>1 DEF Pace, Absent, Alive
  <2> QED
    BY <1>1, <1>5, <2>1, <2>2, <2>3, <2>4
<1> QED
  BY <1>4, <1>5

LEMMA PaceUntouched ==
  ASSUME TypeOK, NEW d \in wanted', d \in wanted => Pace(d),
         UNCHANGED <<hook, wanted, disp, row, entry, run, faults>>
  PROVE  Pace(d)'
BY DEF Pace, Exists, Ended, Finished, Cut, HeldPace

LEMMA PaceStep ==
  ASSUME TypeOK, LedgerInv, PaceInv, Next
  PROVE  PaceInv'
<1> SUFFICES ASSUME Calm', NEW d \in wanted' PROVE Pace(d)'
  BY DEF PaceInv
<1>1. Calm /\ faults'.error = faults.error /\ ~ CountError
  BY CalmBefore
<1>2. d \in wanted => Pace(d)
  BY <1>1 DEF PaceInv
<1>3. ASSUME NEW e \in Events PROVE ~ DispatchError(e)
  BY <1>1 DEF DispatchError
<1>4. ASSUME NEW u \in Urls, ExpireFailures(u) PROVE Pace(d)'
  BY <1>2, <1>4, PaceUntouched DEF ExpireFailures, hookVars
<1>5. ASSUME NEW w \in Webhooks,
             createWebhook(w) \/ deleteWebhook(w)
               \/ \E state \in {"active", "inactive"} : updateWebhook(w, state)
      PROVE  Pace(d)'
  BY <1>2, <1>5, PaceClients
<1>6. ASSUME NEW e \in Events, Dispatch(e) PROVE Pace(d)'
  BY <1>2, <1>6, PaceDispatch
<1>7. ASSUME NEW s \in Slots, Process(s) \/ \E i \in Deliveries : TakeDelivery(s, i) PROVE Pace(d)'
  BY <1>1, <1>2, <1>7, PaceProcess, PaceTake
<1>8. ASSUME NEW dead \in SUBSET Slots, Crash(dead) PROVE Pace(d)'
  BY <1>2, <1>8, PaceCrash
<1>9. ASSUME NEW i \in Deliveries, QueueTimer(i) \/ Trim(i) PROVE Pace(d)'
  BY <1>1, <1>2, <1>9, PaceTimers
<1> QED
  BY <1>3, <1>4, <1>5, <1>6, <1>7, <1>8, <1>9 DEF Next

LEMMA PaceAlways == Spec => [](TypeOK /\ LedgerInv /\ PaceInv)
<1>1. Init => PaceInv
  BY DEF Init, PaceInv
<1>2. TypeOK /\ PaceInv /\ UNCHANGED vars => PaceInv'
  <2> SUFFICES ASSUME TypeOK, PaceInv, UNCHANGED vars, Calm', NEW d \in wanted' PROVE Pace(d)'
    BY DEF PaceInv
  <2>1. d \in wanted => Pace(d)
    BY DEF PaceInv, Calm, vars
  <2> QED
    BY <2>1, PaceUntouched DEF vars
<1> QED
  BY LedgerAlways, PaceStep, <1>1, <1>2, PTL DEF Spec

\* The row counts no attempt that sent no request and, as long as every call is
\* answered, never falls behind the attempts that BullMQ counts.
THEOREM AttemptsKeepUp == Spec => []AttemptsNeverLag
<1>1. ASSUME LedgerInv, PaceInv PROVE AttemptsNeverLag
  <2>1. ASSUME NEW d \in Deliveries PROVE row[d].attempts <= posts[d]
    BY <1>1 DEF LedgerInv, Ledger
  <2>2. ASSUME NEW d \in Deliveries, Calm, d \in wanted, entry[d].st \in {"waiting", "delayed", "active"}
        PROVE  entry[d].made <= row[d].attempts
    BY <1>1, <2>2 DEF PaceInv, Pace, Alive
  <2> QED
    BY <2>1, <2>2 DEF AttemptsNeverLag
<1> QED
  BY PaceAlways, <1>1, PTL

\* A delivery whose webhook stays active has a verdict once the queue is done
\* with it, although two counters of attempts decide when that is.
THEOREM SettledWithVerdict == Spec => []SettledDelivery
<1>1. ASSUME PaceInv PROVE SettledDelivery
  BY <1>1 DEF PaceInv, Pace, SettledDelivery, Ended, Verdicts
<1> QED
  BY PaceAlways, <1>1, PTL

-----------------------------------------------------------------------------
(***************************************************************************)
(* Without faults a verdict is the last word on a delivery.                *)
(***************************************************************************)
LEMMA FinalKept ==
  ASSUME NEW d \in Deliveries, Final(d), entry'[d] = entry[d],
         row'[d] = row[d] \/ row'[d].status \notin Verdicts,
         entry[d].holder \in Slots => run'[entry[d].holder] = run[entry[d].holder]
  PROVE  Final(d)'
BY DEF Final

\* A slot at work either leaves the status alone or writes a verdict on a row that
\* has none yet and goes on to tell the queue; no fault is counted.
LEMMA FinalProcess ==
  ASSUME TypeOK, LedgerInv, FinalInv, NEW s \in Slots, Process(s), faults.error + faults.crash = 0,
         faults'.error = faults.error, NEW d \in Deliveries
  PROVE  /\ Final(d)'
         /\ row[d].status \in Verdicts => row'[d].status = row[d].status
<1>1. /\ run[s].pc # "idle" /\ run[s].job \in Deliveries
      /\ entry[run[s].job].st = "active" /\ entry[run[s].job].holder = s
      /\ \A t \in Slots : t # s => run'[t] = run[t]
      /\ \A i \in Deliveries : i # run[s].job => row'[i] = row[i] /\ entry'[i] = entry[i]
  BY ProcessFrame
<1>2. Final(d) /\ row[d] \in Row
  BY DEF FinalInv, TypeOK
<1>3. CASE d # run[s].job
  <2>1. entry[d].holder # s
    BY <1>3 DEF LedgerInv, Ledger
  <2> QED
    BY <1>1, <1>2, <1>3, <2>1, FinalKept
<1>4. CASE d = run[s].job
  <2>1. ASSUME ~ Ack(s), ~ Nack(s)
        PROVE  Final(d)' /\ (row[d].status \in Verdicts => row'[d].status = row[d].status)
    <3> DEFINE before == accepted[d]
               after == accepted'[d]
               active == hook[d[2]] = "active"
               calm == faults'.error = faults.error
               exists == Exists(d)
    <3>1. Wrote(run[s], row[d], posts[d], before, run'[s], row'[d], posts'[d], after,
                exists, active, calm)
      BY <1>4, <2>1, ProcessWrites
    <3>2. entry' = entry
      BY <2>1, ProcessFrame
    <3>3. row[d].status \in Verdicts => run[s].pc = "ack"
      BY <1>1, <1>2, <1>4 DEF Final, Alive
    <3>4. calm /\ (~ exists => row[d].status = "NONE")
      BY DEF Exists
    <3> HIDE DEF before, after, active, exists, calm
    <3>5. row[d].status \notin Verdicts
      BY <3>1, <3>3 DEF Wrote
    <3>6. row'[d].status \in Verdicts => run'[s].pc = "ack"
      BY <1>2, <3>1, <3>4, <3>5 DEF Wrote, Verdicts, Row
    <3> QED
      BY <1>1, <1>4, <3>2, <3>5, <3>6 DEF Final
  <2>2. ASSUME Ack(s) \/ Nack(s)
        PROVE  Final(d)' /\ (row[d].status \in Verdicts => row'[d].status = row[d].status)
    <3>1. row' = row
      BY <2>2 DEF Ack, Nack, Finish
    <3>2. CASE Ack(s)
      <4>1. entry'[d] = Complete(entry[d])
        BY <1>1, <1>4, <3>2 DEF Ack, Finish, TypeOK
      <4> QED
        BY <3>1, <4>1 DEF Final, Complete, Alive
    <3>3. CASE Nack(s)
      <4>1. run[s].pc = "nack"
        BY <3>3 DEF Nack, Finish
      <4>2. row[d].status \notin Verdicts
        BY <1>1, <1>2, <1>4, <4>1 DEF Final, Alive
      <4> QED
        BY <3>1, <4>2 DEF Final
    <3> QED
      BY <2>2, <3>2, <3>3
  <2> QED
    BY <2>1, <2>2
<1> QED
  BY <1>3, <1>4

LEMMA FinalStep ==
  ASSUME TypeOK, LedgerInv, FinalInv, Next, faults.error + faults.crash = 0, NEW d \in Deliveries
  PROVE  /\ row[d].status \in Verdicts => row'[d].status \in {row[d].status, "NONE"}
         /\ faults'.error + faults'.crash = 0 => Final(d)'
<1>0. /\ Final(d) /\ faults.error = 0 /\ faults.crash = 0
      /\ d[1] \in Events /\ d[2] \in Webhooks /\ d = <<d[1], d[2]>>
      /\ row \in [Deliveries -> Row] /\ entry \in [Deliveries -> Entry] /\ entry[d] \in Entry
  BY DeliveryPair DEF FinalInv, TypeOK
<1> DEFINE Goal == /\ row[d].status \in Verdicts => row'[d].status \in {row[d].status, "NONE"}
                   /\ faults'.error + faults'.crash = 0 => Final(d)'
<1>1. ASSUME NEW w \in Webhooks,
             createWebhook(w) \/ deleteWebhook(w)
               \/ \E state \in {"active", "inactive"} : updateWebhook(w, state)
      PROVE  Goal
  <2>1. entry' = entry /\ run' = run /\ row'[d] \in {row[d], NoRow}
    BY <1>1 DEF createWebhook, deleteWebhook, updateWebhook, workVars
  <2>2. NoRow.status = "NONE" /\ "NONE" \notin Verdicts
    BY DEF NoRow, Verdicts
  <2> QED
    BY <1>0, <2>1, <2>2, FinalKept
<1>2. ASSUME NEW e \in Events, Dispatch(e) \/ DispatchError(e) PROVE Goal
  <2>1. run' = run
    BY <1>2 DEF Dispatch, FindWebhooks, CreateDelivery, AddDelivery, DispatchError, workVars
  <2>2. /\ row'[d] = row[d] \/ (row[d].status \notin Verdicts /\ row'[d].status \notin Verdicts)
        /\ entry'[d] = entry[d] \/ (Unsent(d) /\ row' = row)
    <3>1. ASSUME NEW w \in Webhooks, CreateDelivery(e, w)
          PROVE  /\ row'[d] = row[d] \/ (row[d].status \notin Verdicts /\ row'[d].status \notin Verdicts)
                 /\ entry'[d] = entry[d]
      <4>1. row' \in {row, [row EXCEPT ![<<e, w>>] = [status |-> "PENDING", attempts |-> 0]]} /\ entry' = entry
        BY <3>1 DEF CreateDelivery
      <4>2. CASE d = <<e, w>>
        <5>1. Unsent(d)
          BY <1>0, <3>1, <4>2, CallSteps DEF Unsent
        <5>2. row[d].status \notin Verdicts
          BY <5>1 DEF LedgerInv, Ledger, Verdicts
        <5>3. row'[d] = row[d] \/ row'[d] = [status |-> "PENDING", attempts |-> 0]
          BY <1>0, <4>1, <4>2
        <5> QED
          BY <4>1, <5>2, <5>3 DEF Verdicts
      <4>3. CASE d # <<e, w>>
        BY <1>0, <4>1, <4>3
      <4> QED
        BY <4>2, <4>3
    <3>2. CASE FindWebhooks(e)
      BY <3>2 DEF FindWebhooks, workVars
    <3>3. CASE AddDelivery(e) \/ DispatchError(e)
      <4>1. row' = row /\ (entry' = entry \/ (entry' = AddEntry(e) /\ disp[e].pc = "add"))
        BY <3>3 DEF AddDelivery, DispatchError
      <4>2. CASE d = <<e, disp[e].at>>
        <5>1. disp[e].pc = "add" => Unsent(d)
          BY <1>0, <4>2 DEF Unsent, TypeOK
        <5> QED
          BY <4>1, <5>1
      <4>3. CASE d # <<e, disp[e].at>>
        <5>1. AddEntry(e)[d] = entry[d]
          BY <1>0, <4>3 DEF AddEntry
        <5> QED
          BY <4>1, <5>1
      <4> QED
        BY <4>2, <4>3
    <3> QED
      BY <1>2, <3>1, <3>2, <3>3 DEF Dispatch
  <2>3. CASE entry'[d] = entry[d]
    BY <1>0, <2>1, <2>2, <2>3, FinalKept
  <2>4. CASE entry'[d] # entry[d]
    <3>1. row[d].status \notin Verdicts /\ row'[d] = row[d]
      BY <2>2, <2>4 DEF LedgerInv, Ledger, Verdicts
    <3> QED
      BY <3>1 DEF Final
  <2> QED
    BY <2>3, <2>4
<1>3. ASSUME NEW s \in Slots, Process(s) PROVE Goal
  <2>1. /\ faults'.crash = 0 /\ faults'.error \in {0, 1}
        /\ faults'.error + faults'.crash = 0 => faults'.error = faults.error
    BY <1>0, <1>3, ProcessFrame
  <2>2. CASE faults'.error = faults.error
    BY <1>3, <2>2, FinalProcess
  <2>3. CASE faults'.error # faults.error
    <3>1. row[d].status \in Verdicts => row'[d] = row[d]
      <4>1. CASE d # run[s].job
        BY <1>3, <4>1, ProcessFrame
      <4>2. CASE d = run[s].job
        <5>1. row[d].status \in Verdicts => run[s].pc = "ack"
          BY <1>0, <1>3, <4>2, ProcessFrame DEF Final, Alive
        <5>2. run[s].pc = "ack" => row' = row
          BY <1>3
          DEF Process, Read, CheckCircuit, FailFast, Post, RecordSuccess, MarkDelivered, RecordFailure,
              MarkFailure, Ack, Nack, Finish, Record
        <5> QED
          BY <5>1, <5>2
      <4> QED
        BY <4>1, <4>2
    <3> QED
      BY <2>1, <2>3, <3>1
  <2> QED
    BY <2>2, <2>3
<1>4. ASSUME NEW s \in Slots, NEW i \in Deliveries, TakeDelivery(s, i) PROVE Goal
  <2>1. /\ row' = row /\ run[s].pc = "idle" /\ entry[i].st = "waiting" /\ entry[i] \in Entry
        /\ \A j \in Deliveries : j # i => entry'[j] = entry[j]
        /\ \A t \in Slots : t # s => run'[t] = run[t]
    BY <1>4 DEF TakeDelivery, TypeOK
  <2>2. CASE d = i
    <3>1. row[d].status \notin Verdicts
      <4>1. entry[d].holder \notin Slots
        BY <2>1, <2>2, LockAssumption DEF LockAssumption, LedgerInv, Ledger
      <4> QED
        BY <1>0, <2>1, <2>2, <4>1 DEF Final, Alive
    <3> QED
      BY <2>1, <3>1 DEF Final
  <2>3. CASE d # i
    <3>1. run[s].job \notin Deliveries
      BY <2>1, WebhookAssumption DEF WebhookAssumption, TypeOK
    <3>2. entry[d].holder # s
      BY <3>1 DEF LedgerInv, Ledger
    <3> QED
      BY <1>0, <2>1, <2>3, <3>2, FinalKept
  <2> QED
    BY <2>2, <2>3
<1>5. ASSUME NEW dead \in SUBSET Slots, Crash(dead) PROVE Goal
  <2>1. row' = row /\ faults'.error = 0 /\ faults'.crash = 1
    BY <1>0, <1>5 DEF Crash, TypeOK
  <2> QED
    BY <2>1
<1>6. ASSUME NEW i \in Deliveries, QueueTimer(i) \/ Trim(i) PROVE Goal
  <2>1. PICK new \in Entry :
           /\ QueueStep(i, new)
           /\ entry[i].st # "absent" /\ new.holder \notin Slots /\ entry[i].holder \notin Slots
           /\ \/ entry[i].st = "active"
                   /\ new \in {ReleaseLock(entry[i]), Stall(entry[i])} /\ (new = Stall(entry[i]) => new.holder = NoLock)
              \/ entry[i].st = "delayed" /\ new = Promote(entry[i])
              \/ entry[i].st = "completed" /\ new = Absent
    BY <1>6, TimerMoves
  <2>2. /\ row' = row /\ run' = run
        /\ entry'[i] = new /\ \A j \in Deliveries : j # i => entry'[j] = entry[j]
    BY <2>1 DEF QueueStep, TypeOK
  <2>3. CASE d # i
    BY <1>0, <2>2, <2>3, FinalKept
  <2>4. CASE d = i
    <3>1. row[d].status \in Verdicts => entry[d].st \notin Alive
      BY <1>0, <2>1, <2>4 DEF Final
    <3>2. row[d].status \in Verdicts => new = Absent
      BY <2>1, <2>4, <3>1 DEF Alive
    <3> QED
      BY <2>2, <2>4, <3>2 DEF Final, Absent, Alive
  <2> QED
    BY <2>3, <2>4
<1>7. ASSUME NEW u \in Urls, ExpireFailures(u) PROVE Goal
  BY <1>0, <1>7, FinalKept DEF ExpireFailures
<1> HIDE DEF Goal
<1>8. Goal
  BY <1>1, <1>2, <1>3, <1>4, <1>5, <1>6, <1>7 DEF Next
<1> QED
  BY <1>8 DEF Goal

\* Before any fault a verdict is not revised: the row changes only when its
\* webhook is deleted.
THEOREM VerdictStays == Spec => VerdictIsFinal
<1> DEFINE Keeps == \A d \in Deliveries :
             faults.error + faults.crash = 0 /\ row[d].status \in {"DELIVERED", "FAILED"} =>
               row'[d].status \in {row[d].status, "NONE"}
<1>1. Init => FinalInv
  BY DEF Init, FinalInv, Final, NoRow, Verdicts
<1>2. ASSUME TypeOK, LedgerInv, FinalInv, [Next]_vars PROVE FinalInv'
  <2>1. CASE UNCHANGED vars
    BY <1>2, <2>1 DEF vars, FinalInv, Final
  <2>2. CASE Next
    <3> SUFFICES ASSUME faults'.error + faults'.crash = 0, NEW d \in Deliveries PROVE Final(d)'
      BY DEF FinalInv
    <3>1. TypeOK' /\ faults.error \in Nat /\ faults.crash \in Nat
      BY <1>2, <2>2, TypeStep DEF TypeOK
    <3>2. Calm'
      BY <3>1, StalledAssumption DEF StalledAssumption, Calm, TypeOK
    <3>3. faults.error + faults.crash = 0
      <4>1. faults'.error = faults.error /\ faults'.error = 0 /\ faults'.crash = 0
        BY <1>2, <2>2, <3>1, <3>2, CalmBefore DEF TypeOK
      <4>2. \A dead \in SUBSET Slots : ~ Crash(dead)
        BY <1>2, <4>1 DEF Crash, TypeOK
      <4>3. faults' = faults
        BY <1>2, <2>2, <3>2, <4>2, CalmBefore
        DEF Next, createWebhook, deleteWebhook, updateWebhook, Dispatch, FindWebhooks, CreateDelivery,
            AddDelivery, DispatchError, Process, Read, CheckCircuit, FailFast, Post, RecordSuccess,
            MarkDelivered, RecordFailure, MarkFailure, Ack, Nack, Finish, Record, UpdateRow, TakeDelivery,
            QueueTimer, ExpireLock, StalledCheck, EndBackoff, Trim, QueueStep, ExpireFailures
      <4> QED
        BY <4>3
    <3> QED
      BY <1>2, <2>2, <3>3, FinalStep
  <2> QED
    BY <1>2, <2>1, <2>2
<1>3. ASSUME TypeOK, LedgerInv, FinalInv, [Next]_vars PROVE [Keeps]_vars
  BY <1>3, FinalStep DEF Verdicts
<1> QED
  BY LedgerAlways, <1>1, <1>2, <1>3, PTL DEF Spec, VerdictIsFinal
=============================================================================
