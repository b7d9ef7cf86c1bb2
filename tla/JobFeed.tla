------------------------------- MODULE JobFeed --------------------------------
(***************************************************************************)
(* How a client learns a job's status: the worker publishes each status it *)
(* wrote to Redis, the API process forwards it to the sockets in the job's *)
(* room, and clients read the row as well.                                 *)
(*                                                                         *)
(* Nothing is replayed to a socket that joins late, nothing is awaited and *)
(* nothing carries a sequence number: an event, a reading of the row and   *)
(* the row itself pass each other on three connections.                    *)
(***************************************************************************)
EXTENDS JobLifecycle, Sequences

CONSTANTS
  Viewers,       \* clients, each watching one job
  Watches,       \* the job a viewer watches
  MaxLostEvents  \* bound on events lost between Redis and the API process

ASSUME ViewerAssumption == Watches \in [Viewers -> Jobs] /\ MaxLostEvents \in Nat

\* The deployment runs one worker container: what it publishes stays in order.
OneWorker == \A s, t \in Slots : ProcOf[s] = ProcOf[t]

VARIABLES
  bus,    \* events published and not yet received by the clients
  room,   \* the viewers whose socket is in their job's room
  view,   \* what each viewer shows, and the answer it waits for
  lost    \* events that Redis pub/sub has lost so far

feed == <<bus, room, view, lost>>

(***************************************************************************)
(* A status is UNSURE from the moment an event of its job passes the       *)
(* client by that is later than the status: lost on its way, forwarded     *)
(* while the socket was not in the room, or heard and then replaced by the *)
(* answer of a GET that had read the row before.  The page goes on showing *)
(* such a status as it is; the model does not tell the outdated ones apart.*)
(***************************************************************************)
Heard == JobStatus \cup {"UNSURE"}
Event == [job : Jobs, status : {"RUNNING", "SUCCEEDED", "FAILED", "UNSURE"}]

\* shown: NONE also stands for "POLLING".  asked: NONE without a GET, SENT before the
\* server has read the row, and then the status on its way back.
View == [shown : Heard, asked : Heard \cup {"SENT"}]
Blank == [shown |-> "NONE", asked |-> "NONE"]

FeedInit ==
  /\ Init
  /\ bus = <<>>
  /\ room = {}
  /\ view = [v \in Viewers |-> Blank]
  /\ lost = 0

(***************************************************************************)
(* The worker.  emitJobUpdate follows the log message of a status in the   *)
(* same turn of the event loop; nobody waits for the publish.              *)
(***************************************************************************)
Emission(from, to, status) == [from |-> from, to |-> to, status |-> status]

\* A form that tells of successes only.
EmissionsButFailed ==
  {Emission("logStarted", "handle", "RUNNING"),
   Emission("logCompleted", "announceDone", "SUCCEEDED")}
Emissions ==
  {Emission("logStarted", "handle", "RUNNING"),
   Emission("logCompleted", "announceDone", "SUCCEEDED"),
   Emission("logExhausted", "announceFailed", "FAILED")}

emitJobUpdate(j, status) == Append(bus, [job |-> j, status |-> status])

\* A step of slot s, with the event it publishes.
ProcessAndEmit(s) ==
  /\ Process(s)
  /\ LET due == {e \in Emissions : e.from = run[s].pc /\ e.to = run'[s].pc} IN
       bus' = IF due = {} THEN bus
              ELSE emitJobUpdate(run[s].job, (CHOOSE e \in due : TRUE).status)
  /\ UNCHANGED <<room, view, lost>>

\* What a missed event does to the statuses of its job that are older.
Doubt(status) == IF status \in {"NONE", "SENT"} THEN status ELSE "UNSURE"
Outdated(w) == [shown |-> Doubt(w.shown), asked |-> Doubt(w.asked)]

Doubted(events, js) ==
  [i \in DOMAIN events |->
     IF events[i].job \in js THEN [events[i] EXCEPT !.status = "UNSURE"] ELSE events[i]]

Missed(js) ==
  view' = [v \in Viewers |-> IF Watches[v] \in js THEN Outdated(view[v]) ELSE view[v]]

\* The worker dies with its last publishes not yet sent.
CrashUnsent(p) ==
  /\ Crash(p)
  /\ \E sent \in 0..Len(bus) :
       LET gone == {bus[i].job : i \in (sent + 1)..Len(bus)} IN
       /\ bus' = Doubted(SubSeq(bus, 1, sent), gone)
       /\ Missed(gone)
  /\ UNCHANGED <<room, lost>>

\* Every other step of JobLifecycle publishes nothing, cancelJob's included.
Silent ==
  /\ \/ \E j \in Jobs : CreateRow(j) \/ ApiStep(j)
     \/ \E c \in Cancels : CancelNext(c) \/ CancelAbort(c) \/ \E j \in Jobs : CancelRead(c, j)
     \/ \E s \in Slots, j \in Jobs : TakeJob(s, j)
     \/ \E j \in Jobs : LoseLock(j) \/ QueueTimer(j) \/ Trim(j)
  /\ UNCHANGED feed

(***************************************************************************)
(* The API process: rooms and the Redis adapter.  The way from the server  *)
(* to a client delays an event as the way from the worker does.            *)
(***************************************************************************)
\* On the "connect" of a socket, the automatic one after a lost connection included:
\* nothing is read again.
subscribe(v) ==
  /\ v \notin room
  /\ room' = room \cup {v}
  /\ UNCHANGED <<vars, bus, view, lost>>

\* "unsubscribe", or the connection is gone: the page shows what it showed.
unsubscribe(v) ==
  /\ v \in room
  /\ room' = room \ {v}
  /\ UNCHANGED <<vars, bus, view, lost>>

\* updateActiveMonitorUI: the members of the room show the event, which is newer than
\* what the others show and than what any GET under way has read.
Forward ==
  LET event == Head(bus) IN
  /\ bus # <<>>
  /\ bus' = Tail(bus)
  /\ view' = [v \in Viewers |->
       IF Watches[v] # event.job THEN view[v]
       ELSE IF v \in room THEN [Outdated(view[v]) EXCEPT !.shown = event.status]
       ELSE Outdated(view[v])]
  /\ UNCHANGED <<vars, room, lost>>

\* Redis pub/sub does not keep what a subscriber misses while it reconnects.
LoseEvent ==
  /\ bus # <<>>
  /\ lost < MaxLostEvents
  /\ lost' = lost + 1
  /\ bus' = Tail(bus)
  /\ Missed({Head(bus).job})
  /\ UNCHANGED <<vars, room>>

(***************************************************************************)
(* The client's GET, one at a time.  The socket of an earlier monitorJob   *)
(* stays in the room until the answer is there: it replaces what is shown, *)
(* an event heard meanwhile included, and only then connectWebSocket gives *)
(* up the socket for a new one, which joins the room later.                *)
(***************************************************************************)
monitorJob(v) ==
  /\ view[v].asked = "NONE"
  /\ view' = [view EXCEPT ![v] = [shown |-> "NONE", asked |-> "SENT"]]
  /\ UNCHANGED <<vars, bus, room, lost>>

getJob(v) ==
  /\ view[v].asked = "SENT"
  /\ row[Watches[v]].status # "NONE"
  /\ view' = [view EXCEPT ![v].asked = row[Watches[v]].status]
  /\ UNCHANGED <<vars, bus, room, lost>>

connectWebSocket(v) ==
  /\ view[v].asked \notin {"NONE", "SENT"}
  /\ view' = [view EXCEPT ![v] = [shown |-> @.asked, asked |-> "NONE"]]
  /\ room' = room \ {v}
  /\ UNCHANGED <<vars, bus, lost>>

\* The GET fails, is cut off or finds no row: the old socket stays.
monitorFailed(v) ==
  /\ view[v].asked # "NONE"
  /\ view' = [view EXCEPT ![v].asked = "NONE"]
  /\ UNCHANGED <<vars, bus, room, lost>>

-----------------------------------------------------------------------------
FeedNext ==
  \/ \E s \in Slots : ProcessAndEmit(s)
  \/ \E p \in Procs : CrashUnsent(p)
  \/ Silent
  \/ Forward \/ LoseEvent
  \/ \E v \in Viewers :
       \/ subscribe(v) \/ unsubscribe(v)
       \/ monitorJob(v) \/ getJob(v) \/ connectWebSocket(v) \/ monitorFailed(v)

\* Nobody owes anything to the feed; the job goes on as in JobLifecycle.
FeedSpec == FeedInit /\ [][FeedNext]_<<vars, feed>> /\ Fairness

-----------------------------------------------------------------------------
Quiet(v) == bus = <<>> /\ view[v].asked = "NONE"

\* The job has its verdict.  A cancellation is never heard of, and one that is cut
\* off behind remove() may leave a row whose last status a crash kept untold.
HasVerdict(j) ==
  /\ Settled(j) /\ Agreed(j)
  /\ row[j].status # "CANCELLED"
  /\ faults.api = 0 \/ ~ HalfCancelled(j)

\* When a job has its verdict and all events are delivered, a client shows that verdict
\* unless an event of the job passed it by after what it shows.  Wherever the reading
\* fell between the write of a status, its log message and its event, whatever older
\* events were heard after it, and wherever a worker died between two writes: a status
\* of which no later event was missed is the last one.  The page does not notice a
\* missed event: after it a client is behind until it reads or hears again.
FeedTellsVerdict ==
  OneWorker /\ Undisturbed /\ faults.db = 0 /\ faults.crash <= MaxStalledCount =>
    \A v \in Viewers :
      HasVerdict(Watches[v]) /\ Quiet(v) =>
        view[v].shown \in {row[Watches[v]].status, "UNSURE", "NONE"}
=============================================================================
