----------------------------- MODULE Idempotency -----------------------------
(***************************************************************************)
(* The Idempotency-Key middleware in front of the v1 handlers.  A request  *)
(* with a key first looks for a stored response; without one its handler   *)
(* runs, the reply is sent, and only then a copy of it is stored, which    *)
(* nobody waits for.  Other requests with the same key interleave with     *)
(* each of these steps.  A row is unique per key and user; the user is     *)
(* always "anonymous", because requireApiKey runs behind the middleware.   *)
(***************************************************************************)
EXTENDS Naturals, FiniteSets

CONSTANTS
  Requests,   \* POST, PATCH and PUT requests, duplicates included
  Keys,       \* values of the Idempotency-Key header
  NoKey,      \* the request carries no such header
  KeyOf,      \* the key of a request
  NoReply,    \* nothing answered, or nothing stored
  MaxFaults   \* bound on rejected calls and crashes of the API process

ASSUME IdempotencyAssumption ==
  /\ NoKey \notin Keys
  /\ KeyOf \in [Requests -> Keys \cup {NoKey}]
  /\ NoReply \notin Requests
  /\ MaxFaults \in Nat

VARIABLES
  req,       \* how far a request has come
  reply,     \* the request whose handler produced the reply it got
  outcome,   \* how a request's handler ended
  effects,   \* the requests whose handler had its side effect (history)
  stored,    \* the table of responses: the request a response was made for
  storing,   \* requests whose prisma.idempotencyKey.create is under way
  late,      \* duplicates sent after a successful reply to an earlier one (history)
  covered,   \* duplicates sent after the copy of an earlier reply was due in the
             \* table (history)
  faults     \* faults so far

vars == <<req, reply, outcome, effects, stored, storing, late, covered, faults>>

Outcomes == {"none", "2xx", "4xx", "5xx"}

Keyed(r) == KeyOf[r] # NoKey

Init ==
  /\ req = [r \in Requests |-> "unsent"]
  /\ reply = [r \in Requests |-> NoReply]
  /\ outcome = [r \in Requests |-> "none"]
  /\ effects = {}
  /\ stored = [k \in Keys |-> NoReply]
  /\ storing = {}
  /\ late = {}
  /\ covered = {}
  /\ faults = 0

Fault == faults < MaxFaults /\ faults' = faults + 1

\* if (existing), and a form that replays successes only.
SuccessOnly(q) == q # NoReply /\ outcome[q] = "2xx"
Replayable(q) == q # NoReply

\* What is stored: every response below 500.
Cacheable(status) == status # "5xx"

Duplicates(r) == {q \in Requests \ {r} : KeyOf[q] = KeyOf[r]}

\* Without the header, or for another method, the middleware steps aside.
Bypass(r) ==
  /\ req[r] = "unsent"
  /\ ~ Keyed(r)
  /\ req' = [req EXCEPT ![r] = "handling"]
  /\ UNCHANGED <<reply, outcome, effects, stored, storing, late, covered, faults>>

\* A stored response is the reply; otherwise the handler's turn comes.
Lookup(r) ==
  /\ req[r] = "unsent"
  /\ Keyed(r)
  /\ late' = IF \E q \in Duplicates(r) : outcome[q] = "2xx" THEN late \cup {r} ELSE late
  /\ covered' = IF \E q \in Duplicates(r) : outcome[q] \in {"2xx", "4xx"} /\ q \notin storing
                 THEN covered \cup {r} ELSE covered
  /\ IF Replayable(stored[KeyOf[r]])
       THEN /\ req' = [req EXCEPT ![r] = "done"]
            /\ reply' = [reply EXCEPT ![r] = stored[KeyOf[r]]]
       ELSE /\ req' = [req EXCEPT ![r] = "handling"]
            /\ UNCHANGED reply
  /\ UNCHANGED <<outcome, effects, stored, storing, faults>>

\* findUnique rejects: a 500 that is not stored.
LookupFault(r) ==
  /\ req[r] = "unsent"
  /\ Keyed(r)
  /\ Fault
  /\ req' = [req EXCEPT ![r] = "done"]
  /\ UNCHANGED <<reply, outcome, effects, stored, storing, late, covered>>

\* The handler answers through res.json, itself or by the error handler; the
\* reply goes out and the create is started in one go.
AnswerKeyedOrNot(r, status) ==
  /\ req' = [req EXCEPT ![r] = "done"]
  /\ reply' = [reply EXCEPT ![r] = r]
  /\ outcome' = [outcome EXCEPT ![r] = status]
  /\ storing' = IF Cacheable(status) THEN storing \cup {r} ELSE storing

Answer(r, status) ==
  /\ req' = [req EXCEPT ![r] = "done"]
  /\ reply' = [reply EXCEPT ![r] = r]
  /\ outcome' = [outcome EXCEPT ![r] = status]
  /\ storing' = IF Keyed(r) /\ Cacheable(status) THEN storing \cup {r} ELSE storing

Succeed(r) ==
  /\ req[r] = "handling"
  /\ Answer(r, "2xx")
  /\ effects' = effects \cup {r}
  /\ UNCHANGED <<stored, late, covered, faults>>

\* A validation error, a missing resource or a missing authorization.
Refuse(r) ==
  /\ req[r] = "handling"
  /\ Answer(r, "4xx")
  /\ UNCHANGED <<effects, stored, late, covered, faults>>

\* The handler throws, before or after its side effect.
Throw(r) ==
  /\ req[r] = "handling"
  /\ Fault
  /\ Answer(r, "5xx")
  /\ effects' \in {effects, effects \cup {r}}
  /\ UNCHANGED <<stored, late, covered>>

\* create commits, unless the unique index rejects it.
Upsert(r) ==
  /\ r \in storing
  /\ stored' = [stored EXCEPT ![KeyOf[r]] = r]
  /\ storing' = storing \ {r}
  /\ UNCHANGED <<req, reply, outcome, effects, late, covered, faults>>

Store(r) ==
  /\ r \in storing
  /\ stored' = [stored EXCEPT ![KeyOf[r]] = IF @ = NoReply THEN r ELSE @]
  /\ storing' = storing \ {r}
  /\ UNCHANGED <<req, reply, outcome, effects, late, covered, faults>>

\* create rejects, which is only logged.
LoseStore(r) ==
  /\ r \in storing
  /\ Fault
  /\ storing' = storing \ {r}
  /\ UNCHANGED <<req, reply, outcome, effects, stored, late, covered>>

\* The API process dies: running handlers stop before or after their side
\* effect and send no reply, and creates under way are lost.
Crash ==
  LET cut == {r \in Requests : req[r] = "handling"} IN
  /\ Fault
  /\ req' = [r \in Requests |-> IF r \in cut THEN "done" ELSE req[r]]
  /\ \E done \in SUBSET cut : effects' = effects \cup done
  /\ storing' = {}
  /\ UNCHANGED <<reply, outcome, stored, late, covered>>

Next ==
  \/ \E r \in Requests :
       \/ Bypass(r) \/ Lookup(r) \/ LookupFault(r)
       \/ Succeed(r) \/ Refuse(r) \/ Throw(r)
       \/ Store(r) \/ LoseStore(r)
  \/ Crash

Spec == Init /\ [][Next]_vars

-----------------------------------------------------------------------------
\* Every variable has its type, and only answered requests are stored.
TypeOK ==
  /\ req \in [Requests -> {"unsent", "handling", "done"}]
  /\ reply \in [Requests -> Requests \cup {NoReply}]
  /\ outcome \in [Requests -> Outcomes]
  /\ effects \in SUBSET Requests
  /\ stored \in [Keys -> Requests \cup {NoReply}]
  /\ storing \in SUBSET {r \in Requests : Keyed(r) /\ req[r] = "done"}
  /\ late \in SUBSET Requests
  /\ covered \in SUBSET Requests
  /\ faults \in Nat

\* All replies that were taken from the table for one key are the same one:
\* a duplicate whose handler ran beside it does not replace the response.
ReplaysAgree ==
  \A p, q \in Requests :
    /\ Keyed(p) /\ KeyOf[p] = KeyOf[q]
    /\ reply[p] \notin {p, NoReply} /\ reply[q] \notin {q, NoReply}
    => reply[p] = reply[q]

\* A duplicate that is sent when the copy of an earlier reply, a refusal
\* included, has had its time has no side effect, however many requests of the
\* key ran beside each other before and in whatever order their copies came.
StoredEndsEffects == faults = 0 => covered \cap effects = {}

\* README: "On a duplicate request, the stored response is returned before the
\* handler runs. No side effects replay."
NoSideEffectsReplay ==
  \A r \in Requests : r \in late => r \notin effects
=============================================================================
