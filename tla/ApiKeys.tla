------------------------------- MODULE ApiKeys --------------------------------
(***************************************************************************)
(* API keys: requireApiKey and the handlers of /v1/api-keys behind it, the *)
(* bootstrap route, and the asynchronous update of lastUsedAt.             *)
(*                                                                         *)
(* A request awaits the lookup of its key, decides, and then works on keys *)
(* in further calls, without a transaction: keys are created, revoked and  *)
(* expire between any two of them.  A raw key, its hash and its row are    *)
(* one model value; it is never used for a second row.                     *)
(***************************************************************************)
EXTENDS FiniteSets, Naturals

CONSTANTS
  Keys,       \* the keys that randomBytes will draw
  Users,      \* values of userId
  DevUser,    \* usr_dev_123, whom the bootstrap route gives keys
  Requests,   \* requests to /v1/api-keys
  NoKey,      \* a request without a key, or without a target
  NoUser,     \* the user of a request that is not authenticated
  MaxFaults   \* bound on rejected database calls and interrupted requests

ASSUME KeysAssumption ==
  /\ DevUser \in Users
  /\ NoKey \notin Keys
  /\ NoUser \notin Users
  /\ MaxFaults \in Nat

VARIABLES
  live,      \* the keys with a row in api_keys
  owner,     \* the userId of every key that has or had a row
  past,      \* the keys whose expiresAt is over
  lasting,   \* the keys of the bootstrap route, which have no expiresAt; that of
             \* another key may be missing or out of sight, which is the same here
  issued,    \* the raw keys that a response has shown
  req,       \* the requests
  touching,  \* keys whose update of lastUsedAt is under way
  faults     \* faults so far

vars == <<live, owner, past, lasting, issued, req, touching, faults>>

Operation == {"create", "list", "revoke"}
ReqStep == {"idle", "lookup", "check", "handle", "delete",
            "ok", "unauthorized", "notFound", "failed"}

\* late: the key had been revoked with an answer, or was expired, when the
\* request arrived (history).
Request == [pc : ReqStep, op : Operation, key : Keys \cup {NoKey},
            target : Keys \cup {NoKey}, user : Users \cup {NoUser}, late : BOOLEAN]
Unsent == [pc |-> "idle", op |-> "list", key |-> NoKey, target |-> NoKey,
           user |-> NoUser, late |-> FALSE]

\* Nothing in the source creates users; the first keys of users other than
\* DevUser are in the database from the start.
Init ==
  /\ live \in {S \in SUBSET Keys : Cardinality(S) < Cardinality(Keys)}
  /\ \E u \in Users \ {DevUser} :
       owner = [k \in Keys |-> IF k \in live THEN u ELSE NoUser]
  /\ lasting = {}
  /\ past = {}
  /\ issued = live
  /\ req = [r \in Requests |-> Unsent]
  /\ touching = {}
  /\ faults = 0

Unused == {k \in Keys : owner[k] = NoUser}

Revocations(k, steps) ==
  {r \in Requests : req[r].op = "revoke" /\ req[r].target = k /\ req[r].pc \in steps}

Revoked(k) == Revocations(k, {"ok"}) # {}

Goto(r, step) == req' = [req EXCEPT ![r].pc = step]

\* The end of a request that revoked nothing: what it was about plays no part
\* any more.
Finish(r, step) == req' = [req EXCEPT ![r] = [Unsent EXCEPT !.pc = step]]

Arrive(r, op, k, target) ==
  /\ req[r].pc = "idle"
  /\ req' = [req EXCEPT ![r] =
       [pc |-> "lookup", op |-> op, key |-> k, target |-> target, user |-> NoUser,
        late |-> Revoked(k) \/ k \in past]]
  /\ UNCHANGED <<live, owner, past, lasting, issued, touching, faults>>

(***************************************************************************)
(* requireApiKey: findUnique by hash, then the decision on what it found.  *)
(***************************************************************************)
FindKey(r) ==
  /\ req[r].pc = "lookup"
  /\ IF req[r].key \in live THEN Goto(r, "check") ELSE Finish(r, "unauthorized")
  /\ UNCHANGED <<live, owner, past, lasting, issued, touching, faults>>

NeverExpired(k) == FALSE
Expired(k) == k \in past

\* req.userId, and a form that forgets it.
NobodysRequest(r) == NoUser
userId(r) == owner[req[r].key]

\* The update of lastUsedAt starts and the handler does not wait for it.  From
\* here on the request has a user, and its key plays no part any more.
Check(r) ==
  /\ req[r].pc = "check"
  /\ IF Expired(req[r].key)
       THEN Finish(r, "unauthorized") /\ UNCHANGED touching
       ELSE /\ req' = [req EXCEPT ![r].pc = "handle", ![r].user = userId(r), ![r].key = NoKey]
            /\ touching' = touching \cup {req[r].key}
  /\ UNCHANGED <<live, owner, past, lasting, issued, faults>>

\* The update rejects when the row is gone, and only a line of log tells.
UpsertUsed(k) == live \cup {k}
UpdateUsed(k) == live

Touch(k) ==
  /\ k \in touching
  /\ touching' = touching \ {k}
  /\ live' = UpdateUsed(k)
  /\ UNCHANGED <<owner, past, lasting, issued, req, faults>>

(***************************************************************************)
(* The handlers.                                                           *)
(***************************************************************************)
Insert(k, user) ==
  /\ live' = live \cup {k}
  /\ owner' = [owner EXCEPT ![k] = user]

Create(r, k) ==
  /\ req[r].pc = "handle" /\ req[r].op = "create"
  /\ Insert(k, req[r].user)
  /\ issued' = issued \cup {k}
  /\ Finish(r, "ok")
  /\ UNCHANGED <<past, lasting, touching, faults>>

List(r) ==
  /\ req[r].pc = "handle" /\ req[r].op = "list"
  /\ Finish(r, "ok")
  /\ UNCHANGED <<live, owner, past, lasting, issued, touching, faults>>

\* findFirst: the target under the user of the request.
FindsTarget(r) == req[r].target \in live /\ owner[req[r].target] = req[r].user

FindTarget(r) ==
  /\ req[r].pc = "handle" /\ req[r].op = "revoke"
  /\ IF FindsTarget(r) THEN Goto(r, "delete") ELSE Finish(r, "notFound")
  /\ UNCHANGED <<live, owner, past, lasting, issued, touching, faults>>

\* prisma's delete rejects when the row is gone; deleteMany would not.
DeleteManyOf(r) == "ok"
DeleteOf(r) == IF req[r].target \in live THEN "ok" ELSE "failed"

Delete(r) ==
  /\ req[r].pc = "delete"
  /\ Goto(r, DeleteOf(r))
  /\ live' = live \ {req[r].target}
  /\ UNCHANGED <<owner, past, lasting, issued, touching, faults>>

\* POST /v1/bootstrap and scripts/bootstrap.ts ask for no key.
Bootstrap(k) ==
  /\ Insert(k, DevUser)
  /\ lasting' = lasting \cup {k}
  /\ issued' = issued \cup {k}
  /\ UNCHANGED <<past, req, touching, faults>>

\* A database call rejects, or the process dies; a write may have committed.
\* Dying before Check changes no more than dying in FindKey.
Fail(r) ==
  /\ req[r].pc \in {"lookup", "handle", "delete"}
  /\ faults < MaxFaults
  /\ faults' = faults + 1
  /\ IF req[r].pc = "delete" THEN Goto(r, "failed") ELSE Finish(r, "failed")
  /\ \/ UNCHANGED <<live, owner>>
     \/ req[r].pc = "delete" /\ live' = live \ {req[r].target} /\ UNCHANGED owner
     \/ /\ req[r].pc = "handle" /\ req[r].op = "create"
        /\ \E k \in Unused : Insert(k, req[r].user)
  /\ UNCHANGED <<past, lasting, issued, touching>>

Expire(k) ==
  /\ k \in live \ (lasting \cup past)
  /\ past' = past \cup {k}
  /\ UNCHANGED <<live, owner, lasting, issued, req, touching, faults>>

-----------------------------------------------------------------------------
Handle(r) == (\E k \in Unused : Create(r, k)) \/ List(r) \/ FindTarget(r) \/ Delete(r)

Next ==
  \/ \E r \in Requests :
       \/ \E k \in issued \cup {NoKey} : Arrive(r, "list", k, NoKey)
       \/ \E k \in issued : Arrive(r, "create", k, NoKey)
       \/ \E k \in issued, target \in Keys \ Unused : Arrive(r, "revoke", k, target)
  \/ \E r \in Requests : FindKey(r) \/ Check(r) \/ Handle(r) \/ Fail(r)
  \/ \E k \in Keys : Touch(k) \/ Expire(k)
  \/ \E k \in Unused : Bootstrap(k)

Spec == Init /\ [][Next]_vars

-----------------------------------------------------------------------------
\* requireApiKey has let the request pass.
Admitted(r) == req[r].pc \in {"handle", "delete"}

\* Every variable has its type; a key has had an owner before anything else
\* happens to it, and a request that requireApiKey let pass has a user.
TypeOK ==
  /\ live \subseteq Keys
  /\ owner \in [Keys -> Users \cup {NoUser}]
  /\ \A k \in live \cup issued \cup past \cup lasting \cup touching : owner[k] # NoUser
  /\ past \subseteq Keys \ lasting
  /\ lasting \subseteq Keys
  /\ issued \subseteq Keys
  /\ req \in [Requests -> Request]
  /\ \A r \in Requests : Admitted(r) => req[r].user # NoUser
  /\ touching \subseteq Keys
  /\ faults \in Nat

\* Once a revocation of a key was answered, or the key has expired, no request
\* that is sent with it gets past requireApiKey, although the requests admitted
\* before, their updates of lastUsedAt and other revocations are still under way.
RevokedAdmitsNothing == \A r \in Requests : Admitted(r) => ~ req[r].late

\* The answers of revocations and the table agree, although several of one key
\* run at once: at most one succeeds, its key is gone for good, and no key is
\* gone that its own user did not revoke, or try to without an answer.
RevocationsAgree ==
  \A k \in Keys :
    /\ Cardinality(Revocations(k, {"ok"})) <= 1
    /\ Revoked(k) => k \notin live
    /\ owner[k] # NoUser /\ k \notin live =>
         \E r \in Revocations(k, {"ok", "failed"}) : req[r].user = owner[k]

\* A user with no key that is accepted, and no request that a key has admitted
\* or still may admit, never gets a key again: creating one takes one, and the
\* bootstrap route serves DevUser only.  Until those requests are over, the
\* revocation of the last key may still be followed by a new one.
Accepted(k) == k \in live \ past

LockedOut(u) ==
  /\ \A k \in Keys : owner[k] = u => ~ Accepted(k)
  /\ \A r \in Requests :
       /\ req[r].pc = "handle" => req[r].user # u
       /\ req[r].pc = "check" => owner[req[r].key] # u \/ req[r].key \in past

LockedOutForGood ==
  [][\A u \in Users \ {DevUser} : LockedOut(u) => LockedOut(u)']_vars
=============================================================================
