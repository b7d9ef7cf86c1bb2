---------------------------- MODULE ApiKeysProofs ----------------------------
(***************************************************************************)
(* Theorems of ApiKeys for every number of keys, users, requests and       *)
(* faults.                                                                 *)
(***************************************************************************)
EXTENDS ApiKeys, FiniteSetTheorems, TLAPS

\* What holds of a request q while the table has the given rows, owners and
\* expired keys.  A key that a request has found, or is about to remove or has
\* removed, has an owner, so that it is not drawn a second time; a removed key
\* stays out of the table; and a late request fails its lookup or its comparison
\* of the expiry.
Sound(q, rows, owners, expired) ==
  /\ q.pc = "check" => q.key \in Keys /\ owners[q.key] # NoUser
  /\ q.pc = "delete" => q.op = "revoke" /\ owners[q.target] = q.user
  /\ q.op = "revoke" /\ q.pc \in {"delete", "ok"} =>
       q.target \in Keys /\ owners[q.target] # NoUser
  /\ q.op = "revoke" /\ q.pc = "ok" => q.target \notin rows
  /\ q.late /\ q.pc = "lookup" =>
       \/ q.key \in Keys \ rows /\ owners[q.key] # NoUser
       \/ q.key \in expired
  /\ q.late /\ q.pc = "check" => q.key \in expired
  /\ q.pc \in {"handle", "delete"} => q.user # NoUser /\ ~ q.late

RequestsSound == \A r \in Requests : Sound(req[r], live, owner, past)

\* The variables that no request owns.
TablesOK ==
  /\ live \subseteq Keys
  /\ owner \in [Keys -> Users \cup {NoUser}]
  /\ \A k \in live \cup issued \cup past \cup lasting \cup touching : owner[k] # NoUser
  /\ past \subseteq Keys \ lasting
  /\ lasting \subseteq Keys
  /\ issued \subseteq Keys
  /\ touching \subseteq Keys
  /\ faults \in Nat

KeysInv == TablesOK /\ req \in [Requests -> Request] /\ RequestsSound

LEMMA InvImplies == KeysInv => TypeOK /\ RevokedAdmitsNothing
BY DEF KeysInv, TablesOK, RequestsSound, Sound, TypeOK, RevokedAdmitsNothing, Admitted

LEMMA InitInv == Init => KeysInv
<1> SUFFICES ASSUME Init PROVE KeysInv
  OBVIOUS
<1> USE KeysAssumption DEF KeysAssumption, Init, Unsent
<1>1. PICK u \in Users \ {DevUser} : owner = [k \in Keys |-> IF k \in live THEN u ELSE NoUser]
  OBVIOUS
<1>2. TablesOK
  BY <1>1 DEF TablesOK
<1>3. req \in [Requests -> Request]
  BY DEF Request, ReqStep, Operation
<1>4. RequestsSound
  BY DEF RequestsSound, Sound
<1> QED
  BY <1>2, <1>3, <1>4 DEF KeysInv

\* What is sound stays so: an owned key keeps its owner and does not come back into
\* the table, and an expired one stays expired.
TablesAge ==
  /\ past \subseteq past'
  /\ \A k \in Keys : owner[k] # NoUser => owner'[k] = owner[k] /\ (k \in live' => k \in live)

LEMMA OthersStaySound ==
  ASSUME RequestsSound, TablesAge, NEW r \in Requests,
         \A t \in Requests \ {r} : req'[t] = req[t],
         Sound(req'[r], live', owner', past')
  PROVE  RequestsSound'
<1> SUFFICES ASSUME NEW t \in Requests \ {r} PROVE Sound(req[t], live', owner', past')
  BY DEF RequestsSound
<1> QED
  BY DEF RequestsSound, Sound, TablesAge

LEMMA AllStaySound ==
  ASSUME RequestsSound, TablesAge, req' = req
  PROVE  RequestsSound'
BY DEF RequestsSound, Sound, TablesAge

\* A step of request r that writes no key.
LEMMA RequestStep ==
  ASSUME KeysInv, NEW r \in Requests, NEW new \in Request,
         req' = [req EXCEPT ![r] = new],
         UNCHANGED <<live, owner, past, lasting, issued, touching, faults>>,
         Sound(new, live, owner, past)
  PROVE  KeysInv'
<1> USE DEF KeysInv
<1>1. TablesOK'
  BY DEF TablesOK
<1>2. req' \in [Requests -> Request]
  OBVIOUS
<1>3. RequestsSound'
  BY OthersStaySound DEF TablesAge
<1> QED
  BY <1>1, <1>2, <1>3

\* A key that is drawn gets an owner, which no key loses.
LEMMA InsertStep ==
  ASSUME TablesOK, NEW k \in Unused, NEW user \in Users, Insert(k, user), UNCHANGED past
  PROVE  /\ TablesAge
         /\ live' \subseteq Keys
         /\ owner' \in [Keys -> Users \cup {NoUser}]
         /\ \A q \in live' \cup {k} : owner'[q] # NoUser
BY KeysAssumption DEF KeysAssumption, TablesOK, TablesAge, Unused, Insert

LEMMA ArriveStep ==
  ASSUME KeysInv, NEW r \in Requests, NEW op \in Operation, NEW k \in issued \cup {NoKey},
         NEW target \in Keys \cup {NoKey}, Arrive(r, op, k, target)
  PROVE  KeysInv'
<1> DEFINE new == [pc |-> "lookup", op |-> op, key |-> k, target |-> target,
                   user |-> NoUser, late |-> Revoked(k) \/ k \in past]
<1>1. Revoked(k) => k \in Keys \ live /\ owner[k] # NoUser
  BY DEF KeysInv, Revoked, Revocations, RequestsSound, Sound
<1>2. new \in Request
  BY DEF KeysInv, TablesOK, Request, ReqStep
<1>3. Sound(new, live, owner, past)
  BY <1>1 DEF Sound
<1> QED
  BY <1>2, <1>3, RequestStep DEF Arrive

\* The record of a request that has finished is sound whatever the table holds.
LEMMA FinishSound ==
  ASSUME NEW step \in ReqStep \ {"lookup", "check", "handle", "delete"}
  PROVE  /\ [Unsent EXCEPT !.pc = step] \in Request
         /\ \A rows, owners, expired : Sound([Unsent EXCEPT !.pc = step], rows, owners, expired)
BY DEF Unsent, Request, Operation, ReqStep, Sound

LEMMA FindKeyStep ==
  ASSUME KeysInv, NEW r \in Requests, FindKey(r)
  PROVE  KeysInv'
<1> USE DEF FindKey
<1>1. CASE req[r].key \in live
  <2> DEFINE new == [req[r] EXCEPT !.pc = "check"]
  <2>1. new \in Request /\ req' = [req EXCEPT ![r] = new]
    BY <1>1 DEF KeysInv, Goto, Request, ReqStep
  <2>2. Sound(new, live, owner, past)
    BY <1>1 DEF KeysInv, TablesOK, RequestsSound, Sound, Request
  <2> QED
    BY <2>1, <2>2, RequestStep
<1>2. CASE req[r].key \notin live
  BY <1>2, FinishSound, RequestStep DEF Finish, ReqStep
<1> QED
  BY <1>1, <1>2

LEMMA CheckStep ==
  ASSUME KeysInv, NEW r \in Requests, Check(r)
  PROVE  KeysInv'
<1> USE DEF Check, Expired
<1>1. CASE req[r].key \in past
  BY <1>1, FinishSound, RequestStep DEF Finish, ReqStep
<1>2. CASE req[r].key \notin past
  <2> DEFINE new == [req[r] EXCEPT !.pc = "handle", !.user = owner[req[r].key], !.key = NoKey]
  <2>1. req[r].key \in Keys /\ owner[req[r].key] \in Users /\ ~ req[r].late
    BY <1>2 DEF KeysInv, TablesOK, RequestsSound, Sound, Request
  <2>2. new \in Request /\ req' = [req EXCEPT ![r] = new]
    BY <1>2, <2>1 DEF KeysInv, userId, Request, ReqStep
  <2>3. Sound(new, live, owner, past)
    BY <2>1, KeysAssumption DEF KeysAssumption, KeysInv, Sound, Request
  <2>4. TablesOK'
    BY <1>2, <2>1, KeysAssumption DEF KeysAssumption, KeysInv, TablesOK
  <2>5. RequestsSound'
    BY <2>2, <2>3, OthersStaySound DEF KeysInv, TablesAge
  <2> QED
    BY <2>2, <2>4, <2>5 DEF KeysInv
<1> QED
  BY <1>1, <1>2

LEMMA CreateStep ==
  ASSUME KeysInv, NEW r \in Requests, NEW k \in Unused, Create(r, k)
  PROVE  KeysInv'
<1> USE DEF Create
<1>1. req[r].user \in Users
  BY DEF KeysInv, RequestsSound, Sound, Request
<1>2. /\ TablesAge
      /\ live' \subseteq Keys
      /\ owner' \in [Keys -> Users \cup {NoUser}]
      /\ \A q \in live' \cup {k} : owner'[q] # NoUser
  BY <1>1, InsertStep DEF KeysInv
<1>3. TablesOK'
  BY <1>2 DEF KeysInv, TablesOK, TablesAge, Unused
<1>4. req' \in [Requests -> Request]
  BY FinishSound DEF KeysInv, Finish, ReqStep
<1>5. RequestsSound'
  BY <1>2, FinishSound, OthersStaySound DEF KeysInv, Finish, ReqStep
<1> QED
  BY <1>3, <1>4, <1>5 DEF KeysInv

LEMMA FindTargetStep ==
  ASSUME KeysInv, NEW r \in Requests, FindTarget(r)
  PROVE  KeysInv'
<1> USE DEF FindTarget
<1>1. CASE FindsTarget(r)
  <2> DEFINE new == [req[r] EXCEPT !.pc = "delete"]
  <2>1. new \in Request /\ req' = [req EXCEPT ![r] = new]
    BY <1>1 DEF KeysInv, Goto, Request, ReqStep
  <2>2. Sound(new, live, owner, past)
    BY <1>1 DEF KeysInv, TablesOK, RequestsSound, Sound, Request, FindsTarget
  <2> QED
    BY <2>1, <2>2, RequestStep
<1>2. CASE ~ FindsTarget(r)
  BY <1>2, FinishSound, RequestStep DEF Finish, ReqStep
<1> QED
  BY <1>1, <1>2

\* A step of request r that takes its target out of the table, or leaves the table
\* alone.
LEMMA RemoveStep ==
  ASSUME KeysInv, NEW r \in Requests, NEW step \in {"ok", "failed"},
         req[r].pc = "delete", Goto(r, step),
         live' = live \ {req[r].target} \/ (step = "failed" /\ live' = live),
         UNCHANGED <<owner, past, lasting, issued, touching>>, faults' \in Nat
  PROVE  KeysInv'
<1> DEFINE new == [req[r] EXCEPT !.pc = step]
<1>1. new \in Request /\ req' = [req EXCEPT ![r] = new]
  BY DEF KeysInv, Goto, Request, ReqStep
<1>2. TablesOK' /\ TablesAge
  BY DEF KeysInv, TablesOK, TablesAge
<1>3. Sound(new, live', owner', past')
  BY DEF KeysInv, RequestsSound, Sound, Request
<1>4. RequestsSound'
  BY <1>1, <1>2, <1>3, OthersStaySound DEF KeysInv
<1> QED
  BY <1>1, <1>2, <1>4 DEF KeysInv

LEMMA DeleteStep ==
  ASSUME KeysInv, NEW r \in Requests, Delete(r)
  PROVE  KeysInv'
<1>1. DeleteOf(r) \in {"ok", "failed"} /\ faults' \in Nat
  BY DEF Delete, DeleteOf, KeysInv, TablesOK
<1> QED
  BY <1>1, RemoveStep DEF Delete

LEMMA FailStep ==
  ASSUME KeysInv, NEW r \in Requests, Fail(r)
  PROVE  KeysInv'
<1> USE DEF Fail
<1>1. faults' \in Nat
  BY DEF KeysInv, TablesOK
<1>2. CASE req[r].pc = "delete"
  BY <1>1, <1>2, RemoveStep
<1>3. CASE req[r].pc # "delete"
  <2>1. req' \in [Requests -> Request]
    BY <1>3, FinishSound DEF KeysInv, Finish, ReqStep
  <2>2. CASE UNCHANGED <<live, owner>>
    <3>1. TablesOK' /\ TablesAge
      BY <1>1, <2>2 DEF KeysInv, TablesOK, TablesAge
    <3>2. RequestsSound'
      BY <1>3, <3>1, FinishSound, OthersStaySound DEF KeysInv, Finish, ReqStep
    <3> QED
      BY <2>1, <3>1, <3>2 DEF KeysInv
  <2>3. ASSUME req[r].pc = "handle", NEW k \in Unused, Insert(k, req[r].user)
        PROVE  KeysInv'
    <3>1. req[r].user \in Users
      BY <2>3 DEF KeysInv, RequestsSound, Sound, Request
    <3>2. /\ TablesAge
          /\ live' \subseteq Keys
          /\ owner' \in [Keys -> Users \cup {NoUser}]
          /\ \A q \in live' \cup {k} : owner'[q] # NoUser
      BY <2>3, <3>1, InsertStep DEF KeysInv
    <3>3. TablesOK'
      BY <1>1, <3>2 DEF KeysInv, TablesOK, TablesAge, Unused
    <3>4. RequestsSound'
      BY <1>3, <3>2, FinishSound, OthersStaySound DEF KeysInv, Finish, ReqStep
    <3> QED
      BY <2>1, <3>3, <3>4 DEF KeysInv
  <2> QED
    BY <1>3, <2>2, <2>3
<1> QED
  BY <1>2, <1>3

LEMMA BootstrapStep ==
  ASSUME KeysInv, NEW k \in Unused, Bootstrap(k)
  PROVE  KeysInv'
<1> USE DEF Bootstrap
<1>1. /\ TablesAge
      /\ live' \subseteq Keys
      /\ owner' \in [Keys -> Users \cup {NoUser}]
      /\ \A q \in live' \cup {k} : owner'[q] # NoUser
  BY InsertStep, KeysAssumption DEF KeysAssumption, KeysInv
<1>2. TablesOK'
  BY <1>1 DEF KeysInv, TablesOK, TablesAge, Unused
<1>3. RequestsSound'
  BY <1>1, AllStaySound DEF KeysInv
<1> QED
  BY <1>2, <1>3 DEF KeysInv

LEMMA KeyStep ==
  ASSUME KeysInv, NEW k \in Keys, Touch(k) \/ Expire(k)
  PROVE  KeysInv'
<1>1. TablesOK' /\ TablesAge /\ req' = req
  BY DEF Touch, UpdateUsed, Expire, KeysInv, TablesOK, TablesAge
<1> QED
  BY <1>1, AllStaySound DEF KeysInv

LEMMA InvStep == KeysInv /\ [Next]_vars => KeysInv'
<1> SUFFICES ASSUME KeysInv, [Next]_vars PROVE KeysInv'
  OBVIOUS
<1>1. CASE UNCHANGED vars
  BY <1>1 DEF vars, KeysInv, TablesOK, RequestsSound, Sound
<1>2. ASSUME NEW r \in Requests,
             \/ \E k \in issued \cup {NoKey} : Arrive(r, "list", k, NoKey)
             \/ \E k \in issued : Arrive(r, "create", k, NoKey)
             \/ \E k \in issued, target \in Keys \ Unused : Arrive(r, "revoke", k, target)
      PROVE  KeysInv'
  BY <1>2, ArriveStep DEF Operation
<1>3. ASSUME NEW r \in Requests, List(r) PROVE KeysInv'
  BY <1>3, FinishSound, RequestStep DEF List, Finish, ReqStep
<1>4. ASSUME NEW r \in Requests, Handle(r) PROVE KeysInv'
  BY <1>3, <1>4, CreateStep, FindTargetStep, DeleteStep DEF Handle
<1>5. ASSUME NEW r \in Requests, FindKey(r) \/ Check(r) \/ Fail(r) PROVE KeysInv'
  BY <1>5, FindKeyStep, CheckStep, FailStep
<1>6. ASSUME NEW k \in Keys, Touch(k) \/ Expire(k) PROVE KeysInv'
  BY <1>6, KeyStep
<1>7. ASSUME NEW k \in Unused, Bootstrap(k) PROVE KeysInv'
  BY <1>7, BootstrapStep
<1> QED
  BY <1>1, <1>2, <1>4, <1>5, <1>6, <1>7 DEF Next

LEMMA InvAlways == Spec => []KeysInv
BY InitInv, InvStep, PTL DEF Spec

\* Type correctness.
THEOREM TypeCorrect == Spec => []TypeOK
BY InvAlways, InvImplies, PTL

\* requireApiKey lets no request pass that was sent after its key was revoked or
\* had expired, whatever requests and updates are still under way.
THEOREM RevokedKeysAdmitNothing == Spec => []RevokedAdmitsNothing
BY InvAlways, InvImplies, PTL

-----------------------------------------------------------------------------
\* RevocationsAgree without Cardinality, and without what Sound says.
Single == \A k \in Keys : \A r, t \in Revocations(k, {"ok"}) : r = t

Accounted ==
  \A k \in Keys : owner[k] # NoUser /\ k \notin live =>
    \E r \in Revocations(k, {"ok", "failed"}) : req[r].user = owner[k]

\* A step that removes no key and answers no revocation.
Keeps ==
  /\ TablesAge
  /\ \A k \in Keys : owner'[k] # NoUser /\ k \notin live' => owner[k] # NoUser /\ k \notin live
  /\ \A r \in Requests :
       \/ req'[r] = req[r]
       \/ /\ req[r].pc \notin {"ok", "failed"}
          /\ req'[r].op # "revoke" \/ req'[r].pc # "ok"

LEMMA KeepsAgreement ==
  ASSUME Single, Accounted, Keeps
  PROVE  Single' /\ Accounted'
<1>1. Single'
  <2> SUFFICES ASSUME NEW k \in Keys, NEW r \in Revocations(k, {"ok"})',
                      NEW t \in Revocations(k, {"ok"})'
               PROVE  r = t
    BY DEF Single
  <2>1. r \in Revocations(k, {"ok"}) /\ t \in Revocations(k, {"ok"})
    BY DEF Revocations, Keeps
  <2> QED
    BY <2>1 DEF Single
<1>2. Accounted'
  <2> SUFFICES ASSUME NEW k \in Keys, owner'[k] # NoUser, k \notin live'
               PROVE  (\E r \in Revocations(k, {"ok", "failed"}) : req[r].user = owner[k])'
    BY DEF Accounted
  <2>1. owner[k] # NoUser /\ k \notin live /\ owner'[k] = owner[k]
    BY DEF Keeps, TablesAge
  <2>2. PICK r \in Revocations(k, {"ok", "failed"}) : req[r].user = owner[k]
    BY <2>1 DEF Accounted
  <2>3. req'[r] = req[r]
    BY <2>2 DEF Revocations, Keeps
  <2> QED
    BY <2>1, <2>2, <2>3 DEF Revocations
<1> QED
  BY <1>1, <1>2

\* The step that RemoveStep is about; only a key that is there is removed with
\* success, and an earlier success would have removed it.
LEMMA RemoveKeepsAgreement ==
  ASSUME KeysInv, Single, Accounted, NEW r \in Requests, NEW step \in {"ok", "failed"},
         req[r].pc = "delete", Goto(r, step),
         step = "ok" => req[r].target \in live,
         live' = live \ {req[r].target} \/ live' = live,
         owner' = owner
  PROVE  Single' /\ Accounted'
<1> DEFINE target == req[r].target
<1>1. /\ req[r].op = "revoke" /\ target \in Keys /\ owner[target] = req[r].user
      /\ req'[r].op = "revoke" /\ req'[r].target = target
      /\ req'[r].user = req[r].user /\ req'[r].pc = step
      /\ \A t \in Requests \ {r} : req'[t] = req[t]
  BY DEF KeysInv, RequestsSound, Sound, Request, Goto
<1>2. target \in live => Revocations(target, {"ok"}) = {}
  BY DEF Revocations, KeysInv, RequestsSound, Sound
<1>3. Single'
  <2> SUFFICES ASSUME NEW k \in Keys, NEW s \in Revocations(k, {"ok"})',
                      NEW t \in Revocations(k, {"ok"})'
               PROVE  s = t
    BY DEF Single
  <2>1. CASE s # r /\ t # r
    BY <1>1, <2>1 DEF Single, Revocations
  <2>2. CASE s = r \/ t = r
    <3>1. step = "ok" /\ k = target
      BY <1>1, <2>2 DEF Revocations
    <3>2. \A u \in Requests \ {r} : u \notin Revocations(k, {"ok"})'
      BY <1>1, <1>2, <3>1 DEF Revocations
    <3> QED
      BY <3>2 DEF Revocations
  <2> QED
    BY <2>1, <2>2
<1>4. Accounted'
  <2> SUFFICES ASSUME NEW k \in Keys, owner[k] # NoUser, k \notin live'
               PROVE  (\E t \in Revocations(k, {"ok", "failed"}) : req[t].user = owner[k])'
    BY DEF Accounted
  <2>1. CASE k = target
    BY <1>1, <2>1 DEF Revocations
  <2>2. CASE k # target
    <3>1. PICK t \in Revocations(k, {"ok", "failed"}) : req[t].user = owner[k]
      BY <2>2 DEF Accounted
    <3>2. t # r
      BY <3>1 DEF Revocations
    <3> QED
      BY <1>1, <3>1, <3>2 DEF Revocations
  <2> QED
    BY <2>1, <2>2
<1> QED
  BY <1>3, <1>4

LEMMA HandleAgrees ==
  ASSUME KeysInv, Single, Accounted, NEW r \in Requests, Handle(r)
  PROVE  Single' /\ Accounted'
<1>1. ASSUME NEW k \in Unused, Create(r, k) PROVE Single' /\ Accounted'
  <2>1. req[r].user \in Users
    BY <1>1 DEF Create, KeysInv, RequestsSound, Sound, Request
  <2>2. TablesAge
    BY <1>1, <2>1, InsertStep DEF Create, KeysInv
  <2>3. Keeps
    BY <1>1, <2>2 DEF Create, Keeps, KeysInv, TablesOK, Insert, Unused, Finish, Unsent
  <2> QED
    BY <2>3, KeepsAgreement
<1>2. CASE List(r)
  BY <1>2, KeepsAgreement DEF List, Keeps, TablesAge, KeysInv, Finish, Unsent
<1>3. CASE FindTarget(r)
  BY <1>3, KeepsAgreement DEF FindTarget, Keeps, TablesAge, KeysInv, Goto, Finish, Unsent, Request
<1>4. CASE Delete(r)
  BY <1>4, RemoveKeepsAgreement DEF Delete, DeleteOf
<1> QED
  BY <1>1, <1>2, <1>3, <1>4 DEF Handle

LEMMA FailAgrees ==
  ASSUME KeysInv, Single, Accounted, NEW r \in Requests, Fail(r)
  PROVE  Single' /\ Accounted'
<1> USE DEF Fail
<1>1. CASE req[r].pc = "delete"
  BY <1>1, RemoveKeepsAgreement
<1>2. ASSUME req[r].pc = "handle", NEW k \in Unused, Insert(k, req[r].user)
      PROVE  Single' /\ Accounted'
  <2>1. req[r].user \in Users
    BY <1>2 DEF KeysInv, RequestsSound, Sound, Request
  <2>2. TablesAge
    BY <1>2, <2>1, InsertStep DEF KeysInv
  <2>3. Keeps
    BY <1>2, <2>2 DEF Keeps, KeysInv, TablesOK, Insert, Unused, Finish, Unsent
  <2> QED
    BY <2>3, KeepsAgreement
<1>3. CASE req[r].pc # "delete" /\ UNCHANGED <<live, owner>>
  BY <1>3, KeepsAgreement DEF Keeps, TablesAge, KeysInv, Finish, Unsent
<1> QED
  BY <1>1, <1>2, <1>3

LEMMA AgreementStep ==
  KeysInv /\ Single /\ Accounted /\ [Next]_vars => Single' /\ Accounted'
<1> SUFFICES ASSUME KeysInv, Single, Accounted, [Next]_vars PROVE Single' /\ Accounted'
  OBVIOUS
<1>1. CASE UNCHANGED vars
  BY <1>1, KeepsAgreement DEF vars, Keeps, TablesAge
<1>2. ASSUME NEW r \in Requests, NEW op \in Operation, NEW k, NEW target, Arrive(r, op, k, target)
      PROVE  Single' /\ Accounted'
  BY <1>2, KeepsAgreement DEF Arrive, Keeps, TablesAge, KeysInv
<1>3. ASSUME NEW r \in Requests, FindKey(r) \/ Check(r) PROVE Single' /\ Accounted'
  BY <1>3, KeepsAgreement
  DEF FindKey, Check, Keeps, TablesAge, KeysInv, Goto, Finish, Unsent, Request
<1>4. ASSUME NEW k \in Keys, Touch(k) \/ Expire(k) PROVE Single' /\ Accounted'
  BY <1>4, KeepsAgreement DEF Touch, UpdateUsed, Expire, Keeps, TablesAge
<1>5. ASSUME NEW k \in Unused, Bootstrap(k) PROVE Single' /\ Accounted'
  <2>1. TablesAge
    BY <1>5, InsertStep, KeysAssumption DEF KeysAssumption, Bootstrap, KeysInv
  <2>2. Keeps
    BY <1>5, <2>1 DEF Bootstrap, Keeps, KeysInv, TablesOK, Insert, Unused
  <2> QED
    BY <2>2, KeepsAgreement
<1> QED
  BY <1>1, <1>2, <1>3, <1>4, <1>5, HandleAgrees, FailAgrees DEF Next, Operation

LEMMA AgreementImplies == KeysInv /\ Single /\ Accounted => RevocationsAgree
<1> SUFFICES ASSUME KeysInv, Single, Accounted, NEW k \in Keys
             PROVE  /\ Cardinality(Revocations(k, {"ok"})) <= 1
                    /\ Revoked(k) => k \notin live
  BY DEF RevocationsAgree, Accounted
<1>1. Cardinality(Revocations(k, {"ok"})) <= 1
  <2>1. CASE Revocations(k, {"ok"}) = {}
    BY <2>1, FS_EmptySet
  <2>2. ASSUME NEW r \in Revocations(k, {"ok"}) PROVE Cardinality(Revocations(k, {"ok"})) <= 1
    <3>1. Revocations(k, {"ok"}) = {r}
      BY <2>2 DEF Single
    <3>2. Cardinality({r}) = 1
      BY FS_Singleton, Zenon
    <3> QED
      BY <3>1, <3>2
  <2> QED
    BY <2>1, <2>2
<1>2. Revoked(k) => k \notin live
  BY DEF Revoked, Revocations, KeysInv, RequestsSound, Sound
<1> QED
  BY <1>1, <1>2

\* The answers of revocations and the table agree, for every number of concurrent
\* revocations and interrupted requests.
THEOREM RevocationsAgreeAlways == Spec => []RevocationsAgree
<1>1. Init => Single /\ Accounted
  <2> SUFFICES ASSUME Init PROVE Single /\ Accounted
    OBVIOUS
  <2>1. Single
    BY DEF Init, Single, Revocations, Unsent
  <2>2. Accounted
    BY DEF Init, Accounted
  <2> QED
    BY <2>1, <2>2
<1> QED
  BY <1>1, AgreementStep, AgreementImplies, InvAlways, PTL DEF Spec

-----------------------------------------------------------------------------
\* What request q may still do for user u, while the keys have the given owners
\* and the given ones are expired: nothing.
Barred(u, q, owners, expired) ==
  /\ q.pc = "handle" => q.user # u
  /\ q.pc = "check" => owners[q.key] # u \/ q.key \in expired

\* A step that gives user u no key, and after which every request that has
\* changed is barred.
LEMMA StaysLockedOut ==
  ASSUME KeysInv, NEW u \in Users \ {DevUser}, LockedOut(u), TablesAge,
         \A k \in Keys : owner'[k] = u => owner[k] = u,
         \A r \in Requests : req'[r] = req[r] \/ Barred(u, req'[r], owner', past')
  PROVE  LockedOut(u)'
<1>1. u # NoUser
  BY KeysAssumption DEF KeysAssumption
<1>2. ASSUME NEW k \in Keys, owner'[k] = u PROVE ~ Accepted(k)'
  BY <1>1, <1>2 DEF LockedOut, Accepted, TablesAge
<1>3. ASSUME NEW r \in Requests PROVE Barred(u, req'[r], owner', past')
  <2>1. CASE req'[r] = req[r]
    <3>1. Barred(u, req[r], owner, past)
      BY DEF LockedOut, Barred
    <3>2. req[r].pc = "check" => req[r].key \in Keys /\ owner[req[r].key] # NoUser
      BY DEF KeysInv, RequestsSound, Sound
    <3> QED
      BY <2>1, <3>1, <3>2 DEF Barred, TablesAge
  <2> QED
    BY <2>1
<1> QED
  BY <1>2, <1>3 DEF LockedOut, Barred

LEMMA FinishBarred ==
  ASSUME NEW step \in ReqStep \ {"check", "handle"}, NEW u
  PROVE  \A owners, expired : Barred(u, [Unsent EXCEPT !.pc = step], owners, expired)
BY DEF Unsent, Barred

LEMMA LockedOutStep ==
  ASSUME KeysInv, [Next]_vars, NEW u \in Users \ {DevUser}, LockedOut(u)
  PROVE  LockedOut(u)'
<1>1. u \in Users /\ u # DevUser /\ u # NoUser
  BY KeysAssumption DEF KeysAssumption
<1>2. CASE UNCHANGED vars
  BY <1>2, StaysLockedOut DEF vars, TablesAge
<1>3. ASSUME NEW r \in Requests, NEW op \in Operation, NEW k, NEW target, Arrive(r, op, k, target)
      PROVE  LockedOut(u)'
  BY <1>3, StaysLockedOut DEF Arrive, TablesAge, KeysInv, Barred
<1>4. ASSUME NEW r \in Requests, FindKey(r) PROVE LockedOut(u)'
  <2>1. CASE req[r].key \in live
    <3>1. req[r].key \in Keys /\ (owner[req[r].key] = u => req[r].key \in past)
      BY <2>1 DEF KeysInv, TablesOK, LockedOut, Accepted
    <3>2. \A t \in Requests : req'[t] = req[t] \/ Barred(u, req'[t], owner', past')
      BY <1>4, <2>1, <3>1 DEF FindKey, Goto, Barred, KeysInv, Request
    <3> QED
      BY <1>4, <3>2, StaysLockedOut DEF FindKey, TablesAge
  <2>2. CASE req[r].key \notin live
    <3>1. \A t \in Requests : req'[t] = req[t] \/ Barred(u, req'[t], owner', past')
      BY <1>4, <2>2, FinishBarred DEF FindKey, Finish, ReqStep, KeysInv
    <3> QED
      BY <1>4, <3>1, StaysLockedOut DEF FindKey, TablesAge
  <2> QED
    BY <2>1, <2>2
<1>5. ASSUME NEW r \in Requests, Check(r) PROVE LockedOut(u)'
  <2>1. CASE req[r].key \in past
    <3>1. \A t \in Requests : req'[t] = req[t] \/ Barred(u, req'[t], owner', past')
      BY <1>5, <2>1, FinishBarred DEF Check, Expired, Finish, ReqStep, KeysInv
    <3> QED
      BY <1>5, <3>1, StaysLockedOut DEF Check, TablesAge
  <2>2. CASE req[r].key \notin past
    <3>1. owner[req[r].key] # u
      BY <1>5, <2>2 DEF Check, LockedOut
    <3>2. \A t \in Requests : req'[t] = req[t] \/ Barred(u, req'[t], owner', past')
      BY <1>5, <2>2, <3>1 DEF Check, Expired, userId, Barred, KeysInv, Request
    <3> QED
      BY <1>5, <3>2, StaysLockedOut DEF Check, TablesAge
  <2> QED
    BY <2>1, <2>2
<1>6. ASSUME NEW r \in Requests, NEW k \in Unused, req[r].pc = "handle", Insert(k, req[r].user),
             UNCHANGED past, NEW step \in {"ok", "failed"}, Finish(r, step)
      PROVE  LockedOut(u)'
  <2>1. req[r].user \in Users /\ req[r].user # u
    BY <1>6 DEF KeysInv, RequestsSound, Sound, Request, LockedOut
  <2>2. TablesAge
    BY <1>6, <2>1, InsertStep DEF KeysInv
  <2>3. \A q \in Keys : owner'[q] = u => owner[q] = u
    BY <1>6, <2>1 DEF Insert, KeysInv, TablesOK
  <2>4. \A t \in Requests : req'[t] = req[t] \/ Barred(u, req'[t], owner', past')
    BY <1>6, FinishBarred DEF Finish, ReqStep, KeysInv
  <2> QED
    BY <2>2, <2>3, <2>4, StaysLockedOut
<1>7. ASSUME NEW r \in Requests, NEW step \in ReqStep \ {"check", "handle"},
             Goto(r, step) \/ Finish(r, step),
             live' \subseteq live, UNCHANGED <<owner, past>>
      PROVE  LockedOut(u)'
  <2>1. \A t \in Requests : req'[t] = req[t] \/ Barred(u, req'[t], owner', past')
    BY <1>7, FinishBarred DEF Goto, Finish, Barred, KeysInv, Request
  <2> QED
    BY <1>7, <2>1, StaysLockedOut DEF TablesAge
<1>8. ASSUME NEW r \in Requests, Handle(r) PROVE LockedOut(u)'
  <2>1. ASSUME NEW k \in Unused, Create(r, k) PROVE LockedOut(u)'
    BY <1>6, <2>1 DEF Create
  <2>2. CASE List(r)
    BY <1>7, <2>2 DEF List, ReqStep
  <2>3. CASE FindTarget(r)
    BY <1>7, <2>3 DEF FindTarget, ReqStep
  <2>4. CASE Delete(r)
    BY <1>7, <2>4 DEF Delete, DeleteOf, ReqStep
  <2> QED
    BY <1>8, <2>1, <2>2, <2>3, <2>4 DEF Handle
<1>9. ASSUME NEW r \in Requests, Fail(r) PROVE LockedOut(u)'
  <2>1. CASE live' \subseteq live /\ UNCHANGED owner
    BY <1>7, <1>9, <2>1 DEF Fail, ReqStep
  <2>2. ASSUME NEW k \in Unused, req[r].pc = "handle", Insert(k, req[r].user) PROVE LockedOut(u)'
    BY <1>6, <1>9, <2>2 DEF Fail
  <2> QED
    BY <1>9, <2>1, <2>2 DEF Fail
<1>10. ASSUME NEW k \in Keys, Touch(k) \/ Expire(k) PROVE LockedOut(u)'
  BY <1>10, StaysLockedOut DEF Touch, UpdateUsed, Expire, TablesAge
<1>11. ASSUME NEW k \in Unused, Bootstrap(k) PROVE LockedOut(u)'
  <2>1. TablesAge
    BY <1>11, InsertStep, KeysAssumption DEF KeysAssumption, Bootstrap, KeysInv
  <2>2. \A q \in Keys : owner'[q] = u => owner[q] = u
    BY <1>1, <1>11 DEF Bootstrap, Insert, KeysInv, TablesOK
  <2> QED
    BY <1>11, <2>1, <2>2, StaysLockedOut DEF Bootstrap
<1> QED
  BY <1>2, <1>3, <1>4, <1>5, <1>8, <1>9, <1>10, <1>11 DEF Next, Operation

\* A user other than DevUser whose keys are all revoked or expired, and for whom
\* no admitted request is under way, is locked out for good, whatever the other
\* users, the bootstrap route and interrupted requests do.
THEOREM NoWayBack == Spec => LockedOutForGood
<1>1. KeysInv /\ [Next]_vars =>
        [\A u \in Users \ {DevUser} : LockedOut(u) => LockedOut(u)']_vars
  BY LockedOutStep
<1> QED
  BY <1>1, InvAlways, PTL DEF Spec, LockedOutForGood
=============================================================================
