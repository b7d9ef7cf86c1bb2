-------------------------- MODULE IdempotencyProofs --------------------------
(***************************************************************************)
(* Theorems of Idempotency for every number of requests, keys and faults.  *)
(***************************************************************************)
EXTENDS Idempotency, TLAPS

\* A request has a reply and an outcome only once it is done, and no side
\* effect before its handler runs.
Staged ==
  \A r \in Requests :
    /\ req[r] # "done" => reply[r] = NoReply /\ outcome[r] = "none"
    /\ req[r] = "unsent" => r \notin effects

\* A reply that another request's handler made is the one in the table, where it
\* stays.
RepliesStored ==
  \A r \in Requests :
    reply[r] \notin {r, NoReply} => Keyed(r) /\ stored[KeyOf[r]] = reply[r]

\* As long as nothing failed, every copy that is due has reached the table, or
\* another one of its key was there before.
CopiesArrive ==
  faults = 0 =>
    \A q \in Requests :
      Keyed(q) /\ outcome[q] \in {"2xx", "4xx"} /\ q \notin storing =>
        stored[KeyOf[q]] # NoReply

\* As long as nothing failed, a request that came late enough is answered from
\* the table.
CoveredReplayed ==
  faults = 0 => \A r \in covered : req[r] = "done" /\ r \notin effects

ReplayInv == TypeOK /\ Staged /\ RepliesStored /\ CopiesArrive /\ CoveredReplayed

LEMMA InvImplies == ReplayInv => ReplaysAgree /\ StoredEndsEffects
BY DEF ReplayInv, RepliesStored, CoveredReplayed, ReplaysAgree, StoredEndsEffects, Keyed

LEMMA InitInv == Init => ReplayInv
BY IdempotencyAssumption
DEF IdempotencyAssumption, Init, ReplayInv, TypeOK, Outcomes, Staged, RepliesStored,
    CopiesArrive, CoveredReplayed

LEMMA KeyIsKnown ==
  ASSUME NEW r \in Requests, Keyed(r)
  PROVE  KeyOf[r] \in Keys
BY IdempotencyAssumption DEF IdempotencyAssumption, Keyed

\* A request without a key goes past the table.
LEMMA BypassStep ==
  ASSUME ReplayInv, NEW r \in Requests, Bypass(r)
  PROVE  ReplayInv'
<1> USE DEF Bypass, ReplayInv
<1>1. TypeOK'
  BY DEF TypeOK
<1>2. Staged' /\ CoveredReplayed'
  BY DEF TypeOK, Staged, CoveredReplayed
<1>3. RepliesStored' /\ CopiesArrive'
  BY DEF RepliesStored, CopiesArrive
<1> QED
  BY <1>1, <1>2, <1>3

\* A stored response is the reply of a lookup: that the copies have arrived is
\* what sends a request that comes after them around its handler.
LEMMA LookupStep ==
  ASSUME ReplayInv, NEW r \in Requests, Lookup(r)
  PROVE  ReplayInv'
<1> USE DEF ReplayInv
<1>1. KeyOf[r] \in Keys /\ req[r] = "unsent" /\ Keyed(r)
  BY KeyIsKnown DEF Lookup
<1>2. UNCHANGED <<stored, outcome, storing, effects, faults>>
  BY DEF Lookup
<1>3. covered' \subseteq covered \cup {r} /\ late' \in SUBSET Requests
  BY DEF Lookup, TypeOK
<1>4. CopiesArrive'
  BY <1>2 DEF CopiesArrive
<1>5. r \notin effects
  BY <1>1 DEF Staged
<1>6. CASE stored[KeyOf[r]] # NoReply
  <2>1. req' = [req EXCEPT ![r] = "done"] /\ reply' = [reply EXCEPT ![r] = stored[KeyOf[r]]]
    BY <1>6 DEF Lookup, Replayable
  <2>2. TypeOK'
    BY <1>1, <1>2, <1>3, <2>1 DEF TypeOK
  <2>3. Staged' /\ CoveredReplayed'
    BY <1>2, <1>3, <1>5, <2>1 DEF TypeOK, Staged, CoveredReplayed
  <2>4. RepliesStored'
    BY <1>1, <1>2, <2>1 DEF TypeOK, RepliesStored
  <2> QED
    BY <1>4, <2>2, <2>3, <2>4
<1>7. CASE stored[KeyOf[r]] = NoReply
  <2>1. req' = [req EXCEPT ![r] = "handling"] /\ reply' = reply
    BY <1>7 DEF Lookup, Replayable
  <2>2. TypeOK'
    BY <1>1, <1>2, <1>3, <2>1 DEF TypeOK
  <2>3. faults = 0 => covered' = covered
    BY <1>1, <1>7 DEF Lookup, Duplicates, CopiesArrive, Keyed
  <2>4. Staged'
    BY <1>1, <1>2, <1>5, <2>1 DEF TypeOK, Staged
  <2>5. CoveredReplayed'
    BY <1>1, <1>2, <2>1, <2>3 DEF TypeOK, CoveredReplayed
  <2> QED
    BY <1>2, <1>4, <2>1, <2>2, <2>4, <2>5 DEF RepliesStored
<1> QED
  BY <1>6, <1>7

\* A lookup that rejects is a fault, after which a copy may be missing.
LEMMA LookupFaultStep ==
  ASSUME ReplayInv, NEW r \in Requests, LookupFault(r)
  PROVE  ReplayInv'
<1> USE DEF LookupFault, Fault, ReplayInv
<1>1. TypeOK' /\ faults' # 0
  BY DEF TypeOK
<1>2. Staged'
  BY DEF TypeOK, Staged
<1> QED
  BY <1>1, <1>2 DEF RepliesStored, CopiesArrive, CoveredReplayed

\* What every way of answering keeps; the side effect is the handler's.
LEMMA AnswerStep ==
  ASSUME ReplayInv, NEW r \in Requests, req[r] = "handling", NEW status \in {"2xx", "4xx", "5xx"},
         Answer(r, status), effects' \in {effects, effects \cup {r}},
         UNCHANGED <<stored, late, covered>>, faults' \in Nat,
         faults' = 0 => faults = 0 /\ status # "5xx"
  PROVE  ReplayInv'
<1> USE DEF ReplayInv
<1>1. TypeOK'
  BY DEF TypeOK, Answer, Outcomes
<1>2. Staged'
  BY DEF TypeOK, Staged, Answer
<1>3. RepliesStored'
  BY DEF TypeOK, RepliesStored, Answer
<1>4. CopiesArrive'
  <2> SUFFICES ASSUME faults' = 0, NEW q \in Requests, Keyed(q), outcome'[q] \in {"2xx", "4xx"},
                      q \notin storing'
               PROVE  stored[KeyOf[q]] # NoReply
    BY DEF CopiesArrive, Keyed
  <2>1. CASE q = r
    BY <2>1 DEF TypeOK, Answer, Cacheable
  <2>2. CASE q # r
    BY <2>2 DEF TypeOK, Answer, CopiesArrive
  <2> QED
    BY <2>1, <2>2
<1>5. CoveredReplayed'
  BY DEF TypeOK, CoveredReplayed, Answer
<1> QED
  BY <1>1, <1>2, <1>3, <1>4, <1>5

LEMMA HandlerStep ==
  ASSUME ReplayInv, NEW r \in Requests, Succeed(r) \/ Refuse(r) \/ Throw(r)
  PROVE  ReplayInv'
<1>1. CASE Succeed(r)
  BY <1>1, AnswerStep DEF Succeed, ReplayInv, TypeOK
<1>2. CASE Refuse(r)
  BY <1>2, AnswerStep DEF Refuse, ReplayInv, TypeOK
<1>3. CASE Throw(r)
  BY <1>3, AnswerStep DEF Throw, Fault, ReplayInv, TypeOK
<1> QED
  BY <1>1, <1>2, <1>3

\* The unique index keeps the row that is there, so that no reply taken from it
\* loses its original.
LEMMA StoreStep ==
  ASSUME ReplayInv, NEW r \in Requests, Store(r)
  PROVE  ReplayInv'
<1> USE DEF Store, ReplayInv
<1>1. KeyOf[r] \in Keys
  BY KeyIsKnown DEF TypeOK
<1>2. /\ stored' \in [Keys -> Requests \cup {NoReply}]
      /\ stored'[KeyOf[r]] # NoReply
      /\ \A k \in Keys : stored[k] # NoReply => stored'[k] = stored[k]
  <2>1. CASE stored[KeyOf[r]] = NoReply
    BY <1>1, <2>1, IdempotencyAssumption DEF TypeOK, IdempotencyAssumption
  <2>2. CASE stored[KeyOf[r]] # NoReply
    BY <1>1, <2>2 DEF TypeOK
  <2> QED
    BY <2>1, <2>2
<1>3. TypeOK'
  BY <1>2 DEF TypeOK
<1>4. Staged' /\ CoveredReplayed'
  BY DEF Staged, CoveredReplayed
<1>5. RepliesStored'
  <2> SUFFICES ASSUME NEW q \in Requests, reply[q] \notin {q, NoReply}
               PROVE  Keyed(q) /\ stored'[KeyOf[q]] = reply[q]
    BY DEF RepliesStored, Keyed
  <2>1. KeyOf[q] \in Keys /\ Keyed(q) /\ stored[KeyOf[q]] = reply[q]
    BY KeyIsKnown DEF RepliesStored
  <2> QED
    BY <1>2, <2>1
<1>6. CopiesArrive'
  <2> SUFFICES ASSUME faults = 0, NEW q \in Requests, Keyed(q), outcome[q] \in {"2xx", "4xx"},
                      q \notin storing \ {r}
               PROVE  stored'[KeyOf[q]] # NoReply
    BY DEF CopiesArrive, Keyed
  <2>1. KeyOf[q] \in Keys
    BY KeyIsKnown
  <2> QED
    BY <1>2, <2>1 DEF CopiesArrive
<1> QED
  BY <1>3, <1>4, <1>5, <1>6

LEMMA LoseStoreStep ==
  ASSUME ReplayInv, NEW r \in Requests, LoseStore(r)
  PROVE  ReplayInv'
<1> USE DEF LoseStore, Fault, ReplayInv
<1>1. TypeOK' /\ faults' # 0
  BY DEF TypeOK
<1> QED
  BY <1>1 DEF Staged, RepliesStored, CopiesArrive, CoveredReplayed

LEMMA CrashStep ==
  ASSUME ReplayInv, Crash
  PROVE  ReplayInv'
<1> USE DEF ReplayInv
<1>1. PICK done \in SUBSET {r \in Requests : req[r] = "handling"} : effects' = effects \cup done
  BY DEF Crash
<1>2. \A r \in Requests : req'[r] = IF req[r] = "handling" THEN "done" ELSE req[r]
  BY DEF Crash
<1>3. TypeOK' /\ faults' # 0
  <2>1. req' \in [Requests -> {"unsent", "handling", "done"}]
    BY DEF Crash, TypeOK
  <2> QED
    BY <1>1, <2>1 DEF Crash, Fault, TypeOK
<1>4. Staged'
  BY <1>1, <1>2 DEF Crash, TypeOK, Staged
<1> QED
  BY <1>3, <1>4 DEF Crash, RepliesStored, CopiesArrive, CoveredReplayed

LEMMA InvStep == ReplayInv /\ [Next]_vars => ReplayInv'
<1> SUFFICES ASSUME ReplayInv, [Next]_vars PROVE ReplayInv'
  OBVIOUS
<1>1. CASE UNCHANGED vars
  BY <1>1 DEF vars, ReplayInv, TypeOK, Staged, RepliesStored, CopiesArrive, CoveredReplayed
<1> QED
  BY <1>1, BypassStep, LookupStep, LookupFaultStep, HandlerStep, StoreStep, LoseStoreStep,
     CrashStep DEF Next

LEMMA InvAlways == Spec => []ReplayInv
BY InitInv, InvStep, PTL DEF Spec

\* Type correctness: every variable of the middleware has its type, and only
\* answered requests with a key are stored.
THEOREM TypeCorrect == Spec => []TypeOK
<1>1. ReplayInv => TypeOK
  BY DEF ReplayInv
<1> QED
  BY <1>1, InvAlways, PTL

\* However many duplicates run beside each other, and whatever gets lost, all
\* replies the middleware takes from the table for one key are the same.
THEOREM OneReplyPerKey == Spec => []ReplaysAgree
BY InvAlways, InvImplies, PTL

\* As long as nothing fails, a request that comes after the copy of an earlier
\* reply was due in the table has no side effect.
THEOREM StoredReplyEndsEffects == Spec => []StoredEndsEffects
BY InvAlways, InvImplies, PTL
=============================================================================
