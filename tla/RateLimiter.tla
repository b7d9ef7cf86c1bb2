----------------------------- MODULE RateLimiter -----------------------------
(***************************************************************************)
(* rateLimiter(limit, windowSeconds) for one client: a counter in Redis    *)
(* that every request of the client increments, and that expires           *)
(* windowSeconds after the request that created it.  INCR and EXPIRE are   *)
(* two calls.                                                              *)
(*                                                                         *)
(* Time passes in ticks, between the two calls of a request as well.       *)
(***************************************************************************)
EXTENDS Integers, FiniteSets

CONSTANTS
  Requests,   \* requests of the client that are under way at the same time
  Limit,      \* limit
  Window,     \* windowSeconds, in ticks
  NoTtl,      \* the key has no time to live
  MaxCount,   \* the counter is not told apart above this
  MaxFaults   \* bound on Redis calls that reject or die with their process

ASSUME LimiterAssumption ==
  /\ Limit \in Nat \ {0}
  /\ Window \in Nat \ {0}
  /\ NoTtl \notin Nat
  /\ MaxCount \in Nat /\ MaxCount > Limit
  /\ MaxFaults \in Nat

VARIABLES
  current,   \* the counter; 0 when the key does not exist
  ttl,       \* ticks until the key expires
  pending,   \* requests between INCR and EXPIRE, with the count they got
  admitted,  \* admitted requests of the last Window ticks: how many ticks ago
             \* and the count each one got (history)
  faults     \* faults so far

vars == <<current, ttl, pending, admitted, faults>>

\* Ticks of the past that a window ending now reaches back to.
Ages == 0..Window - 1

Init ==
  /\ current = 0
  /\ ttl = NoTtl
  /\ pending = [r \in Requests |-> 0]
  /\ admitted = {}
  /\ faults = 0

\* The guard that sets the expiration, and one that renews it every time.
EveryRequest(n) == TRUE
FirstRequest(n) == n = 1

\* current > limit throws 429.
AdmitsOneMore(n) == n <= Limit + 1
Admits(n) == n <= Limit

\* EXPIRE takes seconds.
inMillis(seconds) == 1000 * seconds
inSeconds(seconds) == seconds

\* The request goes on to its handler, or gets a 429.
Decide(n) == admitted' = IF Admits(n) THEN admitted \cup {<<0, n>>} ELSE admitted

Incr(r) ==
  /\ pending[r] = 0
  /\ current' = IF current < MaxCount THEN current + 1 ELSE current
  /\ IF FirstRequest(current')
       THEN pending' = [pending EXCEPT ![r] = current'] /\ UNCHANGED admitted
       ELSE Decide(current') /\ UNCHANGED pending
  /\ UNCHANGED <<ttl, faults>>

Expire(r) ==
  /\ pending[r] > 0
  /\ ttl' = inSeconds(Window)
  /\ Decide(pending[r])
  /\ pending' = [pending EXCEPT ![r] = 0]
  /\ UNCHANGED <<current, faults>>

\* EXPIRE rejects, which answers 500, or its process dies.
LoseExpire(r) ==
  /\ pending[r] > 0
  /\ faults < MaxFaults
  /\ faults' = faults + 1
  /\ pending' = [pending EXCEPT ![r] = 0]
  /\ UNCHANGED <<current, ttl, admitted>>

\* One tick; the key expires with the last one.
Tick ==
  /\ admitted' = {<<p[1] + 1, p[2]>> : p \in {q \in admitted : q[1] + 1 \in Ages}}
  /\ IF ttl = 1
       THEN current' = 0 /\ ttl' = NoTtl
       ELSE ttl' = (IF ttl = NoTtl THEN NoTtl ELSE ttl - 1) /\ UNCHANGED current
  /\ UNCHANGED <<pending, faults>>

Next ==
  \/ \E r \in Requests : Incr(r) \/ Expire(r) \/ LoseExpire(r)
  \/ Tick

Spec == Init /\ [][Next]_vars

\* Time passes, and a request that waits for Redis gets its answer.
FairSpec == Spec /\ WF_vars(Tick) /\ \A r \in Requests : WF_vars(Expire(r))

-----------------------------------------------------------------------------
AdmittedInWindow == Cardinality(admitted)

\* Every variable has its type; a time to live belongs to an existing key.
TypeOK ==
  /\ current \in 0..MaxCount
  /\ ttl \in 1..Window \cup {NoTtl}
  /\ current = 0 => ttl = NoTtl
  /\ pending \in [Requests -> 0..MaxCount]
  /\ admitted \subseteq Ages \X (1..MaxCount)
  /\ faults \in Nat

\* No interval of windowSeconds, wherever it lies, admits more than twice the
\* limit: it meets at most two counters.
TwiceTheLimit == AdmittedInWindow <= 2 * Limit

\* A client over the limit is not over it for ever, as long as no EXPIRE of a
\* first request is lost.
Unblocks == ~ Admits(current) ~> Admits(current) \/ faults > 0
=============================================================================
