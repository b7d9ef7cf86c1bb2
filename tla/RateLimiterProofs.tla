-------------------------- MODULE RateLimiterProofs --------------------------
(***************************************************************************)
(* Theorems of RateLimiter for every limit, window and number of requests. *)
(***************************************************************************)
EXTENDS RateLimiter, FiniteSetTheorems, TLAPS

-----------------------------------------------------------------------------
\* EXPIRE is only ever under way for the request that created the counter,
\* and until it is done the counter has no time to live.
OneFirst ==
  /\ \A r \in Requests : pending[r] \in {0, 1}
  /\ \A r \in Requests : pending[r] = 1 => ttl = NoTtl /\ current > 0
  /\ \A r, s \in Requests : pending[r] = 1 /\ pending[s] = 1 => r = s

\* An admission of the counter that was created b ticks ago: an earlier one
\* was deleted by a tick, so that what it admitted is older than b.
Recent(p, b) == p[1] <= b

\* The counter that exists was created b ticks ago.  It and the one before it
\* gave every request they admitted a count of its own, and what was admitted
\* under any other counter has left the window.
TwoCounters(b) ==
  /\ current = 0 => b = 0
  /\ ttl # NoTtl => b >= Window - ttl
  /\ \A p \in admitted : p[2] \in 1..Limit
  /\ \A p \in admitted : Recent(p, b) => p[2] <= current
  /\ \A p \in admitted, r \in Requests : Recent(p, b) /\ pending[r] = 1 => p[2] # 1
  /\ \A p, q \in admitted : (Recent(p, b) <=> Recent(q, b)) /\ p[2] = q[2] => p = q

LimiterInv ==
  /\ TypeOK
  /\ OneFirst
  /\ \E b \in Nat : TwoCounters(b)

-----------------------------------------------------------------------------
\* The steps keep the types.
LEMMA InitTypes == Init => TypeOK
BY LimiterAssumption DEF LimiterAssumption, Init, TypeOK

LEMMA IncrTypes ==
  ASSUME TypeOK, NEW r \in Requests, Incr(r)
  PROVE  TypeOK'
<1>1. current' \in 1..MaxCount /\ UNCHANGED <<ttl, faults>>
  BY LimiterAssumption DEF LimiterAssumption, TypeOK, Incr
<1>2. CASE FirstRequest(current')
  BY <1>1, <1>2, LimiterAssumption DEF LimiterAssumption, TypeOK, Incr
<1>3. CASE ~ FirstRequest(current')
  <2>1. pending' = pending /\ Decide(current')
    BY <1>3 DEF Incr
  <2>2. admitted' \subseteq admitted \cup {<<0, current'>>}
    BY <2>1 DEF Decide
  <2>3. <<0, current'>> \in Ages \X (1..MaxCount)
    BY <1>1, LimiterAssumption DEF LimiterAssumption, Ages
  <2> QED
    BY <1>1, <2>1, <2>2, <2>3, LimiterAssumption DEF LimiterAssumption, TypeOK
<1> QED
  BY <1>2, <1>3

LEMMA ExpireTypes ==
  ASSUME TypeOK, OneFirst, NEW r \in Requests, Expire(r)
  PROVE  TypeOK'
<1>1. pending[r] = 1 /\ current > 0 /\ current' = current
  BY DEF OneFirst, Expire, TypeOK
<1>2. admitted' \subseteq admitted \cup {<<0, 1>>}
  BY <1>1 DEF Expire, Decide
<1>3. <<0, 1>> \in Ages \X (1..MaxCount)
  BY LimiterAssumption DEF LimiterAssumption, Ages
<1>4. pending' \in [Requests -> 0..MaxCount] /\ ttl' \in 1..Window /\ faults' = faults
  BY LimiterAssumption DEF LimiterAssumption, TypeOK, Expire, inSeconds
<1> QED
  BY <1>1, <1>2, <1>3, <1>4 DEF TypeOK

LEMMA LoseExpireTypes ==
  ASSUME TypeOK, NEW r \in Requests, LoseExpire(r)
  PROVE  TypeOK'
BY LimiterAssumption DEF LimiterAssumption, TypeOK, LoseExpire

\* An admission that is still in the window after a tick was in it before, one
\* tick younger and with the same count.
LEMMA TickAges ==
  ASSUME TypeOK, Tick, NEW p \in admitted'
  PROVE  \E q \in admitted : /\ q[1] \in 0..Window - 2
                             /\ p = <<q[1] + 1, q[2]>>
                             /\ q[2] \in 1..MaxCount
<1>1. PICK q \in admitted : q[1] + 1 \in Ages /\ p = <<q[1] + 1, q[2]>>
  BY DEF Tick
<1>2. q[1] \in 0..Window - 1 /\ q[2] \in 1..MaxCount
  BY DEF TypeOK, Ages
<1> QED
  BY <1>1, <1>2, LimiterAssumption DEF LimiterAssumption, Ages

LEMMA TickTypes ==
  ASSUME TypeOK, Tick
  PROVE  TypeOK'
<1>1. admitted' \subseteq Ages \X (1..MaxCount)
  BY TickAges, LimiterAssumption DEF LimiterAssumption, Ages
<1>2. current' \in 0..MaxCount /\ ttl' \in 1..Window \cup {NoTtl}
  BY LimiterAssumption DEF LimiterAssumption, TypeOK, Tick
<1>3. current' = 0 => ttl' = NoTtl
  BY DEF TypeOK, Tick
<1> QED
  BY <1>1, <1>2, <1>3 DEF TypeOK, Tick

-----------------------------------------------------------------------------
\* Only the request that finds no counter has an EXPIRE to make.
LEMMA FirstKept ==
  ASSUME TypeOK, OneFirst, [Next]_vars
  PROVE  OneFirst'
<1>1. ASSUME NEW r \in Requests, Incr(r) PROVE OneFirst'
  <2>1. CASE FirstRequest(current')
    <3>1. current = 0 /\ ttl = NoTtl /\ current' = 1 /\ ttl' = ttl
      BY <1>1, <2>1, LimiterAssumption DEF LimiterAssumption, Incr, FirstRequest, TypeOK
    <3>2. \A s \in Requests : pending[s] = 0
      BY <3>1 DEF OneFirst, TypeOK
    <3>3. pending' = [pending EXCEPT ![r] = 1]
      BY <1>1, <2>1, <3>1 DEF Incr
    <3> QED
      BY <3>1, <3>2, <3>3 DEF OneFirst, TypeOK
  <2>2. CASE ~ FirstRequest(current')
    <3>1. pending' = pending /\ ttl' = ttl /\ current' > 0
      BY <1>1, <2>2, LimiterAssumption DEF LimiterAssumption, Incr, TypeOK
    <3> QED
      BY <3>1 DEF OneFirst
  <2> QED
    BY <2>1, <2>2
<1>2. ASSUME NEW r \in Requests, Expire(r) \/ LoseExpire(r) PROVE OneFirst'
  <2>1. pending' = [pending EXCEPT ![r] = 0] /\ pending[r] = 1
    BY <1>2 DEF Expire, LoseExpire, OneFirst, TypeOK
  <2>2. \A s \in Requests : pending'[s] = 0
    BY <2>1 DEF OneFirst, TypeOK
  <2> QED
    BY <2>2 DEF OneFirst
<1>3. ASSUME Tick PROVE OneFirst'
  <2>1. pending' = pending
    BY <1>3 DEF Tick
  <2>2. ttl = NoTtl => ttl' = NoTtl /\ current' = current
    BY <1>3, LimiterAssumption DEF LimiterAssumption, Tick
  <2> QED
    BY <2>1, <2>2 DEF OneFirst
<1>4. CASE UNCHANGED vars
  BY <1>4 DEF vars, OneFirst
<1> QED
  BY <1>1, <1>2, <1>3, <1>4 DEF Next

\* What a step admits now is new to its counter.
LEMMA AdmissionKeeps ==
  ASSUME TypeOK, OneFirst, NEW b \in Nat, TwoCounters(b),
         NEW n \in 1..MaxCount, Decide(n),
         current' \in 0..MaxCount, current' >= current, n <= current',
         \A p \in admitted : Recent(p, b) => p[2] # n,
         \A s \in Requests : pending'[s] = 1 => pending[s] = 1 /\ n # 1,
         current' = 0 => b = 0,
         ttl' # NoTtl => b >= Window - ttl'
  PROVE  TwoCounters(b)'
<1>1. CASE ~ Admits(n)
  <2>1. admitted' = admitted
    BY <1>1 DEF Decide
  <2>2. \A p \in admitted : p[2] \in Nat
    BY LimiterAssumption DEF LimiterAssumption, TwoCounters
  <2> QED
    BY <2>1, <2>2, LimiterAssumption DEF LimiterAssumption, TwoCounters, Recent, TypeOK
<1>2. CASE Admits(n)
  <2> DEFINE new == <<0, n>>
  <2>1. admitted' = admitted \cup {new} /\ new[2] = n /\ new[1] = 0 /\ n \in 1..Limit
    BY <1>2, LimiterAssumption DEF LimiterAssumption, Decide, Admits
  <2>2. Recent(new, b)
    BY <2>1 DEF Recent
  <2> HIDE DEF new
  <2>3. \A p \in admitted' : p[2] \in 1..Limit
    BY <2>1 DEF TwoCounters
  <2>4. ASSUME NEW p \in admitted', Recent(p, b) PROVE p[2] <= current'
    <3>1. CASE p = new
      BY <2>1, <3>1
    <3>2. CASE p \in admitted
      <4>1. p[2] <= current /\ p[2] \in 1..Limit
        BY <2>4, <3>2 DEF TwoCounters
      <4> QED
        BY <4>1, LimiterAssumption DEF LimiterAssumption, TypeOK
    <3> QED
      BY <2>1, <3>1, <3>2
  <2>5. ASSUME NEW p \in admitted', NEW s \in Requests, Recent(p, b), pending'[s] = 1
        PROVE  p[2] # 1
    BY <2>1, <2>5 DEF TwoCounters
  <2>6. ASSUME NEW p \in admitted', NEW q \in admitted',
               Recent(p, b) <=> Recent(q, b), p[2] = q[2]
        PROVE  p = q
    BY <2>1, <2>2, <2>6 DEF TwoCounters
  <2>7. \A p \in admitted' : Recent(p, b)' <=> Recent(p, b)
    BY DEF Recent
  <2> QED
    BY <2>3, <2>4, <2>5, <2>6 DEF TwoCounters, Recent
<1> QED
  BY <1>1, <1>2

LEMMA IncrCounters ==
  ASSUME TypeOK, OneFirst, NEW b \in Nat, TwoCounters(b), NEW r \in Requests, Incr(r)
  PROVE  TwoCounters(b)'
<1>1. CASE FirstRequest(current')
  <2>1. current = 0 /\ ttl = NoTtl /\ current' = 1 /\ ttl' = ttl /\ admitted' = admitted
    BY <1>1, LimiterAssumption DEF LimiterAssumption, Incr, FirstRequest, TypeOK
  <2>2. \A p \in admitted : ~ Recent(p, b)
    BY <2>1, LimiterAssumption DEF LimiterAssumption, TwoCounters
  <2> QED
    BY <2>1, <2>2 DEF TwoCounters, Recent
<1>2. CASE ~ FirstRequest(current')
  <2>1. Decide(current') /\ pending' = pending /\ ttl' = ttl /\ current' # 1
    BY <1>2 DEF Incr, FirstRequest
  <2>2. CASE current < MaxCount
    <3>1. current' = current + 1 /\ current' \in 1..MaxCount
      BY <2>2, LimiterAssumption DEF LimiterAssumption, Incr, TypeOK
    <3>2. \A p \in admitted : Recent(p, b) => p[2] # current'
      BY <3>1, LimiterAssumption DEF LimiterAssumption, TwoCounters, TypeOK
    <3>3. current # 0
      BY <2>1, <3>1
    <3>4. \A s \in Requests : pending'[s] = 1 => pending[s] = 1 /\ current' # 1
      BY <2>1
    <3>5. current' >= current /\ current' <= current'
      BY <3>1 DEF TypeOK
    <3>6. (current' = 0 => b = 0) /\ (ttl' # NoTtl => b >= Window - ttl')
      BY <2>1, <3>1 DEF TwoCounters
    <3> QED
      BY <2>1, <3>1, <3>2, <3>4, <3>5, <3>6, AdmissionKeeps
  <2>3. CASE ~ (current < MaxCount)
    <3>1. current' = current /\ current > Limit
      BY <2>3, LimiterAssumption DEF LimiterAssumption, Incr, TypeOK
    <3>2. admitted' = admitted
      BY <2>1, <3>1, LimiterAssumption DEF LimiterAssumption, Decide, Admits, TypeOK
    <3> QED
      BY <2>1, <3>1, <3>2 DEF TwoCounters, Recent
  <2> QED
    BY <2>2, <2>3
<1> QED
  BY <1>1, <1>2

LEMMA ExpireCounters ==
  ASSUME TypeOK, OneFirst, NEW b \in Nat, TwoCounters(b), NEW r \in Requests, Expire(r)
  PROVE  TwoCounters(b)'
<1>1. pending[r] = 1 /\ current > 0 /\ current' = current /\ ttl' = Window
  BY DEF OneFirst, Expire, TypeOK, inSeconds
<1>2. Decide(1) /\ 1 \in 1..MaxCount
  BY <1>1, LimiterAssumption DEF LimiterAssumption, Expire
<1>3. \A p \in admitted : Recent(p, b) => p[2] # 1
  BY <1>1 DEF TwoCounters
<1>4. \A s \in Requests : pending'[s] # 1
  BY <1>1 DEF Expire, OneFirst, TypeOK
<1>5. current' \in 0..MaxCount /\ current' >= current /\ 1 <= current'
  BY <1>1 DEF TypeOK
<1>6. (current' = 0 => b = 0) /\ (ttl' # NoTtl => b >= Window - ttl')
  BY <1>1, LimiterAssumption DEF LimiterAssumption
<1> QED
  BY <1>2, <1>3, <1>4, <1>5, <1>6, AdmissionKeeps

LEMMA LoseExpireCounters ==
  ASSUME TypeOK, OneFirst, NEW b \in Nat, TwoCounters(b), NEW r \in Requests, LoseExpire(r)
  PROVE  TwoCounters(b)'
<1>1. \A s \in Requests : pending'[s] # 1
  BY DEF LoseExpire, OneFirst, TypeOK
<1> QED
  BY <1>1 DEF LoseExpire, TwoCounters, Recent

\* With a tick everything gets older, and a counter that expires leaves behind
\* nothing but its own admissions.
LEMMA TickCounters ==
  ASSUME TypeOK, OneFirst, NEW b \in Nat, TwoCounters(b), Tick
  PROVE  \E c \in Nat : TwoCounters(c)'
<1> DEFINE Older(q) == <<q[1] + 1, q[2]>>
<1>1. \A p \in admitted' : \E q \in admitted : /\ q[1] \in 0..Window - 2
                                               /\ p = Older(q)
                                               /\ q[2] \in 1..MaxCount
  BY TickAges
<1>2. \A q \in admitted : q[2] \in 1..Limit /\ Older(q)[1] = q[1] + 1 /\ Older(q)[2] = q[2]
  BY DEF TwoCounters
<1> HIDE DEF Older
<1>3. \A p \in admitted' : p[2] \in 1..Limit
  BY <1>1, <1>2
<1>4. CASE ttl # NoTtl /\ ttl = 1
  <2>1. current' = 0 /\ ttl' = NoTtl /\ pending' = pending
    BY <1>4 DEF Tick
  <2>2. b >= Window - 1
    BY <1>4 DEF TwoCounters
  <2>3. \A q \in admitted : q[1] \in 0..Window - 2 => Recent(q, b)
    BY <2>2, LimiterAssumption DEF LimiterAssumption, Recent
  <2>4. \A p \in admitted' : ~ Recent(p, 0)
    BY <1>1, <1>2 DEF Recent
  <2>5. ASSUME NEW p \in admitted', NEW q \in admitted', p[2] = q[2] PROVE p = q
    BY <1>1, <1>2, <2>3, <2>5 DEF TwoCounters
  <2>6. TwoCounters(0)'
    BY <1>3, <2>1, <2>4, <2>5 DEF TwoCounters, Recent
  <2> QED
    BY <2>6
<1>5. CASE ~ (ttl # NoTtl /\ ttl = 1)
  <2>1. current' = current /\ pending' = pending
    BY <1>5, LimiterAssumption DEF LimiterAssumption, Tick
  <2>2. ttl' # NoTtl => ttl # NoTtl /\ ttl' = ttl - 1
    BY <1>5, LimiterAssumption DEF LimiterAssumption, Tick
  <2>3. PICK c \in Nat : (current = 0 => c = 0 /\ b = 0) /\ (current # 0 => c = b + 1)
    BY DEF TwoCounters, TypeOK
  <2>4. ASSUME NEW q \in admitted, q[1] \in 0..Window - 2
        PROVE  Recent(Older(q), c) <=> Recent(q, b)
    <3>1. CASE current = 0
      <4>1. ~ Recent(q, b)
        BY <1>2, <3>1, LimiterAssumption DEF LimiterAssumption, TwoCounters
      <4>2. ~ Recent(Older(q), c)
        BY <1>2, <2>3, <2>4, <3>1 DEF Recent
      <4> QED
        BY <4>1, <4>2
    <3>2. CASE current # 0
      BY <1>2, <2>3, <2>4, <3>2 DEF Recent
    <3> QED
      BY <3>1, <3>2
  <2>5. ttl' # NoTtl => c >= Window - ttl'
    <3>1. ttl' # NoTtl => current # 0 /\ b >= Window - ttl /\ ttl \in 1..Window
      BY <2>2 DEF TwoCounters, TypeOK
    <3> QED
      BY <2>2, <2>3, <3>1, LimiterAssumption DEF LimiterAssumption
  <2>6. ASSUME NEW p \in admitted', Recent(p, c) PROVE p[2] <= current'
    BY <1>1, <1>2, <2>1, <2>4, <2>6 DEF TwoCounters
  <2>7. ASSUME NEW p \in admitted', NEW r \in Requests, Recent(p, c), pending'[r] = 1
        PROVE  p[2] # 1
    BY <1>1, <1>2, <2>1, <2>4, <2>7 DEF TwoCounters
  <2>8. ASSUME NEW p \in admitted', NEW q \in admitted',
               Recent(p, c) <=> Recent(q, c), p[2] = q[2]
        PROVE  p = q
    <3>1. PICK x \in admitted : x[1] \in 0..Window - 2 /\ p = Older(x)
      BY <1>1
    <3>2. PICK y \in admitted : y[1] \in 0..Window - 2 /\ q = Older(y)
      BY <1>1
    <3>3. x = y
      BY <1>2, <2>4, <2>8, <3>1, <3>2 DEF TwoCounters
    <3> QED
      BY <3>1, <3>2, <3>3
  <2>9. TwoCounters(c)'
    <3>1. current' = 0 => c = 0
      BY <2>1, <2>3
    <3> QED
      BY <1>3, <2>5, <2>6, <2>7, <2>8, <3>1 DEF TwoCounters, Recent
  <2> QED
    BY <2>9
<1> QED
  BY <1>4, <1>5

-----------------------------------------------------------------------------
\* The invariant holds in every reachable state.
LEMMA LimiterInvariant == Spec => []LimiterInv
<1>1. Init => LimiterInv
  <2>1. Init => TwoCounters(0)
    BY DEF Init, TwoCounters
  <2> QED
    BY <2>1, InitTypes DEF Init, OneFirst, LimiterInv
<1>2. LimiterInv /\ [Next]_vars => LimiterInv'
  <2> SUFFICES ASSUME TypeOK, OneFirst, [Next]_vars, NEW b \in Nat, TwoCounters(b)
               PROVE  TypeOK' /\ \E c \in Nat : TwoCounters(c)'
    BY FirstKept DEF LimiterInv
  <2>1. CASE UNCHANGED vars
    BY <2>1 DEF vars, TypeOK, TwoCounters, Recent
  <2>2. ASSUME NEW r \in Requests, Incr(r) PROVE TypeOK' /\ TwoCounters(b)'
    BY <2>2, IncrTypes, IncrCounters
  <2>3. ASSUME NEW r \in Requests, Expire(r) PROVE TypeOK' /\ TwoCounters(b)'
    BY <2>3, ExpireTypes, ExpireCounters
  <2>4. ASSUME NEW r \in Requests, LoseExpire(r) PROVE TypeOK' /\ TwoCounters(b)'
    BY <2>4, LoseExpireTypes, LoseExpireCounters
  <2>5. CASE Tick
    BY <2>5, TickTypes, TickCounters
  <2> QED
    BY <2>1, <2>2, <2>3, <2>4, <2>5 DEF Next
<1> QED
  BY <1>1, <1>2, PTL DEF Spec

\* Admissions that all carry different counts are no more than the limit.
LEMMA CountsBound ==
  ASSUME NEW S, \A p \in S : p[2] \in 1..Limit, \A p, q \in S : p[2] = q[2] => p = q
  PROVE  IsFiniteSet(S) /\ Cardinality(S) \in Nat /\ Cardinality(S) <= Limit
<1> DEFINE count == [p \in S |-> p[2]]
<1>1. count \in Injection(S, 1..Limit)
  BY DEF Injection, IsInjective
<1>2. IsFiniteSet(1..Limit) /\ Cardinality(1..Limit) = Limit
  BY FS_Interval, LimiterAssumption DEF LimiterAssumption
<1> HIDE DEF count
<1>3. IsFiniteSet(S) /\ Cardinality(S) <= Cardinality(1..Limit)
  BY <1>1, <1>2, FS_Injection
<1> QED
  BY <1>2, <1>3, FS_CardinalityType

-----------------------------------------------------------------------------
\* Every variable keeps its type, and only a counter that exists has a time to
\* live.
THEOREM TypeCorrect == Spec => []TypeOK
BY LimiterInvariant, PTL DEF LimiterInv

\* No window admits more than twice the limit, whatever requests overlap and
\* whatever EXPIRE is lost: what it admits was counted by at most two counters.
THEOREM WindowBounded == Spec => []TwiceTheLimit
<1>1. LimiterInv => TwiceTheLimit
  <2> SUFFICES ASSUME NEW b \in Nat, TwoCounters(b)
               PROVE  Cardinality(admitted) <= 2 * Limit
    BY DEF LimiterInv, TwiceTheLimit, AdmittedInWindow
  <2> DEFINE New == {p \in admitted : Recent(p, b)}
             Old == {p \in admitted : ~ Recent(p, b)}
  <2>1. IsFiniteSet(New) /\ Cardinality(New) \in Nat /\ Cardinality(New) <= Limit
    BY CountsBound DEF TwoCounters
  <2>2. IsFiniteSet(Old) /\ Cardinality(Old) \in Nat /\ Cardinality(Old) <= Limit
    BY CountsBound DEF TwoCounters
  <2>3. admitted = New \cup Old /\ New \cap Old = {}
    OBVIOUS
  <2> HIDE DEF New, Old
  <2>4. Cardinality(New \cup Old) = Cardinality(New) + Cardinality(Old) - 0
    <3>1. Cardinality(New \cup Old) = Cardinality(New) + Cardinality(Old) - Cardinality(New \cap Old)
      BY <2>1, <2>2, FS_Union
    <3>2. Cardinality(New \cap Old) = 0
      BY <2>3, FS_EmptySet
    <3> QED
      BY <3>1, <3>2
  <2>5. Cardinality(admitted) = Cardinality(New) + Cardinality(Old) - 0
    BY <2>3, <2>4, Zenon
  <2> QED
    BY <2>1, <2>2, <2>5, LimiterAssumption DEF LimiterAssumption
<1> QED
  BY <1>1, LimiterInvariant, PTL
=============================================================================
