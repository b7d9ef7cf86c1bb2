------------------------ MODULE CircuitBreakerProofs ------------------------
(***************************************************************************)
(* Theorems of CircuitBreaker for every number of slots, every threshold   *)
(* and every timeout.                                                      *)
(***************************************************************************)
EXTENDS CircuitBreaker, FiniteSetTheorems, TLAPS

LEMMA TypeStep == TypeOK /\ [Next]_vars => TypeOK'
<1> SUFFICES ASSUME TypeOK, [Next]_vars PROVE TypeOK'
  OBVIOUS
<1> USE BreakerAssumption DEF BreakerAssumption, TypeOK
<1>1. CASE UNCHANGED vars
  BY <1>1 DEF vars
<1>2. ASSUME NEW c \in Callers, Check(c) \/ CheckFault(c) \/ LoseCall(c) PROVE TypeOK'
  BY <1>2 DEF Check, CheckFault, LoseCall, Fault, Goto, CallerStep
<1>3. ASSUME NEW c \in Callers, recordSuccess(c) PROVE TypeOK'
  BY <1>3 DEF recordSuccess, ttlAfterDel, Fault, Goto, CallerStep
<1>4. ASSUME NEW c \in Callers, recordFailure(c) PROVE TypeOK'
  BY <1>4 DEF recordFailure, Goto, CallerStep
<1>5. ASSUME NEW c \in Callers, ExpireKey(c) PROVE TypeOK'
  BY <1>5 DEF ExpireKey, Goto, CallerStep
<1>6. CASE Tick
  <2>1. CASE ttl = 1
    BY <1>6, <2>1 DEF Tick
  <2>2. CASE ttl # 1
    <3>1. ttl' \in 1..ResetTimeout \cup {NoTtl}
      BY <1>6, <2>2 DEF Tick
    <3>2. openFor' \in 0..ResetTimeout + 1
      BY <1>6, <2>2 DEF Tick
    <3> QED
      BY <1>6, <2>2, <3>1, <3>2 DEF Tick
  <2> QED
    BY <2>1, <2>2
<1> QED
  BY <1>1, <1>2, <1>3, <1>4, <1>5, <1>6 DEF Next, Step

\* Type correctness.
THEOREM TypeCorrect == Spec => []TypeOK
<1>1. Init => TypeOK
  BY BreakerAssumption DEF BreakerAssumption, Init, TypeOK, CallerStep
<1> QED
  BY <1>1, TypeStep, PTL DEF Spec

\* As long as no PEXPIRE is lost, the failure counter always has a time to
\* live or is about to get one, so no circuit can stay open for ever.
THEOREM CountersExpire == Spec => []KeyExpires
<1>1. Init => KeyExpires
  BY DEF Init, KeyExpires
<1>2. TypeOK /\ KeyExpires /\ [Next]_vars => KeyExpires'
  <2> SUFFICES ASSUME TypeOK, KeyExpires, [Next]_vars PROVE KeyExpires'
    OBVIOUS
  <2> USE BreakerAssumption DEF BreakerAssumption, TypeOK, KeyExpires, ExpiriesSet
  <2>1. CASE UNCHANGED vars
    BY <2>1 DEF vars
  <2>2. ASSUME NEW c \in Callers, Check(c) PROVE KeyExpires'
    BY <2>2 DEF Check, Goto
  <2>3. ASSUME NEW c \in Callers, CheckFault(c) \/ LoseCall(c) PROVE KeyExpires'
    <3>1. CASE caller[c] = "expire"
      BY <2>3, <3>1 DEF CheckFault, LoseCall, Fault, CallerStep
    <3>2. CASE caller[c] # "expire"
      BY <2>3, <3>2 DEF CheckFault, LoseCall, Fault, Goto, CallerStep
    <3> QED
      BY <3>1, <3>2
  <2>4. ASSUME NEW c \in Callers, recordSuccess(c) PROVE KeyExpires'
    BY <2>4 DEF recordSuccess
  <2>5. ASSUME NEW c \in Callers, recordFailure(c) PROVE KeyExpires'
    <3>1. CASE failures = 0
      BY <2>5, <3>1 DEF recordFailure, FirstFailure, Goto
    <3>2. CASE failures # 0
      BY <2>5, <3>2 DEF recordFailure, FirstFailure, Goto
    <3> QED
      BY <3>1, <3>2
  <2>6. ASSUME NEW c \in Callers, ExpireKey(c) PROVE KeyExpires'
    BY <2>6 DEF ExpireKey
  <2>7. CASE Tick
    BY <2>7 DEF Tick
  <2> QED
    BY <2>1, <2>2, <2>3, <2>4, <2>5, <2>6, <2>7 DEF Next, Step
<1> QED
  BY <1>1, <1>2, TypeCorrect, PTL DEF Spec

-----------------------------------------------------------------------------
\* The slots that passed the check and may still count a failure.
Calling == {c \in Callers : caller[c] \in {"call", "catch"}}

\* A slot that passed the check may still count a failure.  The check admits a
\* slot while failures < Threshold; only a check that failed admits more.
CallsAccount ==
  failures + Cardinality(Calling) <= Threshold - 1 + Cardinality(Callers) + faults["idle"]

LEMMA CallingIsFinite ==
  ASSUME NEW S \in SUBSET Callers
  PROVE  IsFiniteSet(S) /\ Cardinality(S) \in Nat /\ Cardinality(S) <= Cardinality(Callers)
<1>1. IsFiniteSet(Callers)
  BY BreakerAssumption DEF BreakerAssumption
<1>2. IsFiniteSet(S) /\ Cardinality(S) <= Cardinality(Callers)
  BY <1>1, FS_Subset
<1> QED
  BY <1>2, FS_CardinalityType

\* A slot that takes a step to `step` joins or leaves the calling ones.
LEMMA CallingStep ==
  ASSUME TypeOK, NEW c \in Callers, NEW step \in CallerStep, Goto(c, step)
  PROVE  /\ step \in {"call", "catch"} => Calling' = Calling \cup {c}
         /\ step \notin {"call", "catch"} => Calling' = Calling \ {c}
BY DEF TypeOK, Goto, Calling

\* The counts of a slot's joining and leaving.
LEMMA CallingCount ==
  ASSUME NEW c \in Callers
  PROVE  /\ Cardinality(Calling) \in Nat
         /\ Cardinality(Calling \cup {c}) \in Nat
         /\ Cardinality(Calling \ {c}) \in Nat
         /\ Cardinality(Calling \cup {c}) <= Cardinality(Calling) + 1
         /\ Cardinality(Calling \cup {c}) <= Cardinality(Callers)
         /\ Cardinality(Calling \ {c}) <= Cardinality(Calling)
         /\ c \in Calling => Cardinality(Calling \ {c}) = Cardinality(Calling) - 1
<1>1. Calling \in SUBSET Callers /\ Calling \cup {c} \in SUBSET Callers
      /\ Calling \ {c} \in SUBSET Callers
  BY DEF Calling
<1>2. /\ IsFiniteSet(Calling)
      /\ Cardinality(Calling) \in Nat
      /\ Cardinality(Calling \cup {c}) \in Nat
      /\ Cardinality(Calling \ {c}) \in Nat
      /\ Cardinality(Calling \cup {c}) <= Cardinality(Callers)
  BY <1>1, CallingIsFinite
<1>3. Cardinality(Calling \cup {c}) <= Cardinality(Calling) + 1
  <2>1. Cardinality(Calling \cup {c}) =
          IF c \in Calling THEN Cardinality(Calling) ELSE Cardinality(Calling) + 1
    BY <1>2, FS_AddElement
  <2> QED
    BY <1>2, <2>1
<1>4. Cardinality(Calling \ {c}) =
        IF c \in Calling THEN Cardinality(Calling) - 1 ELSE Cardinality(Calling)
  BY <1>2, FS_RemoveElement
<1> QED
  BY <1>2, <1>3, <1>4

LEMMA AccountStep == TypeOK /\ CallsAccount /\ [Next]_vars => CallsAccount'
<1> SUFFICES ASSUME TypeOK, CallsAccount, [Next]_vars PROVE CallsAccount'
  OBVIOUS
<1>1. Cardinality(Callers) \in Nat /\ Cardinality(Calling) \in Nat
  BY CallingIsFinite DEF Calling
<1> USE BreakerAssumption, <1>1 DEF BreakerAssumption, CallsAccount
<1>2. CASE UNCHANGED vars
  BY <1>2 DEF vars, Calling
<1>3. ASSUME NEW c \in Callers, Check(c) PROVE CallsAccount'
  <2>1. Calling' = Calling \cup {c}
    BY <1>3, CallingStep DEF Check, CallerStep
  <2>2. failures <= Threshold - 1
    BY <1>3 DEF Check, isCircuitOpen, TypeOK
  <2>3. Cardinality(Calling \cup {c}) \in Nat /\ Cardinality(Calling \cup {c}) <= Cardinality(Callers)
    BY CallingCount
  <2>4. failures' = failures /\ faults'["idle"] = faults["idle"] /\ faults["idle"] \in Nat
    BY <1>3 DEF Check, TypeOK, CallerStep
  <2> QED
    BY <2>1, <2>2, <2>3, <2>4 DEF TypeOK
<1>4. ASSUME NEW c \in Callers, CheckFault(c) PROVE CallsAccount'
  <2>1. Calling' = Calling \cup {c}
    BY <1>4, CallingStep DEF CheckFault, CallerStep
  <2>2. Cardinality(Calling \cup {c}) \in Nat
        /\ Cardinality(Calling \cup {c}) <= Cardinality(Calling) + 1
    BY CallingCount
  <2>3. failures' = failures /\ faults'["idle"] = faults["idle"] + 1 /\ faults["idle"] \in Nat
    BY <1>4 DEF CheckFault, Fault, TypeOK, CallerStep
  <2> QED
    BY <2>1, <2>2, <2>3 DEF TypeOK
<1>8. ASSUME NEW c \in Callers, recordSuccess(c) PROVE CallsAccount'
  <2>1. Calling' \in SUBSET Callers /\ failures' = 0
    BY <1>8 DEF recordSuccess, Calling
  <2>2. Cardinality(Calling') \in Nat /\ Cardinality(Calling') <= Cardinality(Callers)
    BY <2>1, CallingIsFinite
  <2>3. faults'["idle"] = faults["idle"] /\ faults["idle"] \in Nat
    BY <1>8 DEF recordSuccess, Fault, TypeOK, CallerStep
  <2> QED
    BY <2>1, <2>2, <2>3
<1>5. ASSUME NEW c \in Callers, ExpireKey(c) \/ LoseCall(c)
      PROVE  CallsAccount'
  <2>1. Calling' = Calling \ {c}
    BY <1>5, CallingStep DEF ExpireKey, LoseCall, CallerStep
  <2>2. Cardinality(Calling \ {c}) \in Nat /\ Cardinality(Calling \ {c}) <= Cardinality(Calling)
    BY CallingCount
  <2>3. failures' \in {0, failures} /\ faults'["idle"] = faults["idle"] /\ faults["idle"] \in Nat
    BY <1>5 DEF ExpireKey, LoseCall, Fault, TypeOK, CallerStep
  <2> QED
    BY <2>1, <2>2, <2>3 DEF TypeOK
<1>6. ASSUME NEW c \in Callers, recordFailure(c) PROVE CallsAccount'
  <2>1. Calling' = Calling \ {c} /\ c \in Calling
    BY <1>6, CallingStep DEF recordFailure, CallerStep, Calling
  <2>2. Cardinality(Calling \ {c}) = Cardinality(Calling) - 1
    BY <2>1, CallingCount
  <2>3. failures' = failures + 1 /\ faults'["idle"] = faults["idle"] /\ faults["idle"] \in Nat
    BY <1>6 DEF recordFailure, TypeOK, CallerStep
  <2> QED
    BY <2>1, <2>2, <2>3 DEF TypeOK
<1>7. CASE Tick
  <2>1. Calling' = Calling /\ failures' \in {0, failures} /\ faults' = faults
    BY <1>7 DEF Tick, Calling
  <2> QED
    BY <2>1 DEF TypeOK, CallerStep
<1> QED
  BY <1>2, <1>3, <1>4, <1>8, <1>5, <1>6, <1>7 DEF Next, Step

\* The calls that still reach a dead endpoint after its circuit opened are bounded
\* by the slots and the failed checks, for every number of both.
THEOREM OvershootBounded == Spec => []BoundedOvershoot
<1>1. Init => CallsAccount
  <2> SUFFICES ASSUME Init PROVE CallsAccount
    OBVIOUS
  <2>1. Calling = {}
    BY DEF Init, Calling
  <2>2. Cardinality(Calling) = 0 /\ Cardinality(Callers) \in Nat
    BY <2>1, FS_EmptySet, CallingIsFinite
  <2> QED
    BY <2>2, BreakerAssumption DEF Init, CallsAccount, CallerStep, BreakerAssumption
<1>2. TypeOK /\ CallsAccount => BoundedOvershoot
  <2> SUFFICES ASSUME TypeOK, CallsAccount PROVE BoundedOvershoot
    OBVIOUS
  <2>1. Cardinality(Callers) \in Nat /\ Cardinality(Calling) \in Nat
    BY CallingIsFinite DEF Calling
  <2> QED
    BY <2>1, BreakerAssumption
    DEF TypeOK, CallsAccount, BoundedOvershoot, CallerStep, BreakerAssumption
<1> QED
  BY <1>1, <1>2, AccountStep, TypeCorrect, PTL DEF Spec

-----------------------------------------------------------------------------
\* The clock of an open circuit and the key's time to live run together: the clock
\* stands still until a PEXPIRE has set the time to live, and their sum never grows
\* past the timeout.
ClockBounded ==
  /\ failures = 0 => openFor = 0
  /\ (\E c \in Callers : caller[c] = "expire") => openFor = 0
  /\ ExpiriesSet => IF ttl = NoTtl THEN openFor = 0 ELSE openFor + ttl <= ResetTimeout

LEMMA ClockStep == TypeOK /\ KeyExpires /\ ClockBounded /\ [Next]_vars => ClockBounded'
<1> SUFFICES ASSUME TypeOK, KeyExpires, ClockBounded, [Next]_vars PROVE ClockBounded'
  OBVIOUS
<1> USE BreakerAssumption DEF BreakerAssumption, TypeOK, ExpiriesSet, ClockBounded
<1>1. CASE UNCHANGED vars
  BY <1>1 DEF vars
<1>2. ASSUME NEW c \in Callers, Check(c) PROVE ClockBounded'
  BY <1>2 DEF Check, Goto
<1>3. ASSUME NEW c \in Callers, CheckFault(c) PROVE ClockBounded'
  BY <1>3 DEF CheckFault, Fault, Goto, CallerStep
<1>4. ASSUME NEW c \in Callers, LoseCall(c) PROVE ClockBounded'
  BY <1>4 DEF LoseCall, Fault, Goto, CallerStep
<1>5. ASSUME NEW c \in Callers, recordSuccess(c) PROVE ClockBounded'
  BY <1>5 DEF recordSuccess, ttlAfterDel
<1>6. ASSUME NEW c \in Callers, recordFailure(c) PROVE ClockBounded'
  <2>1. CASE failures = 0
    BY <1>6, <2>1 DEF recordFailure
  <2>2. CASE failures # 0
    BY <1>6, <2>2 DEF recordFailure, FirstFailure, Goto
  <2> QED
    BY <2>1, <2>2
<1>7. ASSUME NEW c \in Callers, ExpireKey(c) PROVE ClockBounded'
  BY <1>7 DEF ExpireKey, Goto
<1>8. CASE Tick
  <2>1. CASE ttl = 1
    BY <1>8, <2>1 DEF Tick
  <2>2. CASE ttl = NoTtl
    BY <1>8, <2>2 DEF Tick, KeyExpires
  <2>3. CASE ttl \notin {1, NoTtl}
    BY <1>8, <2>3 DEF Tick
  <2> QED
    BY <2>1, <2>2, <2>3
<1> QED
  BY <1>1, <1>2, <1>3, <1>4, <1>5, <1>6, <1>7, <1>8 DEF Next, Step

\* As long as no PEXPIRE is lost, no circuit is open for longer than the timeout.
THEOREM OpenOnlyForReset == Spec => []OpenAtMostReset
<1>1. Init => ClockBounded
  BY DEF Init, ClockBounded
<1>2. TypeOK /\ ClockBounded => OpenAtMostReset
  BY BreakerAssumption DEF BreakerAssumption, TypeOK, ClockBounded, OpenAtMostReset
<1> QED
  BY <1>1, <1>2, ClockStep, TypeCorrect, CountersExpire, PTL DEF Spec
=============================================================================
