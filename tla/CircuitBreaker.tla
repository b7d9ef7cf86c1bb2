--------------------------- MODULE CircuitBreaker ---------------------------
(***************************************************************************)
(* The circuit breaker of one webhook URL: a failure counter in Redis that *)
(* all worker slots share, with a time to live.  INCR and PEXPIRE are two  *)
(* Redis calls, and the counter's key expires RESET_TIMEOUT_MS after the   *)
(* failure that created it.                                                *)
(*                                                                         *)
(* Time passes in ticks.  Redis answers well within a tick, so no tick     *)
(* passes between a slot's INCR and its PEXPIRE.                           *)
(***************************************************************************)
EXTENDS Naturals, FiniteSets

CONSTANTS
  Callers,       \* the worker slots that deliver to the URL
  Threshold,     \* FAILURE_THRESHOLD
  ResetTimeout,  \* RESET_TIMEOUT_MS, in ticks
  NoTtl,         \* the key has no time to live
  MaxFaults      \* bound on the calls of each kind that reject or die half way

ASSUME BreakerAssumption ==
  /\ IsFiniteSet(Callers)
  /\ Threshold \in Nat \ {0}
  /\ ResetTimeout \in Nat \ {0}
  /\ NoTtl \notin Nat
  /\ MaxFaults \in Nat

VARIABLES
  failures,  \* the counter; 0 when the key does not exist
  ttl,       \* ticks until the key expires
  caller,    \* what each slot is doing
  openFor,   \* ticks since the circuit opened (history)
  faults     \* calls that failed so far, by the step they were made at

vars == <<failures, ttl, caller, openFor, faults>>

CallerStep == {"idle", "call", "catch", "expire"}

Init ==
  /\ failures = 0
  /\ ttl = NoTtl
  /\ caller = [c \in Callers |-> "idle"]
  /\ openFor = 0
  /\ faults = [step \in CallerStep |-> 0]

\* failures >= FAILURE_THRESHOLD, and a form that opens one failure later.
OpensLate(n) == n > Threshold
isCircuitOpen(n) == n >= Threshold

\* Whether this INCR created the key and has to give it a time to live.
NeverFirst(n) == FALSE
EveryFailure(n) == TRUE
FirstFailure(n) == n = 1

Goto(c, step) == caller' = [caller EXCEPT ![c] = step]

Fault(c) ==
  /\ faults[caller[c]] < MaxFaults
  /\ faults' = [faults EXCEPT ![caller[c]] = @ + 1]

\* The delivery asks the breaker first; an open circuit skips the HTTP call.
Check(c) ==
  /\ caller[c] = "idle"
  /\ ~ isCircuitOpen(failures)
  /\ Goto(c, "call")
  /\ UNCHANGED <<failures, ttl, openFor, faults>>

\* Redis does not answer: fail open.
CheckFault(c) ==
  /\ caller[c] = "idle"
  /\ Fault(c)
  /\ Goto(c, "call")
  /\ UNCHANGED <<failures, ttl, openFor>>

\* The endpoint answered with 2xx: DEL, which takes the time to live along;
\* setting the counter to 0 would not.  When the update of the delivery's row
\* behind it rejects, the slot lands in the catch block all the same.
ttlAfterReset(t) == t
ttlAfterDel(t) == NoTtl

recordSuccess(c) ==
  /\ caller[c] = "call"
  /\ failures' = 0
  /\ ttl' = ttlAfterDel(ttl)
  /\ openFor' = 0
  /\ \/ Goto(c, "idle") /\ UNCHANGED faults
     \/ Goto(c, "catch") /\ Fault(c)

\* The catch block: INCR, and PEXPIRE only after the first failure.
recordFailure(c) ==
  /\ caller[c] \in {"call", "catch"}
  /\ failures' = failures + 1
  /\ Goto(c, IF FirstFailure(failures + 1) THEN "expire" ELSE "idle")
  /\ UNCHANGED <<ttl, openFor, faults>>

\* PEXPIRE does nothing when the key is gone.
ExpireKey(c) ==
  /\ caller[c] = "expire"
  /\ ttl' = IF failures = 0 THEN NoTtl ELSE ResetTimeout
  /\ Goto(c, "idle")
  /\ UNCHANGED <<failures, openFor, faults>>

\* The slot's next Redis call rejects and is logged, or its process dies.
LoseCall(c) ==
  /\ caller[c] \in {"call", "catch", "expire"}
  /\ Fault(c)
  /\ Goto(c, "idle")
  /\ UNCHANGED <<failures, ttl, openFor>>

\* One tick; the key expires with the last one.
Tick ==
  /\ \A c \in Callers : caller[c] # "expire"
  /\ failures > 0
  /\ IF ttl = 1
       THEN failures' = 0 /\ ttl' = NoTtl /\ openFor' = 0
       ELSE /\ ttl' = IF ttl = NoTtl THEN NoTtl ELSE ttl - 1
            /\ openFor' = IF isCircuitOpen(failures) /\ openFor <= ResetTimeout
                            THEN openFor + 1 ELSE openFor
            /\ UNCHANGED failures
  /\ UNCHANGED <<caller, faults>>

Step(c) == Check(c) \/ recordSuccess(c) \/ recordFailure(c) \/ ExpireKey(c)

Next ==
  \/ \E c \in Callers : Step(c) \/ CheckFault(c) \/ LoseCall(c)
  \/ Tick

Spec == Init /\ [][Next]_vars

\* Time passes, and a slot that waits for Redis gets its answer.
FairSpec == Spec /\ WF_vars(Tick) /\ \A c \in Callers : WF_vars(ExpireKey(c))

-----------------------------------------------------------------------------
\* Every variable has its type; a time to live belongs to an existing key,
\* and openFor stops at one tick more than the timeout.
TypeOK ==
  /\ failures \in Nat
  /\ ttl \in 1..ResetTimeout \cup {NoTtl}
  /\ failures = 0 => ttl = NoTtl
  /\ caller \in [Callers -> CallerStep]
  /\ openFor \in 0..ResetTimeout + 1
  /\ faults \in [CallerStep -> Nat]

\* The PEXPIRE of a first failure never got lost.
ExpiriesSet == faults["expire"] = 0

\* A counter never outlives its timeout: the key has a time to live, or a
\* slot is about to set it, although DELs and other slots' INCRs run between
\* a slot's INCR and its PEXPIRE.  A lost PEXPIRE leaves the key for ever.
KeyExpires ==
  ExpiriesSet /\ failures > 0 => ttl # NoTtl \/ \E c \in Callers : caller[c] = "expire"

\* Slots that passed the check before the circuit opened still call the dead
\* endpoint, but no more of them than there are slots and failed checks.
BoundedOvershoot == failures <= Threshold - 1 + Cardinality(Callers) + faults["idle"]

\* The circuit is never open for longer than the timeout.
OpenAtMostReset == ExpiriesSet => openFor <= ResetTimeout

\* An open circuit closes again.
Closes == isCircuitOpen(failures) ~> ~ isCircuitOpen(failures) \/ ~ ExpiriesSet
=============================================================================
