--------------------------- MODULE IdempotencyMC ----------------------------
(***************************************************************************)
(* Small instances of Idempotency: who sends which key.                    *)
(***************************************************************************)
EXTENDS Idempotency

\* Every request repeats the same key, except for one without a key.
OneKey == LET bare == CHOOSE r \in Requests : TRUE IN
  [r \in Requests |-> IF r = bare THEN NoKey ELSE CHOOSE k \in Keys : TRUE]

SameKey == [r \in Requests |-> CHOOSE k \in Keys : TRUE]
=============================================================================
