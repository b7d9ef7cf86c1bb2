------------------------------ MODULE ApiKeysMC ------------------------------
(***************************************************************************)
(* A small instance of ApiKeys.  Keys are alike, and so are requests: no   *)
(* definition names one, and all that is checked is safety.                *)
(***************************************************************************)
EXTENDS ApiKeys, TLC

KeysAndRequests == Permutations(Keys) \cup Permutations(Requests)
=============================================================================
