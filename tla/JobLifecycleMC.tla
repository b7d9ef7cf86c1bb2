--------------------------- MODULE JobLifecycleMC ---------------------------
(***************************************************************************)
(* Small instances of JobLifecycle: values for the function constants.     *)
(***************************************************************************)
EXTENDS JobLifecycle

\* All slots in one worker process, as docker-compose.yml runs it.
OneProcess == [s \in Slots |-> CHOOSE p \in Procs : TRUE]

\* One process per slot.
OwnProcess == CHOOSE f \in [Slots -> Procs] :
                \A s, t \in Slots : f[s] = f[t] => s = t

Once == [j \in Jobs |-> 1]
Twice == [j \in Jobs |-> 2]

=============================================================================
