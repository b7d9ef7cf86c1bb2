------------------------------ MODULE JobFeedMC ------------------------------
(***************************************************************************)
(* Small instances of JobFeed: values for the function constants.          *)
(***************************************************************************)
EXTENDS JobFeed

\* One worker container, as docker-compose.yml runs it.
OneProcess == [s \in Slots |-> CHOOSE p \in Procs : TRUE]

Twice == [j \in Jobs |-> 2]

\* All viewers watch one job.
WatchOne == [v \in Viewers |-> CHOOSE j \in Jobs : TRUE]

ASSUME OneWorkerAssumption == OneWorker
=============================================================================
