---------------------------- MODULE JobLifecycle ----------------------------
(***************************************************************************)
(* What the job queue promises about a row of jobs.db, whatever the        *)
(* threads, queues and restarts behind it do: a handler is started only by *)
(* claiming a PENDING row, COMPLETED is written only at the end of such a  *)
(* run, a purge removes DELETED rows only.  A runner is one queue-consumer *)
(* thread; it runs one job at a time.                                      *)
(***************************************************************************)
CONSTANTS Jobs,        \* access codes
          Runners,     \* queue-consumer threads
          NoJob        \* "no job"

VARIABLES status,  \* status[j]: the row's status, "absent" when there is none
          running  \* running[p]: the job whose handler runner p is executing

lifecycleVars == <<status, running>>

LifecycleInit ==
    /\ status = [j \in Jobs |-> "absent"]
    /\ running = [p \in Runners |-> NoJob]

Enqueued(j) ==
    /\ status' = [status EXCEPT ![j] = "pending"]
    /\ UNCHANGED running

Requeued(S) ==
    /\ S # {}
    /\ \A j \in S : status[j] = "processing"
    /\ status' = [j \in Jobs |-> IF j \in S THEN "pending" ELSE status[j]]
    /\ UNCHANGED running

Claimed(p, j) ==
    /\ running[p] = NoJob
    /\ status[j] = "pending"
    /\ status' = [status EXCEPT ![j] = "processing"]
    /\ running' = [running EXCEPT ![p] = j]

\* The run ends and its outcome is recorded.
Finished(p) ==
    /\ running[p] # NoJob
    /\ running' = [running EXCEPT ![p] = NoJob]
    /\ status[running[p]] # "absent"
    /\ \E outcome \in {"completed", "failed"} :
         status' = [status EXCEPT ![running[p]] = outcome]

\* Runs end without an outcome: the row is gone or cannot be written, or the
\* process that had the runners is.
Lost(S) ==
    /\ S # {}
    /\ \A p \in S : running[p] # NoJob
    /\ running' = [p \in Runners |-> IF p \in S THEN NoJob ELSE running[p]]
    /\ UNCHANGED status

\* The worker could not start it: no loadable handler, or a database error.
Rejected(j) ==
    /\ status[j] # "absent"
    /\ status' = [status EXCEPT ![j] = "failed"]
    /\ UNCHANGED running

Withdrawn(j) ==
    /\ status[j] # "absent"
    /\ \E s \in {"cancelled", "deleted"} : status' = [status EXCEPT ![j] = s]
    /\ UNCHANGED running

Purged(S) ==
    /\ S # {}
    /\ \A j \in S : status[j] = "deleted"
    /\ status' = [j \in Jobs |-> IF j \in S THEN "absent" ELSE status[j]]
    /\ UNCHANGED running

LifecycleNext ==
    \/ \E j \in Jobs : Enqueued(j) \/ Rejected(j) \/ Withdrawn(j)
    \/ \E S \in SUBSET Jobs : Requeued(S) \/ Purged(S)
    \/ \E S \in SUBSET Runners : Lost(S)
    \/ \E p \in Runners : Finished(p) \/ \E j \in Jobs : Claimed(p, j)

LifecycleSpec == LifecycleInit /\ [][LifecycleNext]_lifecycleVars
=============================================================================
