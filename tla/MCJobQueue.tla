----------------------------- MODULE MCJobQueue -----------------------------
(* Bounds for model checking JobQueue. *)
EXTENDS JobQueue, TLC

\* No event at all.
Nothing == [e \in Events |-> 0]

\* The faults that lose queue entries, for two concurrent requests.
LimitLoss == [Nothing EXCEPT !["submit"] = 2, !["crash"] = 1,
                             !["die"] = 1, !["valkey"] = 1]

\* The faults a server is expected to survive by itself.
LimitLive == [Nothing EXCEPT !["submit"] = 2, !["crash"] = 1, !["die"] = 1,
                             !["hang"] = 1, !["valkey"] = 1]

\* `jobs_tui.py --purge' next to a server that crashes, shuts down and has a
\* database error; a single submission, of a job that has a handler or not.
LimitPurge == [Nothing EXCEPT !["submit"] = 1, !["purge"] = 1, !["crash"] = 1,
                              !["shutdown"] = 1, !["dberror"] = 1]

\* Only what a user can do to a healthy server.
LimitUser == [Nothing EXCEPT !["submit"] = 2]

\* One crash or one shutdown of a server with one job.
LimitStop == [Nothing EXCEPT !["submit"] = 1, !["crash"] = 1, !["shutdown"] = 1]

\* A worker that dies under two requests, and a Valkey that fails.
LimitRace == [Nothing EXCEPT !["submit"] = 2, !["die"] = 1, !["valkey"] = 1]

Symmetry == Permutations(Jobs \ BadHandlers) \cup Permutations(Reqs)
=============================================================================
