------------------------------ MODULE JobQueue ------------------------------
(***************************************************************************)
(* The job queue of chatterbox-server (jobqueue.py, job_worker.py,         *)
(* job_orphan.py, valkey_util.py) and the operators' client jobs_tui.py.   *)
(*                                                                         *)
(* A "proc" is one operating-system process that holds a JobQueue          *)
(* instance: the gunicorn worker (Server) and, because `jobs_tui.py        *)
(* --purge' also calls get_job_queue(), the TUI.  Every instance has its   *)
(* own in-memory queue and queue-consumer threads; they share the rows of  *)
(* jobs.db (status) and the Valkey list (vq).  A row read and the write    *)
(* that depends on it are separate steps wherever the code commits in      *)
(* between or does not guard the write; so are the accesses of             *)
(* _ensure_worker to _running and _worker_thread, which no lock guards.    *)
(***************************************************************************)
EXTENDS Naturals, Sequences, FiniteSets

CONSTANTS Jobs,         \* access codes
          Procs,        \* processes that hold a JobQueue instance
          Server,       \* the gunicorn worker
          Workers,      \* consumer threads one life of the server may start
          Reqs,         \* request threads of the server, TUI and shell commands
          NoJob,        \* the code of a thread that holds none
          NoThread,     \* _worker_thread = None
          BadHandlers,  \* jobs whose run_func_name cannot be loaded
          Limit         \* bounds of the model, by kind of event

\* Events the environment decides on; each is bounded by Limit.
Events == {"submit", "crash", "shutdown", "purge", "die", "hang", "valkey", "dberror"}

ASSUME ConstantsAssumption ==
    /\ IsFiniteSet(Jobs)
    /\ Server \in Procs
    /\ Workers \cap Procs = {}
    /\ NoThread \notin Workers \cup Procs
    /\ NoJob \notin Jobs
    /\ BadHandlers \subseteq Jobs
    /\ Limit \in [Events -> Nat]

\* The TUI's instance starts a single thread, named like the process.
Threads == Workers \cup (Procs \ {Server})

ThreadsOf(p) == IF p = Server THEN Workers ELSE {p}

Home(t) == IF t \in Workers THEN Server ELSE t

Statuses == {"pending", "processing", "completed", "failed", "cancelled", "deleted"}

VARIABLES
    status,   \* jobs.db: status[j], "absent" when there is no row
    vq,       \* Valkey list jobqueue:pending
    valkey,   \* the Valkey server, "up" or "down"
    vk,       \* vk[p]: what p's get_valkey() has cached ("unset" before the first use)
    phase,    \* phase[p]: life cycle of the process
    memq,     \* memq[p]: JobQueue._queue
    handle,   \* handle[p]: JobQueue._worker_thread
    serving,  \* serving[p]: JobQueue._running
    wpc,      \* wpc[t]: where consumer thread t is in _process_queue
    cur,      \* cur[t]: the code t has popped
    req,      \* req[r]: the request in progress, [pc, job]
    raced,    \* history: two requests of this server were in _ensure_worker at
              \* once, one of them replacing the worker
    outside,  \* history: jobs last made PENDING by somebody else than a server
    orphans,  \* jobs with a live subprocess whose handler is gone
    stuck,    \* jobs whose FAILED update was lost (both attempts raised)
    used      \* events spent so far

handleVars == <<handle, serving, raced>>
threadVars == <<wpc, cur>>
vars == <<status, vq, valkey, vk, phase, memq, handleVars, threadVars, req, outside,
          orphans, stuck, used>>

Idle == [pc |-> "idle", job |-> NoJob]

Spend(e) ==
    /\ used[e] < Limit[e]
    /\ used' = [used EXCEPT ![e] = @ + 1]

\* A row update: UPDATE ... WHERE access_code = j touches nothing when the
\* row is gone.
SetStatus(j, s) ==
    status' = IF status[j] = "absent" THEN status ELSE [status EXCEPT ![j] = s]

-----------------------------------------------------------------------------
(* Valkey                                                                  *)

\* get_valkey(): the first use decides; the verdict is cached for the life
\* of the process, so a client that found Valkey down never looks again.
Available(p) == IF vk[p] = "unset" THEN valkey = "up" ELSE vk[p] = "up"

Cache(p) == vk' = [vk EXCEPT ![p] = IF Available(p) THEN "up" ELSE "down"]

\* A command on a cached client fails (ValkeyError, swallowed) while the
\* server is unreachable.
Reachable(p) == Available(p) /\ valkey = "up"

QueuePush(p, s) ==
    /\ Cache(p)
    /\ vq' = IF Reachable(p) THEN vq \o s ELSE vq

ValkeyDown ==
    /\ valkey = "up"
    /\ valkey' = "down"
    /\ UNCHANGED <<status, vq, vk, phase, memq, handleVars, threadVars, req, outside,
                   orphans, stuck, used>>

\* stop_server.sh shuts Valkey down with "nosave": a restarted server may
\* have lost the list.
ValkeyUp ==
    /\ valkey = "down"
    /\ Spend("valkey")
    /\ valkey' = "up"
    /\ vq' \in {vq, <<>>}
    /\ UNCHANGED <<status, vk, phase, memq, handleVars, threadVars, req, outside,
                   orphans, stuck>>

-----------------------------------------------------------------------------
(* Process start, crash and shutdown                                       *)

\* cleanup_orphan_processes(): subprocesses of jobs that are neither PENDING
\* nor PROCESSING get SIGTERM, and SIGKILL after 3 s.
Survivors == {j \in orphans : status[j] \in {"pending", "processing", "absent"}}

\* Mutant of BootReset: the rows of the dead instance stay PROCESSING.
BootResetNoReset(p) ==
    /\ phase[p] \in {"off", "crashed"}
    /\ phase' = [phase EXCEPT ![p] = "booting"]
    /\ stuck' = {}
    /\ UNCHANGED <<status, vq, valkey, vk, memq, handleVars, threadVars, req, outside,
                   orphans, used>>

\* _load_pending_jobs(), first half: clean up orphans, send SIGTERM (no wait,
\* no SIGKILL) to the subprocesses of PROCESSING rows, then reset those rows.
\* gen_audio.py answers SIGTERM by finishing its current segment, so such a
\* subprocess may outlive this step.
\* The instance is new, so its own _current_access_code is None and every
\* PROCESSING row is reset.
BootReset(p) ==
    /\ phase[p] \in {"off", "crashed"}
    /\ IF p = Server THEN UNCHANGED used ELSE Spend("purge")
    /\ phase' = [phase EXCEPT ![p] = "booting"]
    /\ \E linger \in SUBSET {j \in Survivors : status[j] = "processing"} :
         orphans' = {j \in Survivors : status[j] # "processing"} \cup linger
    /\ status' = [j \in Jobs |->
                    IF status[j] = "processing" THEN "pending" ELSE status[j]]
    /\ stuck' = IF p = Server THEN {} ELSE stuck
    /\ UNCHANGED <<vq, valkey, vk, memq, handleVars, threadVars, req, outside>>

\* The ways to list a set of rows (SELECT without ORDER BY).
Orders(S) ==
    {s \in [1..Cardinality(S) -> S] :
        \A j \in S : \E i \in 1..Cardinality(S) : s[i] = j}

Pending == {j \in Jobs : status[j] = "pending"}

\* threading.Thread(...): Workers bounds how many one life of the server makes.
Unused(p) == {t \in ThreadsOf(p) : wpc[t] = "none"}
NewThread(p) == CHOOSE t \in Unused(p) : TRUE

\* _ensure_worker() in the constructor, which no other thread can see yet.
StartWorker(p) ==
    /\ Unused(p) # {}
    /\ handle' = [handle EXCEPT ![p] = NewThread(p)]
    /\ wpc' = [wpc EXCEPT ![NewThread(p)] = "loop"]
    /\ serving' = [serving EXCEPT ![p] = TRUE]
    /\ outside' = IF p = Server THEN {} ELSE outside

\* Mutant of BootLoad: the rows go on the Valkey list only.
BootLoadValkeyOnly(p) ==
    /\ phase[p] = "booting"
    /\ phase' = [phase EXCEPT ![p] = "up"]
    /\ \E s \in Orders(Pending) : QueuePush(p, s)
    /\ StartWorker(p)
    /\ UNCHANGED <<status, valkey, memq, cur, req, raced, orphans, stuck, used>>

\* _load_pending_jobs(), second half, and the first _ensure_worker(): every
\* PENDING row goes on both queues, the worker thread starts.
BootLoad(p) ==
    /\ phase[p] = "booting"
    /\ phase' = [phase EXCEPT ![p] = "up"]
    /\ \E s \in Orders(Pending) :
         /\ memq' = [memq EXCEPT ![p] = s]
         /\ IF s = <<>> THEN UNCHANGED <<vk, vq>> ELSE QueuePush(p, s)
    /\ StartWorker(p)
    /\ UNCHANGED <<status, valkey, cur, req, raced, orphans, stuck, used>>

\* Where a thread is while its handler runs: it goes on, or it waits for a
\* subprocess that does not end.
Executing == {"running", "hung"}

\* The process is gone with everything it held in memory.  Subprocesses of
\* the handlers it was running may go on.
ProcessGone(p, how) ==
    /\ phase' = [phase EXCEPT ![p] = how]
    /\ memq' = [memq EXCEPT ![p] = <<>>]
    /\ vk' = [vk EXCEPT ![p] = "unset"]
    /\ handle' = [handle EXCEPT ![p] = NoThread]
    /\ serving' = [serving EXCEPT ![p] = FALSE]
    /\ raced' = (raced /\ p # Server)
    /\ wpc' = [t \in Threads |-> IF t \in ThreadsOf(p) THEN "none" ELSE wpc[t]]
    /\ cur' = [t \in Threads |-> IF t \in ThreadsOf(p) THEN NoJob ELSE cur[t]]
    /\ \E left \in SUBSET {t \in ThreadsOf(p) : wpc[t] \in Executing} :
         orphans' = orphans \cup {cur[t] : t \in left}
    /\ UNCHANGED <<status, vq, valkey, outside, stuck>>

\* Places of a command that runs in a process of its own.
OwnProcess == {"tuiCancel", "rpush"}

\* SIGKILL, a segfault, a power cut: requests of the server die with it; the
\* commands of the TUI and of a shell do not.
Crash(p) ==
    /\ phase[p] \in {"booting", "up", "stopping"}
    /\ Spend("crash")
    /\ ProcessGone(p, IF p = Server THEN "crashed" ELSE "off")
    /\ req' = [r \in Reqs |->
                 IF p = Server /\ req[r].pc \notin OwnProcess THEN Idle ELSE req[r]]

\* shutdown(), from gunicorn's worker_exit hook: gunicorn has already stopped
\* taking requests.  _running becomes FALSE (and _graceful_shutdown TRUE,
\* which a thread past the loop's condition answers by leaving as well).
ShutdownBegin ==
    /\ phase[Server] = "up"
    /\ \A r \in Reqs : req[r].pc \in {"idle"} \cup OwnProcess
    /\ Spend("shutdown")
    /\ phase' = [phase EXCEPT ![Server] = "stopping"]
    /\ serving' = [serving EXCEPT ![Server] = FALSE]
    /\ UNCHANGED <<status, vq, valkey, vk, memq, handle, raced, threadVars, req, outside,
                   orphans, stuck>>

\* shutdown() returns: the worker thread has ended, or join() timed out on
\* it.  Either way the process exits; the code touches no row here.
ShutdownExit ==
    /\ phase[Server] = "stopping"
    /\ ProcessGone(Server, "off")
    /\ UNCHANGED <<req, used>>

\* jobs_tui.py --purge: clear_job_queue() removes every DELETED row (and its
\* directory), then the process exits and takes its worker thread with it.
ClearJobQueue(p) ==
    /\ p # Server
    /\ phase[p] = "up"
    /\ status' = [j \in Jobs |-> IF status[j] = "deleted" THEN "absent" ELSE status[j]]
    /\ phase' = [phase EXCEPT ![p] = "purged"]
    /\ UNCHANGED <<vq, valkey, vk, memq, handleVars, threadVars, req, outside, orphans,
                   stuck, used>>

PurgeExit(p) ==
    /\ phase[p] = "purged"
    /\ ProcessGone(p, "off")
    /\ UNCHANGED <<req, used>>

OrphanExits(j) ==
    /\ j \in orphans
    /\ orphans' = orphans \ {j}
    /\ UNCHANGED <<status, vq, valkey, vk, phase, memq, handleVars, threadVars, req,
                   outside, stuck, used>>

-----------------------------------------------------------------------------
(* A consumer thread: _process_queue and _run_job                          *)

\* Mutant of Hold: the code is not recorded.
HoldUnrecorded(t, j) ==
    /\ wpc' = [wpc EXCEPT ![t] = "popped"]
    /\ UNCHANGED cur

Hold(t, j) ==
    /\ cur' = [cur EXCEPT ![t] = j]
    /\ wpc' = [wpc EXCEPT ![t] = "popped"]

Release(t) ==
    /\ cur' = [cur EXCEPT ![t] = NoJob]
    /\ wpc' = [wpc EXCEPT ![t] = "loop"]

\* The condition of the loop: nobody has asked this thread to stop or has
\* replaced it.
Wanted(t) == serving[Home(t)] /\ handle[Home(t)] = t

\* The top of the loop; every two minutes the orphan check runs.  A thread
\* that is replaced or told to stop later still makes the pop that follows.
LoopTop(t) ==
    /\ wpc[t] = "loop"
    /\ Wanted(t)
    /\ wpc' = [wpc EXCEPT ![t] = "blpop"]
    /\ orphans' \in {orphans, Survivors}
    /\ UNCHANGED <<status, vq, valkey, vk, phase, memq, handleVars, cur, req, outside,
                   stuck, used>>

\* The loop ends: whatever is on the instance's in-memory queue is thrown
\* away, also when another thread goes on serving it.
WorkerStops(t) ==
    /\ wpc[t] = "loop"
    /\ ~Wanted(t)
    /\ memq' = [memq EXCEPT ![Home(t)] = <<>>]
    /\ wpc' = [wpc EXCEPT ![t] = "dead"]
    /\ UNCHANGED <<status, vq, valkey, vk, phase, handleVars, cur, req, outside, orphans,
                   stuck, used>>

\* queue_pop: Valkey first ...
PopValkey(t) ==
    /\ wpc[t] = "blpop"
    /\ Cache(Home(t))
    /\ IF Reachable(Home(t)) /\ vq # <<>>
       THEN vq' = Tail(vq) /\ Hold(t, Head(vq))
       ELSE wpc' = [wpc EXCEPT ![t] = "fallback"] /\ UNCHANGED <<vq, cur>>
    /\ UNCHANGED <<status, valkey, phase, memq, handleVars, req, outside, orphans, stuck,
                   used>>

\* ... then the in-memory queue, when Valkey had nothing or is down.
PopMemory(t) ==
    /\ wpc[t] = "fallback"
    /\ IF memq[Home(t)] # <<>>
       THEN memq' = [memq EXCEPT ![Home(t)] = Tail(@)] /\ Hold(t, Head(memq[Home(t)]))
       ELSE wpc' = [wpc EXCEPT ![t] = "loop"] /\ UNCHANGED <<memq, cur>>
    /\ UNCHANGED <<status, vq, valkey, vk, phase, handleVars, req, outside, orphans,
                   stuck, used>>

\* An exception outside the loop's try block (the orphan check's query, the
\* first get_valkey()) ends the thread; the queues are not drained, _running
\* stays TRUE.
WorkerDies(t) ==
    /\ wpc[t] = "loop"
    /\ Wanted(t)
    /\ Spend("die")
    /\ wpc' = [wpc EXCEPT ![t] = "dead"]
    /\ UNCHANGED <<status, vq, valkey, vk, phase, memq, handleVars, cur, req, outside,
                   orphans, stuck>>

\* _run_job reads the row; a code without a row is dropped.
SelectRow(t) ==
    /\ wpc[t] = "popped"
    /\ IF status[cur[t]] = "absent"
       THEN Release(t)
       ELSE wpc' = [wpc EXCEPT ![t] = "selected"] /\ UNCHANGED cur
    /\ UNCHANGED <<status, vq, valkey, vk, phase, memq, handleVars, req, outside, orphans,
                   stuck, used>>

\* _get_run_func failed or returned None: FAILED, whatever the row says now.
LoadHandlerFails(t) ==
    /\ wpc[t] = "selected"
    /\ cur[t] \in BadHandlers
    /\ SetStatus(cur[t], "failed")
    /\ Release(t)
    /\ UNCHANGED <<vq, valkey, vk, phase, memq, handleVars, req, outside, orphans, stuck,
                   used>>

\* Mutant of Claim: the UPDATE is not guarded by the status.
ClaimUnguarded(t) ==
    /\ wpc[t] = "selected"
    /\ cur[t] \notin BadHandlers
    /\ SetStatus(cur[t], "processing")
    /\ wpc' = [wpc EXCEPT ![t] = "running"]
    /\ UNCHANGED <<vq, valkey, vk, phase, memq, handleVars, cur, req, outside, orphans,
                   stuck, used>>

\* UPDATE ... SET status = PROCESSING WHERE status = PENDING; a row count of
\* 0 means somebody else has it.
Claim(t) ==
    /\ wpc[t] = "selected"
    /\ cur[t] \notin BadHandlers
    /\ IF status[cur[t]] = "pending"
       THEN /\ status' = [status EXCEPT ![cur[t]] = "processing"]
            /\ wpc' = [wpc EXCEPT ![t] = "running"]
            /\ UNCHANGED cur
       ELSE Release(t) /\ UNCHANGED status
    /\ UNCHANGED <<vq, valkey, vk, phase, memq, handleVars, req, outside, orphans, stuck,
                   used>>

\* A step of the handler never ends: run_translate_srt waits for its
\* subprocess without a timeout, and that for the daemon's answer.
HandlerHangs(t) ==
    /\ wpc[t] = "running"
    /\ Spend("hang")
    /\ wpc' = [wpc EXCEPT ![t] = "hung"]
    /\ UNCHANGED <<status, vq, valkey, vk, phase, memq, handleVars, cur, req, outside,
                   orphans, stuck>>

\* The handler returned: COMPLETED, without looking at the row.
HandlerReturns(t) ==
    /\ wpc[t] = "running"
    /\ SetStatus(cur[t], "completed")
    /\ Release(t)
    /\ UNCHANGED <<vq, valkey, vk, phase, memq, handleVars, req, outside, orphans, stuck,
                   used>>

\* _run_job raised: the handler did, or the database did in one of its own
\* statements.  _try_mark_failed writes FAILED without looking at the row, or
\* gives up after a second database error.
JobRaises(t) ==
    /\ wpc[t] \in {"popped", "selected", "running"}
    /\ \/ /\ wpc[t] = "running"
          /\ SetStatus(cur[t], "failed")
          /\ UNCHANGED <<stuck, used>>
       \/ /\ Spend("dberror")
          /\ \/ SetStatus(cur[t], "failed") /\ UNCHANGED stuck
             \/ stuck' = stuck \cup {cur[t]} /\ UNCHANGED status
    /\ Release(t)
    /\ UNCHANGED <<vq, valkey, vk, phase, memq, handleVars, req, outside, orphans>>

-----------------------------------------------------------------------------
(* Requests: add_job, resubmit_job, cancel_job, delete_job; the TUI's      *)
(* commands that write jobs.db directly; a shell that enqueues a job.      *)

Start(r, pc, j) == req' = [req EXCEPT ![r] = [pc |-> pc, job |-> j]]

Done(r) == req' = [req EXCEPT ![r] = Idle]

\* A submission with a fresh code, or with the code of a FAILED job of the
\* same video and user (_find_failed_ocr_job, _find_failed_ning_job).
SubmitBegin(r, j) ==
    /\ req[r].pc = "idle"
    /\ phase[Server] = "up"
    /\ status[j] \in {"absent", "failed"}
    /\ Spend("submit")
    /\ Start(r, "insert", j)
    /\ UNCHANGED <<status, vq, valkey, vk, phase, memq, handleVars, threadVars, outside,
                   orphans, stuck>>

\* add_job: INSERT OR REPLACE, whatever the row has become since.
SubmitInsert(r) ==
    /\ req[r].pc = "insert"
    /\ status' = [status EXCEPT ![req[r].job] = "pending"]
    /\ Start(r, "enqueue", req[r].job)
    /\ stuck' = stuck \ {req[r].job}
    /\ outside' = outside \ {req[r].job}
    /\ UNCHANGED <<vq, valkey, vk, phase, memq, handleVars, threadVars, orphans, used>>

\* resubmit_job's validation.  COMPLETED is accepted with an explicit
\* checkpoint or the checkpoint_edited flag; both are the caller's to supply.
ResubmitBegin(r, j) ==
    /\ req[r].pc = "idle"
    /\ phase[Server] = "up"
    /\ status[j] \in {"failed", "cancelled", "completed"}
    /\ Spend("submit")
    /\ Start(r, "resubmit", j)
    /\ UNCHANGED <<status, vq, valkey, vk, phase, memq, handleVars, threadVars, outside,
                   orphans, stuck>>

\* resubmit_job's UPDATE has no status guard.
ResubmitWrite(r) ==
    /\ req[r].pc = "resubmit"
    /\ SetStatus(req[r].job, "pending")
    /\ Start(r, "enqueue", req[r].job)
    /\ stuck' = stuck \ {req[r].job}
    /\ outside' = outside \ {req[r].job}
    /\ UNCHANGED <<vq, valkey, vk, phase, memq, handleVars, threadVars, orphans, used>>

\* Mutant of Enqueue: the in-memory queue is used only while Valkey is down.
EnqueueIfDown(r) ==
    /\ req[r].pc = "enqueue"
    /\ memq' = IF Reachable(Server) THEN memq
               ELSE [memq EXCEPT ![Server] = Append(@, req[r].job)]
    /\ Start(r, "push", req[r].job)
    /\ UNCHANGED <<status, vq, valkey, vk, phase, handleVars, threadVars, outside, orphans,
                   stuck, used>>

\* Tail of add_job and resubmit_job: the in-memory queue, ...
Enqueue(r) ==
    /\ req[r].pc = "enqueue"
    /\ memq' = [memq EXCEPT ![Server] = Append(@, req[r].job)]
    /\ Start(r, "push", req[r].job)
    /\ UNCHANGED <<status, vq, valkey, vk, phase, handleVars, threadVars, outside, orphans,
                   stuck, used>>

\* Places of a request in _ensure_worker, and those of one that replaces the
\* worker.
RestartPcs == {"stop", "take", "drop", "dropNone", "retest", "go", "make", "start"}
EnsurePcs == {"check", "alive", "test"} \cup RestartPcs

\* Another request is at one of the places.
OtherAt(r, pcs) == \E q \in Reqs \ {r} : req[q].pc \in pcs

\* ... Valkey, and then _ensure_worker.
Push(r) ==
    /\ req[r].pc = "push"
    /\ QueuePush(Server, <<req[r].job>>)
    /\ Start(r, "check", req[r].job)
    /\ raced' = (raced \/ OtherAt(r, RestartPcs))
    /\ UNCHANGED <<status, valkey, phase, memq, handle, serving, threadVars, outside,
                   orphans, stuck, used>>

-----------------------------------------------------------------------------
(* _ensure_worker, one access to a shared attribute at a time.  A request  *)
(* that finds None where it expects a thread, or starts a thread that has  *)
(* been started, ends with an exception; its row and its queue entries     *)
(* stay.                                                                   *)

Alive(t) == wpc[t] \notin {"none", "created", "dead"}

Goto(r, pc) == Start(r, pc, req[r].job)

\* self._worker_thread is not None and ...
CheckHandle(r) ==
    /\ req[r].pc = "check"
    /\ Goto(r, IF handle[Server] = NoThread THEN "test" ELSE "alive")
    /\ UNCHANGED <<handleVars, wpc>>

\* ... not self._worker_thread.is_alive()
CheckAlive(r) ==
    /\ req[r].pc = "alive"
    /\ \/ handle[Server] = NoThread /\ Done(r) /\ UNCHANGED raced
       \/ handle[Server] # NoThread /\ Alive(handle[Server])
          /\ Goto(r, "test") /\ UNCHANGED raced
       \/ handle[Server] # NoThread /\ ~Alive(handle[Server])
          /\ Goto(r, "stop") /\ raced' = (raced \/ OtherAt(r, EnsurePcs))
    /\ UNCHANGED <<handle, serving, wpc>>

\* self._running = False
StopServing(r) ==
    /\ req[r].pc = "stop"
    /\ serving' = [serving EXCEPT ![Server] = FALSE]
    /\ Goto(r, "take")
    /\ UNCHANGED <<handle, raced, wpc>>

\* old_thread = self._worker_thread
TakeHandle(r) ==
    /\ req[r].pc = "take"
    /\ Goto(r, IF handle[Server] = NoThread THEN "dropNone" ELSE "drop")
    /\ UNCHANGED <<handleVars, wpc>>

\* self._worker_thread = None, and the join, which gives up after 5 s.
DropHandle(r) ==
    /\ req[r].pc \in {"drop", "dropNone"}
    /\ handle' = [handle EXCEPT ![Server] = NoThread]
    /\ IF req[r].pc = "drop" THEN Goto(r, "retest") ELSE Done(r)
    /\ UNCHANGED <<serving, raced, wpc>>

\* if not self._running
TestServing(r) ==
    /\ req[r].pc \in {"test", "retest"}
    /\ IF serving[Server] THEN Done(r) ELSE Goto(r, "go")
    /\ UNCHANGED <<handleVars, wpc>>

\* self._running = True
GoServing(r) ==
    /\ req[r].pc = "go"
    /\ serving' = [serving EXCEPT ![Server] = TRUE]
    /\ Goto(r, "make")
    /\ UNCHANGED <<handle, raced, wpc>>

\* self._worker_thread = threading.Thread(...)
MakeThread(r) ==
    /\ req[r].pc = "make"
    /\ Unused(Server) # {}
    /\ wpc' = [wpc EXCEPT ![NewThread(Server)] = "created"]
    /\ handle' = [handle EXCEPT ![Server] = NewThread(Server)]
    /\ Goto(r, "start")
    /\ UNCHANGED <<serving, raced>>

\* self._worker_thread.start()
StartThread(r) ==
    /\ req[r].pc = "start"
    /\ wpc' = IF handle[Server] # NoThread /\ wpc[handle[Server]] = "created"
              THEN [wpc EXCEPT ![handle[Server]] = "loop"] ELSE wpc
    /\ Done(r)
    /\ UNCHANGED handleVars

EnsureWorker(r) ==
    /\ \/ CheckHandle(r) \/ CheckAlive(r) \/ StopServing(r) \/ TakeHandle(r)
       \/ DropHandle(r) \/ TestServing(r) \/ GoServing(r) \/ MakeThread(r)
       \/ StartThread(r)
    /\ UNCHANGED <<status, vq, valkey, vk, phase, memq, cur, outside, orphans, stuck, used>>

-----------------------------------------------------------------------------
(* The other requests                                                      *)

\* cancel_job's check; then it kills the job's subprocesses (SIGTERM, and
\* SIGKILL after 3 s), also one that its handler waits for in vain.
CancelBegin(r, j) ==
    /\ req[r].pc = "idle"
    /\ phase[Server] = "up"
    /\ status[j] \in {"pending", "processing"}
    /\ Start(r, "cancel", j)
    /\ orphans' = orphans \ {j}
    /\ wpc' = [t \in Threads |->
                 IF wpc[t] = "hung" /\ cur[t] = j THEN "running" ELSE wpc[t]]
    /\ UNCHANGED <<status, vq, valkey, vk, phase, memq, handleVars, cur, outside, stuck,
                   used>>

\* cancel_job's UPDATE, guarded by the status.  (_cancel_event is set as
\* well; nothing reads it.)
CancelWrite(r) ==
    /\ req[r].pc = "cancel"
    /\ status' = IF status[req[r].job] \in {"pending", "processing"}
                 THEN [status EXCEPT ![req[r].job] = "cancelled"] ELSE status
    /\ Done(r)
    /\ UNCHANGED <<vq, valkey, vk, phase, memq, handleVars, threadVars, outside, orphans,
                   stuck, used>>

\* delete_job of the server and of jobs_tui.py: any existing row.
Delete(j) ==
    /\ status[j] \notin {"absent", "deleted"}
    /\ status' = [status EXCEPT ![j] = "deleted"]
    /\ UNCHANGED <<vq, valkey, vk, phase, memq, handleVars, threadVars, req, outside,
                   orphans, stuck, used>>

\* jobs_tui.py cancel_job: reads the status, sends the job's processes
\* SIGTERM (translate_srt.py's handler for it only sets a flag, so one that
\* waits for the daemon waits on) ...
TuiCancelBegin(r, j) ==
    /\ req[r].pc = "idle"
    /\ status[j] \in {"pending", "processing"}
    /\ Start(r, "tuiCancel", j)
    /\ UNCHANGED <<status, vq, valkey, vk, phase, memq, handleVars, threadVars, outside,
                   orphans, stuck, used>>

\* ... and writes CANCELLED without a guard.
TuiCancelWrite(r) ==
    /\ req[r].pc = "tuiCancel"
    /\ SetStatus(req[r].job, "cancelled")
    /\ Done(r)
    /\ UNCHANGED <<vq, valkey, vk, phase, memq, handleVars, threadVars, outside, orphans,
                   stuck, used>>

\* The README's other way to resubmit a job, in a shell: the row is set to
\* PENDING ...
ExternalWrite(r, j) ==
    /\ req[r].pc = "idle"
    /\ status[j] \in {"failed", "cancelled", "completed"}
    /\ Spend("submit")
    /\ status' = [status EXCEPT ![j] = "pending"]
    /\ Start(r, "rpush", j)
    /\ stuck' = stuck \ {j}
    /\ outside' = outside \cup {j}
    /\ UNCHANGED <<vq, valkey, vk, phase, memq, handleVars, threadVars, orphans>>

\* ... and the code is pushed to Valkey, and to Valkey only.
ExternalPush(r) ==
    /\ req[r].pc = "rpush"
    /\ vq' = IF valkey = "up" THEN Append(vq, req[r].job) ELSE vq
    /\ Done(r)
    /\ UNCHANGED <<status, valkey, vk, phase, memq, handleVars, threadVars, outside,
                   orphans, stuck, used>>

-----------------------------------------------------------------------------
Init ==
    /\ status = [j \in Jobs |-> "absent"]
    /\ vq = <<>>
    /\ valkey \in {"up", "down"}
    /\ vk = [p \in Procs |-> "unset"]
    /\ phase = [p \in Procs |-> "off"]
    /\ memq = [p \in Procs |-> <<>>]
    /\ handle = [p \in Procs |-> NoThread]
    /\ serving = [p \in Procs |-> FALSE]
    /\ raced = FALSE
    /\ wpc = [t \in Threads |-> "none"]
    /\ cur = [t \in Threads |-> NoJob]
    /\ req = [r \in Reqs |-> Idle]
    /\ outside = {}
    /\ orphans = {}
    /\ stuck = {}
    /\ used = [e \in Events |-> 0]

WorkerStep(t) ==
    \/ LoopTop(t) \/ WorkerStops(t) \/ PopValkey(t) \/ PopMemory(t) \/ SelectRow(t)
    \/ LoadHandlerFails(t) \/ Claim(t) \/ HandlerReturns(t) \/ JobRaises(t)

RequestStep(r) ==
    \/ SubmitInsert(r) \/ ResubmitWrite(r) \/ Enqueue(r) \/ Push(r) \/ EnsureWorker(r)
    \/ CancelWrite(r) \/ TuiCancelWrite(r)

RequestBegin(r, j) ==
    \/ SubmitBegin(r, j) \/ ResubmitBegin(r, j)
    \/ CancelBegin(r, j) \/ TuiCancelBegin(r, j) \/ ExternalWrite(r, j)

ProcStep(p) ==
    \/ BootReset(p) \/ BootLoad(p) \/ Crash(p)
    \/ ClearJobQueue(p) \/ PurgeExit(p)

Next ==
    \/ \E p \in Procs : ProcStep(p)
    \/ \E t \in Threads : WorkerStep(t) \/ WorkerDies(t) \/ HandlerHangs(t)
    \/ \E r \in Reqs : RequestStep(r) \/ ExternalPush(r) \/ \E j \in Jobs : RequestBegin(r, j)
    \/ \E j \in Jobs : Delete(j) \/ OrphanExits(j)
    \/ ShutdownBegin \/ ShutdownExit
    \/ ValkeyDown \/ ValkeyUp

Spec == Init /\ [][Next]_vars

\* gunicorn respawns a crashed worker, threads are scheduled, request threads
\* run to their end, and so does a handler that does not hang.  Users,
\* operators and shells are not fair.
Fairness ==
    /\ WF_vars(phase[Server] = "crashed" /\ BootReset(Server))
    /\ WF_vars(BootLoad(Server))
    /\ WF_vars(ShutdownExit)
    /\ \A t \in Workers : WF_vars(WorkerStep(t))
    /\ \A r \in Reqs : WF_vars(RequestStep(r))

FairSpec == Spec /\ Fairness
-----------------------------------------------------------------------------
(* Properties                                                              *)

WorkerPcs == {"none", "created", "loop", "blpop", "fallback", "popped", "selected",
              "running", "hung", "dead"}
RequestPcs == {"idle", "insert", "resubmit", "enqueue", "push", "cancel"}
              \cup OwnProcess \cup EnsurePcs

TypeOK ==
    /\ status \in [Jobs -> Statuses \cup {"absent"}]
    /\ vq \in Seq(Jobs)
    /\ valkey \in {"up", "down"}
    /\ vk \in [Procs -> {"unset", "up", "down"}]
    /\ phase \in [Procs -> {"off", "booting", "up", "stopping", "crashed", "purged"}]
    /\ memq \in [Procs -> Seq(Jobs)]
    /\ handle \in [Procs -> Threads \cup {NoThread}]
    /\ \A p \in Procs : handle[p] # NoThread => Home(handle[p]) = p
    /\ serving \in [Procs -> BOOLEAN]
    /\ raced \in BOOLEAN
    /\ wpc \in [Threads -> WorkerPcs]
    /\ cur \in [Threads -> Jobs \cup {NoJob}]
    /\ \A t \in Threads : wpc[t] \in {"popped", "selected"} \cup Executing => cur[t] \in Jobs
    /\ req \in [Reqs -> [pc : RequestPcs, job : Jobs \cup {NoJob}]]
    /\ \A r \in Reqs : req[r].pc # "idle" => req[r].job \in Jobs
    /\ outside \subseteq Jobs
    /\ orphans \subseteq Jobs
    /\ stuck \subseteq Jobs
    /\ used \in [Events -> Nat]

InQueue(j, q) == \E i \in 1..Len(q) : q[i] = j

\* The server's own memory knows of the job.
Remembered(j) ==
    \/ j \in stuck
    \/ InQueue(j, memq[Server])
    \/ \E t \in Workers : wpc[t] \in {"popped", "selected"} /\ cur[t] = j
    \/ \E r \in Reqs : req[r].pc = "enqueue" /\ req[r].job = j

\* The code is on the Valkey list, or about to be pushed.
Listed(j) ==
    \/ InQueue(j, vq)
    \/ \E r \in Reqs : req[r].pc \in {"push", "rpush"} /\ req[r].job = j

\* Valkey has been up all the time.
ValkeySteady == valkey = "up" /\ used["valkey"] = 0

\* No PENDING row is forgotten while the server is up: its code is on the
\* in-memory queue, or a worker holds it and is about to claim it, or a
\* request is about to enqueue it.  Two cases leave it to the Valkey list,
\* and only as long as Valkey has not failed: a row enqueued from outside,
\* and a server whose worker has died and was replaced by two requests at once
\* (a live thread that is replaced empties the queue its successor reads).
\* The code behind it is add_job, resubmit_job, _load_pending_jobs,
\* _ensure_worker and the end of _process_queue, against crashes, outages that
\* lose the list, duplicate entries, and dead threads.
PendingQueued ==
    phase[Server] = "up" =>
        \A j \in Jobs : status[j] = "pending" =>
            \/ Remembered(j)
            \/ (raced \/ j \in outside) /\ (ValkeySteady => Listed(j))

\* The same without the exceptions: the server or the Valkey list still has
\* the code (README.md: "jobs are durable").
PendingKept ==
    phase[Server] = "up" =>
        \A j \in Jobs : status[j] = "pending" => Remembered(j) \/ Listed(j)

\* A PROCESSING row always has a worker executing its handler, after any
\* crash and restart, unless the FAILED update itself was lost: a user never
\* waits for a job nobody runs (_load_pending_jobs, _run_job).
ProcessingOwned ==
    phase[Server] \in {"up", "stopping"} =>
        \A j \in Jobs : status[j] = "processing" =>
            \/ j \in stuck
            \/ \E t \in Threads : wpc[t] \in Executing /\ cur[t] = j

NoWorker == \A t \in Workers : ~Alive(t)

HandlerHung == \E t \in Workers : wpc[t] = "hung"

\* The cases in which nobody has to serve a PENDING job: both attempts to
\* record its failure failed; whoever set it from outside has not pushed its
\* code yet; or only the Valkey list had the code, and Valkey failed.
Excused(j) ==
    \/ j \in stuck
    \/ \E r \in Reqs : req[r].pc = "rpush" /\ req[r].job = j
    \/ (raced \/ j \in outside) /\ ~ValkeySteady

\* Every PENDING job is eventually served, unless from some time on the server
\* stays stopped, or has no worker thread (a dead one is only noticed by the
\* next request), or one of its handlers hangs for ever, the one queue
\* consumer waiting for it.
PendingServed ==
    \A j \in Jobs :
        \/ []<>(status[j] # "pending" \/ Excused(j))
        \/ <>[](phase[Server] = "off" \/ NoWorker \/ HandlerHung)

\* One job at a time: no two queue consumers execute a handler at once.
OneJobAtATime ==
    \A t, u \in Threads : wpc[t] \in Executing /\ wpc[u] \in Executing => t = u

\* Requests leave _ensure_worker in a state the next one can mend: _running is
\* not TRUE without a thread, which no later request would start.
WorkerRestartable ==
    phase[Server] = "up" /\ (\A r \in Reqs : req[r].pc \notin EnsurePcs) /\ serving[Server]
        => handle[Server] # NoThread

\* A cancelled job stays cancelled until it is resubmitted or deleted: the
\* worker skips its completion logic (cancel_job).
CancelSticks ==
    [][\A j \in Jobs :
         status[j] = "cancelled" => status'[j] \notin {"completed", "failed"}]_vars

\* When the server has shut down gracefully no job is left PROCESSING: one
\* that did not finish in time was marked PENDING (shutdown, worker_exit).
ShutdownRequeues ==
    [][phase[Server] = "stopping" /\ phase'[Server] = "off" =>
         \A j \in Jobs : status'[j] # "processing"]_vars

\* The orphan subprocesses of a job are dead before the job runs again: no
\* two processes write the same output directory (_load_pending_jobs).
OrphanDeadBeforeRerun ==
    \A t \in Threads : wpc[t] \in Executing => cur[t] \notin orphans

Running == [t \in Threads |-> IF wpc[t] \in Executing THEN cur[t] ELSE NoJob]

\* The queue implements the life cycle of a row (module JobLifecycle).  The
\* loss of a process ends its runs without an outcome.
Lifecycle == INSTANCE JobLifecycle WITH Runners <- Threads, running <- Running
LifecycleSpec == Lifecycle!LifecycleSpec
=============================================================================
