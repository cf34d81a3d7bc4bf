--------------------------- MODULE JobQueueProofs ---------------------------
(***************************************************************************)
(* Proofs about JobQueue for every set of jobs, requests and processes and *)
(* every bound.                                                            *)
(***************************************************************************)
EXTENDS JobQueue, FiniteSetTheorems, TLAPS

USE DEF handleVars, threadVars

-----------------------------------------------------------------------------
(* Lemmas about the queues                                                 *)

\* A listing of a finite set of rows is a sequence of job codes in which
\* every row of the set appears.
LEMMA OrdersType ==
    ASSUME NEW S, S \subseteq Jobs, NEW s \in Orders(S)
    PROVE  s \in Seq(Jobs) /\ \A j \in S : InQueue(j, s)
  <1>1. Cardinality(S) \in Nat
    BY FS_Subset, FS_CardinalityType, ConstantsAssumption
  <1>2. s \in [1..Cardinality(S) -> S]
        /\ \A j \in S : \E i \in 1..Cardinality(S) : s[i] = j
    BY DEF Orders
  <1>3. s \in Seq(Jobs) /\ Len(s) = Cardinality(S)
    BY <1>1, <1>2
  <1>. QED
    BY <1>2, <1>3 DEF InQueue

\* A fresh Queue(), and a Valkey list that was lost, is a queue of job codes.
LEMMA EmptyQueue == <<>> \in Seq(Jobs)
  OBVIOUS

\* Pushing a batch of codes (_load_pending_jobs) leaves a queue of job codes.
LEMMA ConcatQueue ==
    ASSUME NEW q \in Seq(Jobs), NEW s \in Seq(Jobs)
    PROVE  q \o s \in Seq(Jobs)
  OBVIOUS

\* What put() does to the in-memory queue.
LEMMA InQueueAppend ==
    ASSUME NEW q \in Seq(Jobs), NEW j \in Jobs, NEW k \in Jobs
    PROVE  InQueue(k, Append(q, j)) <=> k = j \/ InQueue(k, q)
  BY DEF InQueue

\* What get() does to it: only the head leaves.
LEMMA InQueueTail ==
    ASSUME NEW q \in Seq(Jobs), q # <<>>, NEW k \in Jobs, InQueue(k, q)
    PROVE  k = Head(q) \/ InQueue(k, Tail(q))
  <1>1. PICK i \in 1..Len(q) : q[i] = k
    BY DEF InQueue
  <1>2. CASE i = 1
    BY <1>1, <1>2
  <1>3. CASE i # 1
    <2>1. i - 1 \in 1..Len(Tail(q)) /\ Tail(q)[i - 1] = q[i]
      BY <1>1, <1>3
    <2>. QED
      BY <1>1, <2>1 DEF InQueue
  <1>. QED
    BY <1>2, <1>3

\* Pushing a batch puts every code of it on the queue.
LEMMA InQueueConcat ==
    ASSUME NEW q \in Seq(Jobs), NEW s \in Seq(Jobs), NEW k \in Jobs, InQueue(k, s)
    PROVE  InQueue(k, q \o s)
  <1>1. PICK i \in 1..Len(s) : s[i] = k
    BY DEF InQueue
  <1>2. Len(q) + i \in 1..Len(q \o s) /\ (q \o s)[Len(q) + i] = k
    BY <1>1
  <1>. QED
    BY <1>2 DEF InQueue

-----------------------------------------------------------------------------
(* Threads                                                                 *)

\* Every thread has a process, every process its threads.
LEMMA Homes ==
    /\ \A t \in Threads : Home(t) \in Procs /\ t \in ThreadsOf(Home(t))
    /\ \A p \in Procs : ThreadsOf(p) \subseteq Threads
    /\ \A p \in Procs : \A t \in ThreadsOf(p) : Home(t) = p
  BY ConstantsAssumption DEF Threads, ThreadsOf, Home

\* threading.Thread(...) makes a thread that has not been used.
LEMMA NewThreadUnused ==
    ASSUME NEW p \in Procs, Unused(p) # {}
    PROVE  /\ NewThread(p) \in ThreadsOf(p) /\ wpc[NewThread(p)] = "none"
           /\ NewThread(p) \in Threads /\ Home(NewThread(p)) = p
           /\ NewThread(p) # NoThread
  <1>1. NewThread(p) \in Unused(p)
    BY DEF NewThread
  <1>. QED
    BY <1>1, Homes, ConstantsAssumption DEF Unused, Threads

\* With the server as the only process all threads are its consumers.
LEMMA Alone ==
    ASSUME Procs = {Server}
    PROVE  /\ Threads = Workers /\ ThreadsOf(Server) = Workers
           /\ \A t \in Workers : Home(t) = Server /\ t # NoThread
  BY ConstantsAssumption DEF Threads, ThreadsOf, Home

-----------------------------------------------------------------------------
(* Type correctness                                                        *)

\* A fault or a request that is charged leaves the counts of both typed.
LEMMA SpendType ==
    ASSUME TypeOK, NEW e \in Events, Spend(e)
    PROVE  used' \in [Events -> Nat]
  BY DEF TypeOK, Spend

\* What the worker's state must satisfy after a step of its loop.
WorkerTyped ==
    /\ wpc \in [Threads -> WorkerPcs]
    /\ cur \in [Threads -> Jobs \cup {NoJob}]
    /\ \A t \in Threads : wpc[t] \in {"popped", "selected"} \cup Executing => cur[t] \in Jobs

\* A worker that pops a code holds a job.
LEMMA HoldType ==
    ASSUME TypeOK, NEW t \in Threads, NEW j \in Jobs, Hold(t, j)
    PROVE  WorkerTyped'
  BY DEF TypeOK, WorkerTyped, Executing, Hold, WorkerPcs

\* A worker that is done with a code goes back to its loop.
LEMMA ReleaseType ==
    ASSUME TypeOK, NEW t \in Threads, Release(t)
    PROVE  WorkerTyped'
  BY DEF TypeOK, WorkerTyped, Executing, Release, WorkerPcs

\* A worker that goes on keeps its code.
LEMMA GoOnType ==
    ASSUME TypeOK, NEW t \in Threads, NEW pc \in WorkerPcs,
           pc \in {"popped", "selected"} \cup Executing => cur[t] \in Jobs,
           wpc' = [wpc EXCEPT ![t] = pc], cur' = cur
    PROVE  WorkerTyped'
  BY DEF TypeOK, WorkerTyped, Executing

\* What the attributes that _ensure_worker reads and writes must satisfy.
HandleTyped ==
    /\ handle \in [Procs -> Threads \cup {NoThread}]
    /\ \A p \in Procs : handle[p] # NoThread => Home(handle[p]) = p
    /\ serving \in [Procs -> BOOLEAN]
    /\ raced \in BOOLEAN

\* What a request must satisfy.
RequestsTyped ==
    /\ req \in [Reqs -> [pc : RequestPcs, job : Jobs \cup {NoJob}]]
    /\ \A r \in Reqs : req[r].pc # "idle" => req[r].job \in Jobs

\* The first state of a fresh installation is well-typed.
LEMMA TypeInit == Init => TypeOK
  <1>. SUFFICES ASSUME Init PROVE TypeOK
    OBVIOUS
  <1>1. /\ status \in [Jobs -> Statuses \cup {"absent"}]
        /\ phase \in [Procs -> {"off", "booting", "up", "stopping", "crashed", "purged"}]
        /\ vk \in [Procs -> {"unset", "up", "down"}]
        /\ valkey \in {"up", "down"} /\ used \in [Events -> Nat]
    BY DEF Init
  <1>2. vq \in Seq(Jobs) /\ memq \in [Procs -> Seq(Jobs)]
    BY EmptyQueue DEF Init
  <1>3. WorkerTyped
    BY DEF Init, WorkerTyped, WorkerPcs, Executing
  <1>4. HandleTyped
    BY DEF Init, HandleTyped
  <1>5. RequestsTyped
    BY DEF Init, RequestsTyped, RequestPcs, Idle
  <1>. QED
    BY <1>1, <1>2, <1>3, <1>4, <1>5
       DEF TypeOK, WorkerTyped, HandleTyped, RequestsTyped, Init

\* A request that goes on keeps its code.
LEMMA GotoType ==
    ASSUME TypeOK, NEW r \in Reqs, req[r].pc # "idle", NEW pc \in RequestPcs, Goto(r, pc)
    PROVE  RequestsTyped'
  BY DEF TypeOK, RequestsTyped, Goto, Start

\* A request that has been answered holds no code.
LEMMA DoneType ==
    ASSUME TypeOK, NEW r \in Reqs, Done(r)
    PROVE  RequestsTyped'
  BY DEF TypeOK, RequestsTyped, Done, Idle, RequestPcs

\* A request that begins holds the code it was given.
LEMMA StartType ==
    ASSUME TypeOK, NEW r \in Reqs, NEW j \in Jobs, NEW pc \in RequestPcs, Start(r, pc, j)
    PROVE  RequestsTyped'
  BY DEF TypeOK, RequestsTyped, Start

\* The accesses of _ensure_worker leave its request, the thread and the two
\* attributes typed.
LEMMA EnsureType ==
    ASSUME TypeOK, NEW r \in Reqs, EnsureWorker(r)
    PROVE  RequestsTyped' /\ HandleTyped' /\ WorkerTyped'
  <1>. USE ConstantsAssumption DEF RequestPcs, EnsurePcs, RestartPcs
  <1>1. HandleTyped /\ WorkerTyped /\ cur' = cur
    BY DEF TypeOK, HandleTyped, WorkerTyped, EnsureWorker
  <1>2. CASE CheckHandle(r)
    <2>1. RequestsTyped'
      BY <1>2, GotoType DEF CheckHandle
    <2>. QED
      BY <1>1, <1>2, <2>1 DEF CheckHandle, HandleTyped, WorkerTyped
  <1>3. CASE CheckAlive(r)
    <2>1. RequestsTyped'
      BY <1>3, GotoType, DoneType DEF CheckAlive
    <2>2. raced' \in BOOLEAN
      BY <1>1, <1>3 DEF CheckAlive, HandleTyped, OtherAt
    <2>. QED
      BY <1>1, <1>3, <2>1, <2>2 DEF CheckAlive, HandleTyped, WorkerTyped
  <1>4. CASE StopServing(r)
    <2>1. RequestsTyped'
      BY <1>4, GotoType DEF StopServing
    <2>. QED
      BY <1>1, <1>4, <2>1 DEF StopServing, HandleTyped, WorkerTyped
  <1>5. CASE TakeHandle(r)
    <2>1. RequestsTyped'
      BY <1>5, GotoType DEF TakeHandle
    <2>. QED
      BY <1>1, <1>5, <2>1 DEF TakeHandle, HandleTyped, WorkerTyped
  <1>6. CASE DropHandle(r)
    <2>1. RequestsTyped'
      BY <1>6, GotoType, DoneType DEF DropHandle
    <2>. QED
      BY <1>1, <1>6, <2>1 DEF DropHandle, HandleTyped, WorkerTyped
  <1>7. CASE TestServing(r)
    <2>1. RequestsTyped'
      BY <1>7, GotoType, DoneType DEF TestServing
    <2>. QED
      BY <1>1, <1>7, <2>1 DEF TestServing, HandleTyped, WorkerTyped
  <1>8. CASE GoServing(r)
    <2>1. RequestsTyped'
      BY <1>8, GotoType DEF GoServing
    <2>. QED
      BY <1>1, <1>8, <2>1 DEF GoServing, HandleTyped, WorkerTyped
  <1>9. CASE MakeThread(r)
    <2>1. RequestsTyped'
      BY <1>9, GotoType DEF MakeThread
    <2>2. NewThread(Server) \in Threads /\ Home(NewThread(Server)) = Server
      BY <1>9, NewThreadUnused DEF MakeThread
    <2>3. WorkerTyped'
      BY <1>1, <1>9, <2>2, GoOnType DEF MakeThread, WorkerPcs, Executing
    <2>. QED
      BY <1>1, <1>9, <2>1, <2>2, <2>3 DEF MakeThread, HandleTyped
  <1>10. CASE StartThread(r)
    <2>1. RequestsTyped'
      BY <1>10, DoneType DEF StartThread
    <2>2. WorkerTyped'
      <3>1. CASE handle[Server] # NoThread /\ wpc[handle[Server]] = "created"
        <4>1. handle[Server] \in Threads
          BY <1>1, <3>1 DEF HandleTyped
        <4>. QED
          BY <1>1, <1>10, <3>1, <4>1, GoOnType DEF StartThread, WorkerPcs, Executing
      <3>2. CASE ~(handle[Server] # NoThread /\ wpc[handle[Server]] = "created")
        BY <1>1, <1>10, <3>2 DEF StartThread, WorkerTyped
      <3>. QED
        BY <3>1, <3>2
    <2>. QED
      BY <1>1, <1>10, <2>1, <2>2 DEF StartThread, HandleTyped
  <1>. QED
    BY <1>2, <1>3, <1>4, <1>5, <1>6, <1>7, <1>8, <1>9, <1>10 DEF EnsureWorker

\* A process that is gone leaves nothing behind that is not typed.
LEMMA GoneType ==
    ASSUME TypeOK, NEW p \in Procs, NEW how \in {"off", "crashed"}, ProcessGone(p, how)
    PROVE  /\ HandleTyped' /\ WorkerTyped'
           /\ phase' \in [Procs -> {"off", "booting", "up", "stopping", "crashed", "purged"}]
           /\ memq' \in [Procs -> Seq(Jobs)]
           /\ vk' \in [Procs -> {"unset", "up", "down"}]
           /\ orphans' \subseteq Jobs
  <1>1. HandleTyped'
    BY DEF TypeOK, HandleTyped, ProcessGone
  <1>2. WorkerTyped'
    BY DEF TypeOK, WorkerTyped, WorkerPcs, Executing, ProcessGone
  <1>3. memq' \in [Procs -> Seq(Jobs)]
    BY EmptyQueue DEF TypeOK, ProcessGone
  <1>4. orphans' \subseteq Jobs
    BY Homes DEF TypeOK, ProcessGone
  <1>5. /\ phase' \in [Procs -> {"off", "booting", "up", "stopping", "crashed", "purged"}]
        /\ vk' \in [Procs -> {"unset", "up", "down"}]
    BY DEF TypeOK, ProcessGone
  <1>. QED
    BY <1>1, <1>2, <1>3, <1>4, <1>5

\* An update of a row leaves a status in every row.
LEMMA SetStatusType ==
    ASSUME TypeOK, NEW j \in Jobs, NEW s \in Statuses, SetStatus(j, s)
    PROVE  status' \in [Jobs -> Statuses \cup {"absent"}]
  BY DEF TypeOK, SetStatus

\* Every handler and thread step keeps the state well-typed; one step per
\* action of the specification.
LEMMA TypeStep ==
    ASSUME TypeOK, [Next]_vars
    PROVE  TypeOK'
  <1>1. ASSUME NEW p \in Procs, BootReset(p) PROVE TypeOK'
    <2>1. used' \in [Events -> Nat]
      BY <1>1 DEF TypeOK, WorkerPcs, BootReset, Spend, Events
    <2>2. orphans' \subseteq Jobs /\ status' \in [Jobs -> Statuses \cup {"absent"}]
      BY <1>1 DEF TypeOK, WorkerPcs, BootReset, Survivors, Statuses
    <2>. QED
      BY <1>1, <2>1, <2>2 DEF TypeOK, WorkerPcs, BootReset
  <1>2. ASSUME NEW p \in Procs, BootLoad(p) PROVE TypeOK'
    <2>1. PICK s \in Orders(Pending) :
            /\ memq' = [memq EXCEPT ![p] = s]
            /\ IF s = <<>> THEN UNCHANGED <<vk, vq>> ELSE QueuePush(p, s)
      BY <1>2 DEF BootLoad
    <2>2. s \in Seq(Jobs)
      BY OrdersType DEF Pending
    <2>3. vk' \in [Procs -> {"unset", "up", "down"}]
      BY <2>1 DEF TypeOK, QueuePush, Cache
    <2>4. vq' = vq \/ vq' = vq \o s
      BY <2>1 DEF QueuePush
    <2>5. vq' \in Seq(Jobs)
      <3>1. vq \in Seq(Jobs)
        BY DEF TypeOK
      <3>2. vq \o s \in Seq(Jobs)
        BY <2>2, <3>1, ConcatQueue
      <3>. QED
        BY <2>4, <3>1, <3>2
    <2>6. memq' \in [Procs -> Seq(Jobs)]
      BY <2>1, <2>2 DEF TypeOK
    <2>7. /\ NewThread(p) \in Threads /\ Home(NewThread(p)) = p
          /\ handle' = [handle EXCEPT ![p] = NewThread(p)]
          /\ wpc' = [wpc EXCEPT ![NewThread(p)] = "loop"]
          /\ serving' = [serving EXCEPT ![p] = TRUE]
          /\ cur' = cur /\ raced' = raced /\ outside' \in {{}, outside}
      BY <1>2, NewThreadUnused DEF BootLoad, StartWorker
    <2>8. WorkerTyped'
      BY <2>7, GoOnType DEF WorkerPcs, Executing
    <2>9. HandleTyped' /\ outside' \subseteq Jobs
      BY <2>7 DEF TypeOK, HandleTyped
    <2>. QED
      BY <1>2, <2>3, <2>5, <2>6, <2>8, <2>9 DEF TypeOK, WorkerTyped, HandleTyped, BootLoad
  <1>3. ASSUME NEW p \in Procs, Crash(p) PROVE TypeOK'
    <2>1. used' \in [Events -> Nat]
      BY <1>3, SpendType DEF Crash, Events
    <2>2. RequestsTyped'
      BY <1>3 DEF TypeOK, RequestsTyped, Crash, Idle, RequestPcs
    <2>3. PICK how \in {"off", "crashed"} : ProcessGone(p, how)
      BY <1>3 DEF Crash
    <2>. QED
      BY <2>1, <2>2, <2>3, GoneType
         DEF TypeOK, WorkerTyped, HandleTyped, RequestsTyped, ProcessGone
  <1>4. ASSUME NEW p \in Procs, ClearJobQueue(p) PROVE TypeOK'
    BY ConstantsAssumption, <1>4 DEF TypeOK, Statuses, RequestPcs, WorkerPcs, ClearJobQueue
  <1>5. ASSUME NEW p \in Procs, PurgeExit(p) PROVE TypeOK'
    <2>1. ProcessGone(p, "off") /\ UNCHANGED <<req, used>>
      BY <1>5 DEF PurgeExit
    <2>. QED
      BY <2>1, GoneType DEF TypeOK, WorkerTyped, HandleTyped, ProcessGone
  <1>6. ASSUME NEW t \in Threads, WorkerDies(t) PROVE TypeOK'
    <2>1. used' \in [Events -> Nat]
      BY <1>6, SpendType DEF WorkerDies, Events
    <2>2. WorkerTyped'
      BY <1>6, GoOnType DEF WorkerDies, WorkerPcs, Executing
    <2>. QED
      BY <1>6, <2>1, <2>2 DEF TypeOK, WorkerTyped, WorkerDies
  <1>7. ASSUME NEW t \in Threads, LoopTop(t) PROVE TypeOK'
    <2>1. WorkerTyped'
      BY <1>7, GoOnType DEF LoopTop, WorkerPcs, Executing
    <2>. QED
      BY <1>7, <2>1 DEF TypeOK, WorkerTyped, LoopTop, Survivors
  <1>8. ASSUME NEW t \in Threads, PopValkey(t) PROVE TypeOK'
    <2>1. vk' \in [Procs -> {"unset", "up", "down"}]
      BY <1>8 DEF TypeOK, WorkerPcs, PopValkey, Cache
    <2>2. CASE Reachable(Home(t)) /\ vq # <<>>
      <3>1. Head(vq) \in Jobs /\ Tail(vq) \in Seq(Jobs)
        BY <2>2 DEF TypeOK
      <3>. QED
        BY <1>8, <2>1, <2>2, <3>1, HoldType DEF TypeOK, WorkerTyped, PopValkey
    <2>3. CASE ~(Reachable(Home(t)) /\ vq # <<>>)
      <3>1. WorkerTyped'
        BY <1>8, <2>3, GoOnType DEF PopValkey, WorkerPcs, Executing
      <3>. QED
        BY <1>8, <2>1, <2>3, <3>1 DEF TypeOK, WorkerTyped, PopValkey
    <2>. QED
      BY <2>2, <2>3
  <1>9. ASSUME NEW t \in Threads, PopMemory(t) PROVE TypeOK'
    <2>1. CASE memq[Home(t)] # <<>>
      <3>1. Head(memq[Home(t)]) \in Jobs /\ Tail(memq[Home(t)]) \in Seq(Jobs)
        BY <2>1, Homes DEF TypeOK
      <3>. QED
        BY <1>9, <2>1, <3>1, HoldType, Homes DEF TypeOK, WorkerTyped, PopMemory
    <2>2. CASE memq[Home(t)] = <<>>
      <3>1. WorkerTyped'
        BY <1>9, <2>2, GoOnType DEF PopMemory, WorkerPcs, Executing
      <3>. QED
        BY <1>9, <2>2, <3>1 DEF TypeOK, WorkerTyped, PopMemory
    <2>. QED
      BY <2>1, <2>2
  <1>10. ASSUME NEW t \in Threads, SelectRow(t) PROVE TypeOK'
    <2>1. WorkerTyped'
      <3>1. CASE status[cur[t]] = "absent"
        BY <1>10, <3>1, ReleaseType DEF SelectRow
      <3>2. CASE status[cur[t]] # "absent"
        BY <1>10, <3>2, GoOnType DEF TypeOK, SelectRow, WorkerPcs, Executing
      <3>. QED
        BY <3>1, <3>2
    <2>. QED
      BY <1>10, <2>1 DEF TypeOK, WorkerTyped, SelectRow
  <1>11. ASSUME NEW t \in Threads, LoadHandlerFails(t) PROVE TypeOK'
    <2>1. status' \in [Jobs -> Statuses \cup {"absent"}]
      BY <1>11, SetStatusType DEF TypeOK, LoadHandlerFails, Statuses, Executing
    <2>2. WorkerTyped'
      BY <1>11, ReleaseType DEF LoadHandlerFails
    <2>. QED
      BY <1>11, <2>1, <2>2 DEF TypeOK, WorkerTyped, LoadHandlerFails
  <1>12. ASSUME NEW t \in Threads, Claim(t) PROVE TypeOK'
    <2>1. status' \in [Jobs -> Statuses \cup {"absent"}]
      <3>1. cur[t] \in Jobs /\ "processing" \in Statuses
        BY <1>12 DEF TypeOK, Claim, Statuses, Executing
      <3>2. status' = status \/ status' = [status EXCEPT ![cur[t]] = "processing"]
        BY <1>12 DEF Claim
      <3>. QED
        BY <3>1, <3>2 DEF TypeOK
    <2>2. CASE status[cur[t]] = "pending"
      <3>1. WorkerTyped'
        BY <1>12, <2>2, GoOnType DEF TypeOK, Claim, WorkerPcs, Executing
      <3>. QED
        BY <1>12, <2>1, <3>1 DEF TypeOK, WorkerTyped, Claim
    <2>3. CASE status[cur[t]] # "pending"
      <3>1. WorkerTyped'
        BY <1>12, <2>3, ReleaseType DEF Claim
      <3>. QED
        BY <1>12, <2>1, <3>1 DEF TypeOK, WorkerTyped, Claim
    <2>. QED
      BY <2>2, <2>3
  <1>13. ASSUME NEW t \in Threads, HandlerReturns(t) PROVE TypeOK'
    <2>1. status' \in [Jobs -> Statuses \cup {"absent"}]
      BY <1>13, SetStatusType DEF TypeOK, HandlerReturns, Statuses, Executing
    <2>2. WorkerTyped'
      BY <1>13, ReleaseType DEF HandlerReturns
    <2>. QED
      BY <1>13, <2>1, <2>2 DEF TypeOK, WorkerTyped, HandlerReturns
  <1>14. ASSUME NEW t \in Threads, JobRaises(t) PROVE TypeOK'
    <2>1. cur[t] \in Jobs
      BY <1>14 DEF TypeOK, JobRaises, Executing
    <2>2. /\ used' \in [Events -> Nat]
          /\ status' \in [Jobs -> Statuses \cup {"absent"}] /\ stuck' \subseteq Jobs
      <3>1. CASE SetStatus(cur[t], "failed") /\ UNCHANGED <<stuck, used>>
        BY <2>1, <3>1, SetStatusType DEF TypeOK, Statuses
      <3>2. CASE Spend("dberror") /\ SetStatus(cur[t], "failed") /\ UNCHANGED stuck
        BY <2>1, <3>2, SetStatusType, SpendType DEF TypeOK, Statuses, Events
      <3>3. CASE Spend("dberror") /\ stuck' = stuck \cup {cur[t]} /\ UNCHANGED status
        BY <2>1, <3>3, SpendType DEF TypeOK, Events
      <3>. QED
        BY <1>14, <3>1, <3>2, <3>3 DEF JobRaises
    <2>3. WorkerTyped'
      BY <1>14, ReleaseType DEF JobRaises
    <2>. QED
      BY <1>14, <2>2, <2>3 DEF TypeOK, WorkerTyped, JobRaises
  <1>15. ASSUME NEW r \in Reqs, SubmitInsert(r) PROVE TypeOK'
    <2>1. RequestsTyped'
      BY <1>15, StartType DEF TypeOK, SubmitInsert, RequestPcs, OwnProcess
    <2>. QED
      BY <1>15, <2>1 DEF TypeOK, RequestsTyped, SubmitInsert, Statuses
  <1>16. ASSUME NEW r \in Reqs, ResubmitWrite(r) PROVE TypeOK'
    <2>1. RequestsTyped'
      BY <1>16, StartType DEF TypeOK, ResubmitWrite, RequestPcs, OwnProcess
    <2>2. status' \in [Jobs -> Statuses \cup {"absent"}]
      BY <1>16, SetStatusType DEF TypeOK, ResubmitWrite, Statuses
    <2>. QED
      BY <1>16, <2>1, <2>2 DEF TypeOK, RequestsTyped, ResubmitWrite
  <1>17. ASSUME NEW r \in Reqs, Enqueue(r) PROVE TypeOK'
    <2>1. RequestsTyped'
      BY <1>17, StartType DEF TypeOK, Enqueue, RequestPcs, OwnProcess
    <2>2. memq' \in [Procs -> Seq(Jobs)]
      <3>1. req[r].job \in Jobs /\ Server \in Procs
        BY <1>17, ConstantsAssumption DEF TypeOK, Enqueue
      <3>2. Append(memq[Server], req[r].job) \in Seq(Jobs)
        BY <3>1 DEF TypeOK
      <3>. QED
        BY <1>17, <3>2 DEF TypeOK, Enqueue
    <2>. QED
      BY <1>17, <2>1, <2>2 DEF TypeOK, RequestsTyped, Enqueue
  <1>18. ASSUME NEW r \in Reqs, Push(r) PROVE TypeOK'
    <2>1. RequestsTyped'
      BY <1>18, StartType DEF TypeOK, Push, RequestPcs, EnsurePcs
    <2>2. /\ vk' \in [Procs -> {"unset", "up", "down"}]
          /\ raced' \in BOOLEAN
      BY <1>18 DEF TypeOK, Push, QueuePush, Cache, OtherAt
    <2>3. vq' \in Seq(Jobs)
      BY <1>18 DEF TypeOK, Push, QueuePush
    <2>. QED
      BY <1>18, <2>1, <2>2, <2>3 DEF TypeOK, RequestsTyped, Push
  <1>19. ASSUME NEW r \in Reqs, CancelWrite(r) PROVE TypeOK'
    <2>1. RequestsTyped'
      BY <1>19, DoneType DEF TypeOK, CancelWrite, RequestPcs, OwnProcess
    <2>. QED
      BY <1>19, <2>1 DEF TypeOK, RequestsTyped, CancelWrite, Statuses
  <1>20. ASSUME NEW r \in Reqs, TuiCancelWrite(r) PROVE TypeOK'
    <2>1. RequestsTyped'
      BY <1>20, DoneType DEF TypeOK, TuiCancelWrite, RequestPcs, OwnProcess
    <2>2. status' \in [Jobs -> Statuses \cup {"absent"}]
      BY <1>20, SetStatusType DEF TypeOK, TuiCancelWrite, Statuses
    <2>. QED
      BY <1>20, <2>1, <2>2 DEF TypeOK, RequestsTyped, TuiCancelWrite
  <1>21. ASSUME NEW r \in Reqs, NEW j \in Jobs, SubmitBegin(r, j) PROVE TypeOK'
    <2>1. RequestsTyped'
      BY <1>21, StartType DEF TypeOK, SubmitBegin, RequestPcs, OwnProcess
    <2>2. used' \in [Events -> Nat]
      BY <1>21, SpendType DEF SubmitBegin, Events
    <2>. QED
      BY <1>21, <2>1, <2>2 DEF TypeOK, RequestsTyped, SubmitBegin
  <1>22. ASSUME NEW r \in Reqs, NEW j \in Jobs, ResubmitBegin(r, j) PROVE TypeOK'
    <2>1. RequestsTyped'
      BY <1>22, StartType DEF TypeOK, ResubmitBegin, RequestPcs, OwnProcess
    <2>2. used' \in [Events -> Nat]
      BY <1>22, SpendType DEF ResubmitBegin, Events
    <2>. QED
      BY <1>22, <2>1, <2>2 DEF TypeOK, RequestsTyped, ResubmitBegin
  <1>23. ASSUME NEW r \in Reqs, NEW j \in Jobs, CancelBegin(r, j) PROVE TypeOK'
    <2>1. RequestsTyped'
      BY <1>23, StartType DEF CancelBegin, RequestPcs
    <2>2. WorkerTyped'
      BY <1>23 DEF TypeOK, CancelBegin, WorkerTyped, WorkerPcs, Executing
    <2>. QED
      BY <1>23, <2>1, <2>2 DEF TypeOK, RequestsTyped, WorkerTyped, CancelBegin
  <1>24. ASSUME NEW r \in Reqs, NEW j \in Jobs, TuiCancelBegin(r, j) PROVE TypeOK'
    <2>1. RequestsTyped'
      BY <1>24, StartType DEF TypeOK, TuiCancelBegin, RequestPcs, OwnProcess
    <2>. QED
      BY <1>24, <2>1 DEF TypeOK, RequestsTyped, TuiCancelBegin
  <1>25. ASSUME NEW j \in Jobs, Delete(j) PROVE TypeOK'
    BY ConstantsAssumption, <1>25 DEF TypeOK, Statuses, RequestPcs, WorkerPcs, Delete
  <1>26. ASSUME NEW j \in Jobs, OrphanExits(j) PROVE TypeOK'
    BY ConstantsAssumption, <1>26 DEF TypeOK, Statuses, RequestPcs, WorkerPcs, OrphanExits
  <1>27. CASE ShutdownBegin
    <2>1. used' \in [Events -> Nat]
      BY <1>27, SpendType DEF ShutdownBegin, Events
    <2>. QED
      BY <1>27, <2>1 DEF TypeOK, ShutdownBegin
  <1>28. CASE ShutdownExit
    <2>1. ProcessGone(Server, "off") /\ UNCHANGED <<req, used>>
      BY <1>28 DEF ShutdownExit
    <2>. QED
      BY <2>1, GoneType, ConstantsAssumption
         DEF TypeOK, WorkerTyped, HandleTyped, ProcessGone
  <1>29. ASSUME NEW t \in Threads, WorkerStops(t) PROVE TypeOK'
    <2>1. WorkerTyped'
      BY <1>29, GoOnType DEF WorkerStops, WorkerPcs, Executing
    <2>2. memq' \in [Procs -> Seq(Jobs)]
      BY <1>29, EmptyQueue DEF TypeOK, WorkerStops
    <2>. QED
      BY <1>29, <2>1, <2>2 DEF TypeOK, WorkerTyped, WorkerStops
  <1>30. CASE ValkeyDown
    BY <1>30 DEF TypeOK, ValkeyDown
  <1>31. CASE ValkeyUp
    <2>1. used' \in [Events -> Nat]
      BY <1>31, SpendType DEF ValkeyUp, Events
    <2>2. vq' = vq \/ vq' = <<>>
      BY <1>31 DEF ValkeyUp
    <2>3. vq' \in Seq(Jobs)
      BY <2>2, EmptyQueue DEF TypeOK
    <2>. QED
      BY <1>31, <2>1, <2>3 DEF TypeOK, ValkeyUp
  <1>32. CASE UNCHANGED vars
    BY <1>32 DEF TypeOK, vars
  <1>33. ASSUME NEW t \in Threads, HandlerHangs(t) PROVE TypeOK'
    <2>1. used' \in [Events -> Nat]
      BY <1>33, SpendType DEF HandlerHangs, Events
    <2>2. WorkerTyped'
      BY <1>33, GoOnType DEF TypeOK, HandlerHangs, WorkerPcs, Executing
    <2>. QED
      BY <1>33, <2>1, <2>2 DEF TypeOK, WorkerTyped, HandlerHangs
  <1>34. ASSUME NEW r \in Reqs, EnsureWorker(r) PROVE TypeOK'
    BY <1>34, EnsureType DEF TypeOK, RequestsTyped, HandleTyped, WorkerTyped, EnsureWorker
  <1>35. ASSUME NEW r \in Reqs, NEW j \in Jobs, ExternalWrite(r, j) PROVE TypeOK'
    <2>1. used' \in [Events -> Nat]
      BY <1>35, SpendType DEF ExternalWrite, Events
    <2>2. RequestsTyped'
      BY <1>35, StartType DEF ExternalWrite, RequestPcs, OwnProcess
    <2>. QED
      BY <1>35, <2>1, <2>2 DEF TypeOK, RequestsTyped, ExternalWrite, Statuses
  <1>36. ASSUME NEW r \in Reqs, ExternalPush(r) PROVE TypeOK'
    <2>1. RequestsTyped'
      BY <1>36, DoneType DEF ExternalPush
    <2>2. vq' \in Seq(Jobs)
      BY <1>36 DEF TypeOK, ExternalPush
    <2>. QED
      BY <1>36, <2>1, <2>2 DEF TypeOK, RequestsTyped, ExternalPush
  <1>. QED
    BY <1>1, <1>2, <1>3, <1>4, <1>5, <1>6, <1>7, <1>8, <1>9, <1>10,
       <1>11, <1>12, <1>13, <1>14, <1>15, <1>16, <1>17, <1>18, <1>19, <1>20,
       <1>21, <1>22, <1>23, <1>24, <1>25, <1>26, <1>27, <1>28, <1>29, <1>30,
       <1>31, <1>32, <1>33, <1>34, <1>35, <1>36
       DEF Next, ProcStep, WorkerStep, RequestStep, RequestBegin

\* Every reachable state of every instance is well-typed.
THEOREM TypeCorrect == Spec => []TypeOK
  BY TypeInit, TypeStep, PTL DEF Spec

-----------------------------------------------------------------------------
(* A server whose worker was not replaced by two requests at once          *)

\* What _running and _worker_thread promise as long as no two requests were in
\* _ensure_worker while one replaced the worker.
ServerCalm ==
    IF \A r \in Reqs : req[r].pc \notin RestartPcs
    THEN /\ serving[Server]
         /\ handle[Server] \in Workers
         /\ wpc[handle[Server]] \notin {"none", "created"}
         /\ \A t \in Workers : Alive(t) => t = handle[Server]
    ELSE \A r \in Reqs : req[r].pc \in RestartPcs =>
         /\ \A t \in Workers : ~Alive(t)
         /\ req[r].pc # "dropNone"
         /\ req[r].pc \in {"stop", "take", "drop"} => handle[Server] \in Workers
         /\ req[r].pc \in {"take", "drop", "retest", "go"} => ~serving[Server]
         /\ req[r].pc \in {"make", "start"} => serving[Server]
         /\ req[r].pc = "start" =>
                handle[Server] \in Workers /\ wpc[handle[Server]] = "created"

\* Inductive together with the type invariant.
CalmInv ==
    /\ phase[Server] # "up" => \A r \in Reqs : req[r].pc \in {"idle"} \cup OwnProcess
    /\ phase[Server] \in {"off", "crashed", "booting"} =>
           ~raced /\ \A t \in Workers : wpc[t] = "none"
    /\ ~raced => \A q, r \in Reqs :
           req[r].pc \in RestartPcs /\ req[q].pc \in EnsurePcs => q = r
    /\ ~raced /\ phase[Server] = "up" => ServerCalm

\* A step that leaves the process, the two attributes and the liveness of the
\* threads alone, and no request further in _ensure_worker.
LEMMA CalmKept ==
    ASSUME Procs = {Server}, TypeOK, CalmInv,
           phase' = phase, UNCHANGED handleVars,
           \A t \in Workers :
               \/ wpc'[t] = wpc[t]
               \/ /\ wpc[t] \notin {"none", "created", "dead"}
                  /\ wpc'[t] \notin {"none", "created"},
           \A r \in Reqs :
               \/ req'[r] = req[r]
               \/ /\ req[r].pc \notin EnsurePcs /\ req'[r].pc \notin EnsurePcs
                  /\ phase[Server] = "up" \/ req'[r].pc \in {"idle"} \cup OwnProcess
    PROVE  CalmInv'
  <1>. USE DEF RestartPcs, EnsurePcs, OwnProcess
  <1>1. phase'[Server] # "up" => \A r \in Reqs : req'[r].pc \in {"idle"} \cup OwnProcess
    BY DEF CalmInv
  <1>2. phase'[Server] \in {"off", "crashed", "booting"} =>
            ~raced' /\ \A t \in Workers : wpc'[t] = "none"
    BY DEF CalmInv
  <1>3. \A r \in Reqs : /\ req'[r].pc \in RestartPcs <=> req[r].pc \in RestartPcs
                        /\ req'[r].pc \in EnsurePcs <=> req[r].pc \in EnsurePcs
                        /\ req[r].pc \in EnsurePcs => req'[r] = req[r]
    OBVIOUS
  <1>4. \A t \in Workers : /\ Alive(t)' => Alive(t)
                           /\ wpc[t] \notin {"none", "created"} => wpc'[t] \notin {"none", "created"}
                           /\ wpc[t] = "created" => wpc'[t] = "created"
    BY DEF Alive
  <1>5. ~raced' => \A q, r \in Reqs :
            req'[r].pc \in RestartPcs /\ req'[q].pc \in EnsurePcs => q = r
    BY <1>3 DEF CalmInv
  <1>6. ServerCalm => ServerCalm'
    <2>1. CASE \A r \in Reqs : req[r].pc \notin RestartPcs
      <3>1. \A r \in Reqs : req'[r].pc \notin RestartPcs
        BY <1>3, <2>1
      <3>. QED
        BY <1>4, <2>1, <3>1 DEF ServerCalm
    <2>2. CASE ~\A r \in Reqs : req[r].pc \notin RestartPcs
      <3>1. ~\A r \in Reqs : req'[r].pc \notin RestartPcs
        BY <1>3, <2>2
      <3>2. SUFFICES ASSUME ServerCalm, NEW r \in Reqs, req'[r].pc \in RestartPcs
                     PROVE  /\ \A t \in Workers : ~Alive(t)'
                            /\ req[r].pc # "dropNone"
                            /\ req[r].pc \in {"stop", "take", "drop"} => handle[Server] \in Workers
                            /\ req[r].pc \in {"take", "drop", "retest", "go"} => ~serving[Server]
                            /\ req[r].pc \in {"make", "start"} => serving[Server]
                            /\ req[r].pc = "start" =>
                                 handle[Server] \in Workers /\ wpc'[handle[Server]] = "created"
        BY <1>3, <3>1 DEF ServerCalm
      <3>. QED
        BY <1>3, <1>4, <2>2, <3>2 DEF ServerCalm
    <2>. QED
      BY <2>1, <2>2
  <1>. QED
    BY <1>1, <1>2, <1>5, <1>6 DEF CalmInv

\* The request is at a place, the others have not moved.
Moved(r, pc) == req'[r].pc = pc /\ \A q \in Reqs \ {r} : req'[q] = req[q]

\* A request that goes on, or ends, moves alone.
LEMMA OneMoves ==
    ASSUME TypeOK, NEW r \in Reqs
    PROVE  /\ \A pc : Goto(r, pc) => Moved(r, pc)
           /\ Done(r) => Moved(r, "idle")
  BY DEF TypeOK, Goto, Start, Done, Idle, Moved

\* A request in _ensure_worker is at one of its places, and takes no race back.
LEMMA EnsureMoves ==
    ASSUME NEW r \in Reqs, EnsureWorker(r)
    PROVE  req[r].pc \in EnsurePcs /\ phase' = phase /\ (raced => raced')
  <1>1. req[r].pc \in EnsurePcs /\ phase' = phase
    BY DEF EnsureWorker, CheckHandle, CheckAlive, StopServing, TakeHandle, DropHandle,
           TestServing, GoServing, MakeThread, StartThread, EnsurePcs, RestartPcs
  <1>2. raced => raced'
    BY DEF EnsureWorker, CheckHandle, CheckAlive, StopServing, TakeHandle, DropHandle,
           TestServing, GoServing, MakeThread, StartThread
  <1>. QED
    BY <1>1, <1>2

\* The accesses of _ensure_worker keep CalmInv.
LEMMA EnsureCalm ==
    ASSUME Procs = {Server}, TypeOK, CalmInv, NEW r \in Reqs, EnsureWorker(r)
    PROVE  CalmInv'
  <1>. USE DEF RestartPcs, EnsurePcs
  <1>1. phase[Server] = "up" /\ phase' = phase /\ req[r].pc \in EnsurePcs
    BY EnsureMoves DEF CalmInv, OwnProcess
  <1>2. raced => raced'
    BY EnsureMoves
  <1>3. SUFFICES ASSUME ~raced'
                 PROVE  /\ \A p, q \in Reqs :
                             req'[q].pc \in RestartPcs /\ req'[p].pc \in EnsurePcs => p = q
                        /\ ServerCalm'
    BY <1>1 DEF CalmInv
  <1>4. /\ ServerCalm
        /\ \A p, q \in Reqs :
             req[q].pc \in RestartPcs /\ req[p].pc \in EnsurePcs => p = q
    BY <1>1, <1>2, <1>3 DEF CalmInv
  <1>5. ASSUME NEW pc \in RestartPcs, req[r].pc \in RestartPcs, Moved(r, pc),
               \A t \in Workers : ~Alive(t)', pc # "dropNone",
               pc \in {"stop", "take", "drop"} => handle'[Server] \in Workers,
               pc \in {"take", "drop", "retest", "go"} => ~serving'[Server],
               pc \in {"make", "start"} => serving'[Server],
               pc = "start" => handle'[Server] \in Workers /\ wpc'[handle'[Server]] = "created"
        PROVE  /\ \A p, q \in Reqs :
                    req'[q].pc \in RestartPcs /\ req'[p].pc \in EnsurePcs => p = q
               /\ ServerCalm'
    <2>1. req'[r].pc = pc /\ \A q \in Reqs \ {r} : req'[q] = req[q]
      BY <1>5 DEF Moved
    <2>2. \A q \in Reqs \ {r} : req'[q].pc \notin EnsurePcs
      BY <1>4, <1>5, <2>1
    <2>. QED
      <3>1. \A q \in Reqs : req'[q].pc \in RestartPcs => q = r
        BY <2>2
      <3>. QED
        BY <1>5, <2>1, <2>2, <3>1 DEF ServerCalm
  <1>6. ASSUME NEW pc \in {"idle", "alive", "test"}, req[r].pc \in {"check", "alive", "test"},
               Moved(r, pc), UNCHANGED <<handle, serving, wpc>>
        PROVE  /\ \A p, q \in Reqs :
                    req'[q].pc \in RestartPcs /\ req'[p].pc \in EnsurePcs => p = q
               /\ ServerCalm'
    <2>1. req'[r].pc = pc /\ \A q \in Reqs \ {r} : req'[q] = req[q]
      BY <1>6 DEF Moved
    <2>2. \A q \in Reqs : req[q].pc \notin RestartPcs /\ req'[q].pc \notin RestartPcs
      BY <1>4, <1>6, <2>1
    <2>. QED
      BY <1>4, <1>6, <2>2 DEF ServerCalm, Alive
  <1>7. req[r].pc \in {"check", "alive", "test"} =>
          /\ serving[Server] /\ handle[Server] \in Workers /\ handle[Server] # NoThread
          /\ \A t \in Workers : Alive(t) => t = handle[Server]
    BY <1>4, Alone DEF ServerCalm
  <1>8. req[r].pc \in RestartPcs =>
          /\ \A t \in Workers : ~Alive(t)
          /\ req[r].pc # "dropNone"
          /\ req[r].pc \in {"stop", "take", "drop"} =>
               handle[Server] \in Workers /\ handle[Server] # NoThread
          /\ req[r].pc \in {"take", "drop", "retest", "go"} => ~serving[Server]
          /\ req[r].pc \in {"make", "start"} => serving[Server]
          /\ req[r].pc = "start" =>
               /\ handle[Server] \in Workers /\ handle[Server] # NoThread
               /\ wpc[handle[Server]] = "created"
    BY <1>4, Alone DEF ServerCalm
  <1>9. Server \in Procs
    BY ConstantsAssumption
  <1>10. CASE CheckHandle(r)
    <2>1. /\ req[r].pc = "check" /\ Moved(r, "alive")
          /\ UNCHANGED <<handle, serving, wpc>>
      BY <1>7, <1>10, OneMoves DEF CheckHandle
    <2>. QED
      BY <1>6, <2>1
  <1>11. CASE CheckAlive(r)
    <2>1. CASE Alive(handle[Server])
      <3>1. /\ req[r].pc = "alive" /\ Moved(r, "test")
            /\ UNCHANGED <<handle, serving, wpc>>
        BY <1>7, <1>11, <2>1, OneMoves DEF CheckAlive
      <3>. QED
        BY <1>6, <3>1
    <2>2. CASE ~Alive(handle[Server])
      <3>1. /\ Goto(r, "stop") /\ UNCHANGED <<handle, serving, wpc>>
            /\ raced' = (raced \/ OtherAt(r, EnsurePcs))
        BY <1>7, <1>11, <2>2 DEF CheckAlive
      <3>2. req'[r].pc = "stop" /\ req[r].pc = "alive" /\ \A q \in Reqs \ {r} : req'[q] = req[q]
        BY <1>11, <3>1, OneMoves DEF CheckAlive, Moved
      <3>3. \A q \in Reqs \ {r} : req'[q].pc \notin EnsurePcs
        BY <1>3, <3>1, <3>2 DEF OtherAt
      <3>4. \A t \in Workers : ~Alive(t)'
        BY <1>7, <2>2, <3>1, <3>2 DEF Alive
      <3>5. \A q \in Reqs : req'[q].pc \in RestartPcs => q = r
        BY <3>3
      <3>. QED
        BY <1>7, <3>1, <3>2, <3>3, <3>4, <3>5 DEF ServerCalm
    <2>. QED
      BY <2>1, <2>2
  <1>12. CASE StopServing(r)
    <2>1. /\ req[r].pc = "stop" /\ Moved(r, "take") /\ UNCHANGED <<handle, wpc>>
          /\ ~serving'[Server]
      BY <1>9, <1>12, OneMoves DEF StopServing, TypeOK
    <2>. QED
      BY <1>5, <1>8, <2>1 DEF Alive
  <1>13. CASE TakeHandle(r)
    <2>1. /\ req[r].pc = "take" /\ Moved(r, "drop")
          /\ UNCHANGED <<handle, serving, wpc>>
      BY <1>8, <1>13, OneMoves DEF TakeHandle
    <2>. QED
      BY <1>5, <1>8, <2>1 DEF Alive
  <1>14. CASE DropHandle(r)
    <2>1. req[r].pc = "drop" /\ Moved(r, "retest") /\ UNCHANGED <<serving, wpc>>
      BY <1>8, <1>14, OneMoves DEF DropHandle
    <2>. QED
      BY <1>5, <1>8, <2>1 DEF Alive
  <1>15. CASE TestServing(r)
    <2>1. CASE req[r].pc = "test"
      <3>1. Moved(r, "idle") /\ UNCHANGED <<handle, serving, wpc>>
        BY <1>7, <1>15, <2>1, OneMoves DEF TestServing
      <3>. QED
        BY <1>6, <2>1, <3>1
    <2>2. CASE req[r].pc = "retest"
      <3>1. Moved(r, "go") /\ UNCHANGED <<handle, serving, wpc>>
        BY <1>8, <1>15, <2>2, OneMoves DEF TestServing
      <3>. QED
        BY <1>5, <1>8, <2>2, <3>1 DEF Alive
    <2>. QED
      BY <1>15, <2>1, <2>2 DEF TestServing
  <1>16. CASE GoServing(r)
    <2>1. /\ req[r].pc = "go" /\ Moved(r, "make") /\ UNCHANGED <<handle, wpc>>
          /\ serving'[Server]
      BY <1>9, <1>16, OneMoves DEF GoServing, TypeOK
    <2>. QED
      BY <1>5, <1>8, <2>1 DEF Alive
  <1>17. CASE MakeThread(r)
    <2>1. /\ NewThread(Server) \in Workers
          /\ handle' = [handle EXCEPT ![Server] = NewThread(Server)]
          /\ wpc' = [wpc EXCEPT ![NewThread(Server)] = "created"]
          /\ Moved(r, "start") /\ req[r].pc = "make" /\ serving' = serving
      BY <1>9, <1>17, OneMoves, NewThreadUnused, Alone DEF MakeThread
    <2>2. /\ handle'[Server] \in Workers /\ wpc'[handle'[Server]] = "created"
          /\ \A t \in Workers : ~Alive(t)'
      BY <1>8, <1>9, <2>1, Alone DEF TypeOK, Alive
    <2>. QED
      BY <1>5, <1>8, <2>1, <2>2
  <1>18. CASE StartThread(r)
    <2>1. /\ req[r].pc = "start" /\ Done(r) /\ UNCHANGED <<handle, serving>>
          /\ wpc' = [wpc EXCEPT ![handle[Server]] = "loop"]
      BY <1>8, <1>18 DEF StartThread
    <2>2. req'[r].pc = "idle" /\ \A q \in Reqs \ {r} : req'[q] = req[q]
      BY <2>1, OneMoves DEF Moved
    <2>3. \A q \in Reqs : req'[q].pc \notin EnsurePcs
      BY <1>4, <2>1, <2>2
    <2>. QED
      BY <1>8, <2>1, <2>3, Alone DEF ServerCalm, Alive, TypeOK
  <1>. QED
    BY <1>10, <1>11, <1>12, <1>13, <1>14, <1>15, <1>16, <1>17, <1>18 DEF EnsureWorker

\* Every step keeps CalmInv, when the server is the only process.
LEMMA CalmStep ==
    ASSUME Procs = {Server}, TypeOK, CalmInv, [Next]_vars
    PROVE  CalmInv'
  <1>. USE Alone
  <1>1. ASSUME NEW p \in Procs, BootReset(p) PROVE CalmInv'
    BY <1>1 DEF BootReset, CalmInv, TypeOK
  <1>2. ASSUME NEW p \in Procs, BootLoad(p) PROVE CalmInv'
    <2>1. /\ phase[Server] = "booting" /\ phase'[Server] = "up" /\ req' = req
          /\ raced' = raced /\ Unused(Server) # {} /\ serving'[Server]
          /\ handle' = [handle EXCEPT ![Server] = NewThread(Server)]
          /\ wpc' = [wpc EXCEPT ![NewThread(Server)] = "loop"]
      BY <1>2 DEF BootLoad, StartWorker, TypeOK
    <2>2. /\ handle'[Server] \in Workers /\ wpc'[handle'[Server]] = "loop"
          /\ \A t \in Workers : Alive(t)' => t = handle'[Server]
      BY <2>1, NewThreadUnused DEF CalmInv, TypeOK, Alive
    <2>3. \A r \in Reqs : req'[r].pc \notin EnsurePcs
      BY <2>1 DEF CalmInv, OwnProcess, EnsurePcs, RestartPcs
    <2>. QED
      BY <2>1, <2>2, <2>3 DEF CalmInv, ServerCalm, EnsurePcs
  <1>3. ASSUME NEW p \in Procs, Crash(p) PROVE CalmInv'
    BY <1>3 DEF Crash, ProcessGone, CalmInv, TypeOK, Idle, OwnProcess, EnsurePcs, RestartPcs
  <1>4. ASSUME NEW p \in Procs, ClearJobQueue(p) PROVE CalmInv'
    BY <1>4 DEF ClearJobQueue
  <1>5. ASSUME NEW p \in Procs, PurgeExit(p) PROVE CalmInv'
    BY <1>5
       DEF PurgeExit, ProcessGone, CalmInv, TypeOK, OwnProcess, EnsurePcs, RestartPcs
  <1>6. ASSUME NEW t \in Threads, WorkerDies(t) PROVE CalmInv'
    BY <1>6, CalmKept DEF WorkerDies, TypeOK
  <1>7. ASSUME NEW t \in Threads, LoopTop(t) PROVE CalmInv'
    BY <1>7, CalmKept DEF LoopTop, TypeOK
  <1>8. ASSUME NEW t \in Threads, PopValkey(t) PROVE CalmInv'
    BY <1>8, CalmKept DEF PopValkey, Hold, TypeOK
  <1>9. ASSUME NEW t \in Threads, PopMemory(t) PROVE CalmInv'
    BY <1>9, CalmKept DEF PopMemory, Hold, TypeOK
  <1>10. ASSUME NEW t \in Threads, SelectRow(t) PROVE CalmInv'
    BY <1>10, CalmKept DEF SelectRow, Release, TypeOK
  <1>11. ASSUME NEW t \in Threads, LoadHandlerFails(t) PROVE CalmInv'
    BY <1>11, CalmKept DEF LoadHandlerFails, Release, TypeOK
  <1>12. ASSUME NEW t \in Threads, Claim(t) PROVE CalmInv'
    BY <1>12, CalmKept DEF Claim, Release, TypeOK
  <1>13. ASSUME NEW t \in Threads, HandlerReturns(t) PROVE CalmInv'
    BY <1>13, CalmKept DEF HandlerReturns, Release, TypeOK
  <1>14. ASSUME NEW t \in Threads, JobRaises(t) PROVE CalmInv'
    BY <1>14, CalmKept DEF JobRaises, Release, TypeOK
  <1>15. ASSUME NEW r \in Reqs, SubmitInsert(r) PROVE CalmInv'
    <2>1. phase[Server] = "up"
      BY <1>15 DEF SubmitInsert, CalmInv, OwnProcess
    <2>. QED
      BY <1>15, <2>1, CalmKept DEF SubmitInsert, Start, TypeOK, EnsurePcs, RestartPcs
  <1>16. ASSUME NEW r \in Reqs, ResubmitWrite(r) PROVE CalmInv'
    <2>1. phase[Server] = "up"
      BY <1>16 DEF ResubmitWrite, CalmInv, OwnProcess
    <2>. QED
      BY <1>16, <2>1, CalmKept DEF ResubmitWrite, Start, TypeOK, EnsurePcs, RestartPcs
  <1>17. ASSUME NEW r \in Reqs, Enqueue(r) PROVE CalmInv'
    <2>1. phase[Server] = "up"
      BY <1>17 DEF Enqueue, CalmInv, OwnProcess
    <2>. QED
      BY <1>17, <2>1, CalmKept DEF Enqueue, Start, TypeOK, EnsurePcs, RestartPcs
  <1>18. ASSUME NEW r \in Reqs, Push(r) PROVE CalmInv'
    <2>1. phase[Server] = "up" /\ phase' = phase
      BY <1>18 DEF Push, CalmInv, OwnProcess
    <2>2. /\ req[r].pc = "push" /\ req'[r].pc = "check"
          /\ \A q \in Reqs \ {r} : req'[q] = req[q]
          /\ raced' = (raced \/ OtherAt(r, RestartPcs))
          /\ UNCHANGED <<handle, serving, wpc>>
      BY <1>18 DEF Push, Start, TypeOK
    <2>3. SUFFICES ASSUME ~raced'
                   PROVE  /\ \A q, u \in Reqs :
                               req'[u].pc \in RestartPcs /\ req'[q].pc \in EnsurePcs => q = u
                          /\ ServerCalm'
      BY <2>1 DEF CalmInv
    <2>4. ServerCalm /\ \A q \in Reqs : /\ req[q].pc \notin RestartPcs
                                        /\ req'[q].pc \notin RestartPcs
      BY <2>1, <2>2, <2>3 DEF CalmInv, OtherAt, RestartPcs
    <2>. QED
      BY <2>2, <2>4 DEF ServerCalm, Alive
  <1>19. ASSUME NEW r \in Reqs, CancelWrite(r) PROVE CalmInv'
    BY <1>19, CalmKept DEF CancelWrite, Done, Idle, TypeOK, EnsurePcs, RestartPcs
  <1>20. ASSUME NEW r \in Reqs, TuiCancelWrite(r) PROVE CalmInv'
    BY <1>20, CalmKept DEF TuiCancelWrite, Done, Idle, TypeOK, EnsurePcs, RestartPcs
  <1>21. ASSUME NEW r \in Reqs, NEW j \in Jobs, SubmitBegin(r, j) PROVE CalmInv'
    BY <1>21, CalmKept DEF SubmitBegin, Start, TypeOK, EnsurePcs, RestartPcs
  <1>22. ASSUME NEW r \in Reqs, NEW j \in Jobs, ResubmitBegin(r, j) PROVE CalmInv'
    BY <1>22, CalmKept DEF ResubmitBegin, Start, TypeOK, EnsurePcs, RestartPcs
  <1>23. ASSUME NEW r \in Reqs, NEW j \in Jobs, CancelBegin(r, j) PROVE CalmInv'
    BY <1>23, CalmKept DEF CancelBegin, Start, TypeOK, EnsurePcs, RestartPcs
  <1>24. ASSUME NEW r \in Reqs, NEW j \in Jobs, TuiCancelBegin(r, j) PROVE CalmInv'
    BY <1>24, CalmKept DEF TuiCancelBegin, Start, TypeOK, EnsurePcs, RestartPcs, OwnProcess
  <1>25. ASSUME NEW j \in Jobs, Delete(j) PROVE CalmInv'
    BY <1>25, CalmKept DEF Delete
  <1>26. ASSUME NEW j \in Jobs, OrphanExits(j) PROVE CalmInv'
    BY <1>26, CalmKept DEF OrphanExits
  <1>27. CASE ShutdownBegin
    BY <1>27, ConstantsAssumption
       DEF ShutdownBegin, CalmInv, TypeOK, OwnProcess, EnsurePcs, RestartPcs
  <1>28. CASE ShutdownExit
    BY <1>28, ConstantsAssumption
       DEF ShutdownExit, ProcessGone, CalmInv, TypeOK, OwnProcess, EnsurePcs, RestartPcs
  <1>29. ASSUME NEW t \in Threads, WorkerStops(t) PROVE CalmInv'
    BY <1>29, CalmKept DEF WorkerStops, TypeOK
  <1>30. CASE ValkeyDown
    BY <1>30, CalmKept DEF ValkeyDown
  <1>31. CASE ValkeyUp
    BY <1>31, CalmKept DEF ValkeyUp
  <1>32. CASE UNCHANGED vars
    BY <1>32, CalmKept DEF vars
  <1>33. ASSUME NEW t \in Threads, HandlerHangs(t) PROVE CalmInv'
    BY <1>33, CalmKept DEF HandlerHangs, TypeOK
  <1>34. ASSUME NEW r \in Reqs, EnsureWorker(r) PROVE CalmInv'
    BY <1>34, EnsureCalm
  <1>35. ASSUME NEW r \in Reqs, NEW j \in Jobs, ExternalWrite(r, j) PROVE CalmInv'
    BY <1>35, CalmKept DEF ExternalWrite, Start, TypeOK, EnsurePcs, RestartPcs, OwnProcess
  <1>36. ASSUME NEW r \in Reqs, ExternalPush(r) PROVE CalmInv'
    BY <1>36, CalmKept DEF ExternalPush, Done, Idle, TypeOK, EnsurePcs, RestartPcs
  <1>. QED
    BY <1>1, <1>2, <1>3, <1>4, <1>5, <1>6, <1>7, <1>8, <1>9, <1>10,
       <1>11, <1>12, <1>13, <1>14, <1>15, <1>16, <1>17, <1>18, <1>19, <1>20,
       <1>21, <1>22, <1>23, <1>24, <1>25, <1>26, <1>27, <1>28, <1>29, <1>30,
       <1>31, <1>32, <1>33, <1>34, <1>35, <1>36
       DEF Next, ProcStep, WorkerStep, RequestStep, RequestBegin

-----------------------------------------------------------------------------
(* No PENDING row is forgotten                                             *)

\* The server has the code in its hands, on no queue.
Held(j) ==
    \/ j \in stuck
    \/ \E t \in Workers : wpc[t] \in {"popped", "selected"} /\ cur[t] = j
    \/ \E r \in Reqs : req[r].pc = "enqueue" /\ req[r].job = j

\* As long as Valkey has not failed its list has the code; as long as no live
\* worker was replaced the in-memory queue has it.  Each queue by itself
\* remembers what the server was told: PendingQueued is not inductive because
\* a drained in-memory queue leaves a row to the other one.
Known(j) ==
    /\ ValkeySteady => Held(j) \/ Listed(j)
    /\ ~raced /\ j \notin outside => Held(j) \/ InQueue(j, memq[Server])

KnownInv ==
    /\ ValkeySteady => \A p \in Procs : vk[p] # "down"
    /\ phase[Server] = "up" => \A j \in Jobs : status[j] = "pending" => Known(j)

\* A step that loses neither the queues' entries nor the hands on the row.
LEMMA KnownKept ==
    ASSUME KnownInv, NEW k \in Jobs, phase[Server] = "up", status[k] = "pending",
           Held(k) => Held(k)', Listed(k) => Held(k)' \/ Listed(k)',
           InQueue(k, memq[Server]) => Held(k)' \/ InQueue(k, memq'[Server]),
           ValkeySteady' => ValkeySteady, raced => raced', k \in outside => k \in outside'
    PROVE  Known(k)'
  BY DEF KnownInv, Known

\* The client of a Valkey that has never failed is not cached as unavailable.
LEMMA SteadyStep ==
    ASSUME TypeOK, KnownInv, [Next]_vars, ValkeySteady'
    PROVE  ValkeySteady /\ \A p \in Procs : vk'[p] # "down"
  <1>1. ValkeySteady
    <2>1. CASE ValkeyUp
      BY <2>1 DEF ValkeyUp, Spend, ValkeySteady, TypeOK, Events
    <2>2. CASE ~ValkeyUp
      <3>1. valkey' = valkey \/ valkey' = "down"
        BY <2>2 DEF Next, ProcStep, WorkerStep, RequestStep, RequestBegin, BootReset, BootLoad,
           Crash, ProcessGone, ClearJobQueue, PurgeExit, WorkerDies, LoopTop, PopValkey,
           PopMemory, SelectRow, LoadHandlerFails, Claim, HandlerReturns, JobRaises,
           SubmitInsert, ResubmitWrite, Enqueue, Push, CancelWrite, TuiCancelWrite,
           SubmitBegin, ResubmitBegin, CancelBegin, TuiCancelBegin, Delete, OrphanExits,
           ShutdownBegin, ShutdownExit, WorkerStops, ValkeyDown, vars, HandlerHangs,
           EnsureWorker, ExternalWrite, ExternalPush
      <3>2. used' = used \/ \E e \in Events : Spend(e)
        BY <2>2 DEF Next, ProcStep, WorkerStep, RequestStep, RequestBegin, BootReset, BootLoad,
           Crash, ProcessGone, ClearJobQueue, PurgeExit, WorkerDies, LoopTop, PopValkey,
           PopMemory, SelectRow, LoadHandlerFails, Claim, HandlerReturns, JobRaises,
           SubmitInsert, ResubmitWrite, Enqueue, Push, CancelWrite, TuiCancelWrite,
           SubmitBegin, ResubmitBegin, CancelBegin, TuiCancelBegin, Delete, OrphanExits,
           ShutdownBegin, ShutdownExit, WorkerStops, ValkeyDown, vars, HandlerHangs,
           EnsureWorker, ExternalWrite, ExternalPush, Events
      <3>3. used'["valkey"] = 0 => used["valkey"] = 0
        BY <3>2 DEF Spend, TypeOK, Events
      <3>. QED
        BY <3>1, <3>3 DEF ValkeySteady
    <2>. QED
      BY <2>1, <2>2
  <1>2. \A p \in Procs : vk[p] # "down"
    BY <1>1 DEF KnownInv
  <1>3. \A p \in Procs : Cache(p) => \A q \in Procs : vk'[q] # "down"
    BY <1>1, <1>2 DEF Cache, Available, ValkeySteady, TypeOK
  <1>4. \/ vk' = vk
        \/ \E p \in Procs : Cache(p)
        \/ \E p \in Procs : vk' = [vk EXCEPT ![p] = "unset"]
    BY Homes, ConstantsAssumption
       DEF Next, ProcStep, WorkerStep, RequestStep, RequestBegin, BootReset, BootLoad,
           Crash, ProcessGone, ClearJobQueue, PurgeExit, WorkerDies, LoopTop, PopValkey,
           PopMemory, SelectRow, LoadHandlerFails, Claim, HandlerReturns, JobRaises,
           SubmitInsert, ResubmitWrite, Enqueue, Push, CancelWrite, TuiCancelWrite,
           SubmitBegin, ResubmitBegin, CancelBegin, TuiCancelBegin, Delete, OrphanExits,
           ShutdownBegin, ShutdownExit, WorkerStops, ValkeyDown, ValkeyUp, vars,
           HandlerHangs, EnsureWorker, ExternalWrite, ExternalPush, QueuePush
  <1>. QED
    BY <1>1, <1>2, <1>3, <1>4 DEF TypeOK

\* Every step of the server keeps its hands on the rows it knows.
LEMMA KnownStep ==
    ASSUME Procs = {Server}, TypeOK, CalmInv, KnownInv, [Next]_vars,
           NEW k \in Jobs, phase'[Server] = "up", status'[k] = "pending"
    PROVE  Known(k)'
  <1>. USE Alone
  <1>1. ASSUME NEW p \in Procs, BootReset(p) PROVE Known(k)'
    BY <1>1 DEF BootReset, TypeOK
  <1>2. ASSUME NEW p \in Procs, BootLoad(p) PROVE Known(k)'
    <2>1. PICK s \in Orders(Pending) :
            /\ memq' = [memq EXCEPT ![p] = s]
            /\ IF s = <<>> THEN UNCHANGED <<vk, vq>> ELSE QueuePush(p, s)
      BY <1>2 DEF BootLoad
    <2>2. k \in Pending /\ p = Server /\ valkey' = valkey /\ used' = used
      BY <1>2 DEF BootLoad, Pending
    <2>3. InQueue(k, s) /\ s \in Seq(Jobs)
      BY <2>2, OrdersType DEF Pending
    <2>4. InQueue(k, memq'[Server])
      BY <2>1, <2>2, <2>3 DEF TypeOK
    <2>5. ASSUME ValkeySteady' PROVE InQueue(k, vq')
      <3>1. Reachable(Server)
        BY <2>2, <2>5, SteadyStep DEF KnownInv, Reachable, Available, ValkeySteady, TypeOK
      <3>2. vq' = vq \o s
        BY <2>1, <2>2, <2>3, <3>1 DEF QueuePush, InQueue
      <3>3. vq \in Seq(Jobs)
        BY DEF TypeOK
      <3>. QED
        BY <2>3, <3>2, <3>3, InQueueConcat
    <2>. QED
      BY <2>4, <2>5 DEF Known, Listed
  <1>3. ASSUME NEW p \in Procs, Crash(p) PROVE Known(k)'
    BY <1>3 DEF Crash, ProcessGone, TypeOK
  <1>4. ASSUME NEW p \in Procs, ClearJobQueue(p) PROVE Known(k)'
    BY <1>4 DEF ClearJobQueue
  <1>5. ASSUME NEW p \in Procs, PurgeExit(p) PROVE Known(k)'
    BY <1>5 DEF PurgeExit, ProcessGone, TypeOK
  <1>6. ASSUME NEW t \in Threads, WorkerDies(t) PROVE Known(k)'
    BY <1>6, KnownKept DEF WorkerDies, TypeOK, Held, Listed, ValkeySteady, Spend, Events
  <1>7. ASSUME NEW t \in Threads, LoopTop(t) PROVE Known(k)'
    BY <1>7, KnownKept DEF LoopTop, TypeOK, Held, Listed, ValkeySteady
  <1>8. ASSUME NEW t \in Threads, PopValkey(t) PROVE Known(k)'
    <2>1. CASE Reachable(Home(t)) /\ vq # <<>>
      <3>1. vq' = Tail(vq) /\ Hold(t, Head(vq)) /\ vq \in Seq(Jobs)
        BY <1>8, <2>1 DEF PopValkey, TypeOK
      <3>2. InQueue(k, vq) => k = Head(vq) \/ InQueue(k, vq')
        BY <2>1, <3>1, InQueueTail
      <3>3. k = Head(vq) => Held(k)'
        BY <1>8, <3>1 DEF Hold, Held, TypeOK
      <3>4. Held(k) => Held(k)'
        BY <1>8, <3>1 DEF PopValkey, Hold, Held, TypeOK
      <3>. QED
        BY <1>8, <3>2, <3>3, <3>4, KnownKept DEF PopValkey, Listed, ValkeySteady
    <2>2. CASE ~(Reachable(Home(t)) /\ vq # <<>>)
      BY <1>8, <2>2, KnownKept DEF PopValkey, TypeOK, Held, Listed, ValkeySteady
    <2>. QED
      BY <2>1, <2>2
  <1>9. ASSUME NEW t \in Threads, PopMemory(t) PROVE Known(k)'
    <2>1. CASE memq[Server] # <<>>
      <3>1. /\ memq[Server] \in Seq(Jobs) /\ memq'[Server] = Tail(memq[Server])
            /\ Hold(t, Head(memq[Server]))
        BY <1>9, <2>1 DEF PopMemory, TypeOK
      <3>2. InQueue(k, memq[Server]) => k = Head(memq[Server]) \/ InQueue(k, memq'[Server])
        BY <2>1, <3>1, InQueueTail
      <3>3. k = Head(memq[Server]) => Held(k)'
        BY <1>9, <3>1 DEF Hold, Held, TypeOK
      <3>4. Held(k) => Held(k)'
        BY <1>9, <3>1 DEF PopMemory, Hold, Held, TypeOK
      <3>. QED
        BY <1>9, <3>2, <3>3, <3>4, KnownKept DEF PopMemory, Listed, ValkeySteady
    <2>2. CASE memq[Server] = <<>>
      BY <1>9, <2>2, KnownKept DEF PopMemory, TypeOK, Held, Listed, ValkeySteady
    <2>. QED
      BY <2>1, <2>2
  <1>10. ASSUME NEW t \in Threads, SelectRow(t) PROVE Known(k)'
    BY <1>10, KnownKept DEF SelectRow, Release, TypeOK, Held, Listed, ValkeySteady
  <1>11. ASSUME NEW t \in Threads, LoadHandlerFails(t) PROVE Known(k)'
    BY <1>11, KnownKept
       DEF LoadHandlerFails, SetStatus, Release, TypeOK, Held, Listed, ValkeySteady
  <1>12. ASSUME NEW t \in Threads, Claim(t) PROVE Known(k)'
    <2>1. phase[Server] = "up" /\ status[k] = "pending" /\ cur[t] # k
      BY <1>12 DEF Claim, TypeOK
    <2>2. Held(k) => Held(k)'
      BY <1>12, <2>1 DEF Claim, Release, TypeOK, Held
    <2>. QED
      BY <1>12, <2>1, <2>2, KnownKept DEF Claim, Listed, ValkeySteady
  <1>13. ASSUME NEW t \in Threads, HandlerReturns(t) PROVE Known(k)'
    BY <1>13, KnownKept
       DEF HandlerReturns, SetStatus, Release, TypeOK, Held, Listed, ValkeySteady, Executing
  <1>14. ASSUME NEW t \in Threads, JobRaises(t) PROVE Known(k)'
    <2>1. phase[Server] = "up" /\ status[k] = "pending"
      BY <1>14 DEF JobRaises, SetStatus, TypeOK, Executing
    <2>2. Held(k) => Held(k)'
      BY <1>14 DEF JobRaises, SetStatus, Release, TypeOK, Executing, Held
    <2>3. ValkeySteady' => ValkeySteady
      BY SteadyStep
    <2>. QED
      BY <1>14, <2>1, <2>2, <2>3, KnownKept DEF JobRaises, Listed
  <1>15. ASSUME NEW r \in Reqs, SubmitInsert(r) PROVE Known(k)'
    <2>1. CASE k = req[r].job
      BY <1>15, <2>1 DEF SubmitInsert, Start, TypeOK, Known, Held
    <2>2. CASE k # req[r].job
      BY <1>15, <2>2, KnownKept DEF SubmitInsert, Start, TypeOK, Held, Listed, ValkeySteady
    <2>. QED
      BY <2>1, <2>2
  <1>16. ASSUME NEW r \in Reqs, ResubmitWrite(r) PROVE Known(k)'
    <2>1. CASE k = req[r].job
      BY <1>16, <2>1 DEF ResubmitWrite, Start, TypeOK, Known, Held
    <2>2. CASE k # req[r].job
      BY <1>16, <2>2, KnownKept
         DEF ResubmitWrite, SetStatus, Start, TypeOK, Held, Listed, ValkeySteady
    <2>. QED
      BY <2>1, <2>2
  <1>17. ASSUME NEW r \in Reqs, Enqueue(r) PROVE Known(k)'
    <2>1. /\ memq[Server] \in Seq(Jobs) /\ req[r].job \in Jobs
          /\ memq'[Server] = Append(memq[Server], req[r].job)
      BY <1>17 DEF Enqueue, TypeOK
    <2>2. InQueue(k, memq'[Server]) <=> k = req[r].job \/ InQueue(k, memq[Server])
      BY <2>1, InQueueAppend
    <2>3. k = req[r].job => Listed(k)'
      BY <1>17 DEF Enqueue, Start, TypeOK, Listed
    <2>4. k # req[r].job => (Held(k) => Held(k)') /\ (Listed(k) => Listed(k)')
      BY <1>17 DEF Enqueue, Start, TypeOK, Held, Listed
    <2>. QED
      BY <1>17, <2>2, <2>3, <2>4, KnownKept DEF Enqueue, Known, ValkeySteady
  <1>18. ASSUME NEW r \in Reqs, Push(r) PROVE Known(k)'
    <2>1. /\ vq \in Seq(Jobs) /\ req[r].job \in Jobs /\ UNCHANGED <<valkey, used, phase>>
          /\ Server \in Procs
      BY <1>18, ConstantsAssumption DEF Push, TypeOK
    <2>2. Held(k) => Held(k)'
      BY <1>18 DEF Push, Start, TypeOK, Held
    <2>3. ValkeySteady => (Listed(k) => Listed(k)')
      <3>1. SUFFICES ASSUME ValkeySteady PROVE Listed(k) => Listed(k)'
        OBVIOUS
      <3>2. Reachable(Server)
        BY <2>1, <3>1 DEF KnownInv, Reachable, Available, ValkeySteady, TypeOK
      <3>3. vq' = vq \o <<req[r].job>>
        BY <1>18, <3>2 DEF Push, QueuePush
      <3>4. InQueue(k, vq') <=> k = req[r].job \/ InQueue(k, vq)
        <4>1. vq' = Append(vq, req[r].job)
          BY <2>1, <3>3
        <4>. QED
          BY <2>1, <4>1, InQueueAppend
      <3>. QED
        BY <1>18, <3>4 DEF Push, Start, TypeOK, Listed
    <2>4. /\ phase[Server] = "up" /\ status[k] = "pending" /\ memq' = memq
          /\ outside' = outside /\ (raced => raced')
      BY <1>18 DEF Push
    <2>5. ValkeySteady' <=> ValkeySteady
      BY <2>1 DEF ValkeySteady
    <2>. QED
      BY <2>2, <2>3, <2>4, <2>5 DEF KnownInv, Known
  <1>19. ASSUME NEW r \in Reqs, CancelWrite(r) PROVE Known(k)'
    BY <1>19, KnownKept DEF CancelWrite, Done, Idle, TypeOK, Held, Listed, ValkeySteady
  <1>20. ASSUME NEW r \in Reqs, TuiCancelWrite(r) PROVE Known(k)'
    BY <1>20, KnownKept
       DEF TuiCancelWrite, SetStatus, Done, Idle, TypeOK, Held, Listed, ValkeySteady
  <1>21. ASSUME NEW r \in Reqs, NEW j \in Jobs, SubmitBegin(r, j) PROVE Known(k)'
    BY <1>21, KnownKept
       DEF SubmitBegin, Start, TypeOK, Held, Listed, ValkeySteady, Spend, Events
  <1>22. ASSUME NEW r \in Reqs, NEW j \in Jobs, ResubmitBegin(r, j) PROVE Known(k)'
    BY <1>22, KnownKept
       DEF ResubmitBegin, Start, TypeOK, Held, Listed, ValkeySteady, Spend, Events
  <1>23. ASSUME NEW r \in Reqs, NEW j \in Jobs, CancelBegin(r, j) PROVE Known(k)'
    BY <1>23, KnownKept DEF CancelBegin, Start, TypeOK, Held, Listed, ValkeySteady
  <1>24. ASSUME NEW r \in Reqs, NEW j \in Jobs, TuiCancelBegin(r, j) PROVE Known(k)'
    BY <1>24, KnownKept DEF TuiCancelBegin, Start, TypeOK, Held, Listed, ValkeySteady
  <1>25. ASSUME NEW j \in Jobs, Delete(j) PROVE Known(k)'
    BY <1>25, KnownKept DEF Delete, TypeOK, Held, Listed, ValkeySteady
  <1>26. ASSUME NEW j \in Jobs, OrphanExits(j) PROVE Known(k)'
    BY <1>26, KnownKept DEF OrphanExits, Held, Listed, ValkeySteady
  <1>27. CASE ShutdownBegin
    BY <1>27, ConstantsAssumption DEF ShutdownBegin, TypeOK
  <1>28. CASE ShutdownExit
    BY <1>28, ConstantsAssumption DEF ShutdownExit, ProcessGone, TypeOK
  <1>29. ASSUME NEW t \in Threads, WorkerStops(t) PROVE Known(k)'
    <2>1. phase[Server] = "up" /\ status[k] = "pending" /\ Alive(t)
      BY <1>29 DEF WorkerStops, Alive
    <2>2. raced
      <3>1. ASSUME ~raced PROVE FALSE
        <4>1. ServerCalm
          BY <2>1, <3>1 DEF CalmInv
        <4>2. serving[Server] /\ handle[Server] = t
          BY <2>1, <4>1 DEF ServerCalm
        <4>. QED
          BY <1>29, <4>2 DEF WorkerStops, Wanted
      <3>. QED
        BY <3>1
    <2>3. (Held(k) => Held(k)') /\ (Listed(k) => Listed(k)') /\ raced' = raced
      BY <1>29 DEF WorkerStops, TypeOK, Held, Listed
    <2>4. ValkeySteady' => ValkeySteady
      BY SteadyStep
    <2>. QED
      BY <2>1, <2>2, <2>3, <2>4 DEF KnownInv, Known
  <1>30. CASE ValkeyDown
    BY <1>30, KnownKept DEF ValkeyDown, Held, Listed, ValkeySteady
  <1>31. CASE ValkeyUp
    <2>1. ~ValkeySteady'
      BY <1>31 DEF ValkeyUp, Spend, ValkeySteady, TypeOK, Events
    <2>2. Held(k)' <=> Held(k)
      BY <1>31 DEF ValkeyUp, Held
    <2>. QED
      BY <1>31, <2>1, <2>2 DEF ValkeyUp, KnownInv, Known
  <1>32. CASE UNCHANGED vars
    BY <1>32, KnownKept DEF vars, Held, Listed, ValkeySteady
  <1>33. ASSUME NEW t \in Threads, HandlerHangs(t) PROVE Known(k)'
    BY <1>33, KnownKept
       DEF HandlerHangs, TypeOK, Held, Listed, ValkeySteady, Spend, Events
  <1>34. ASSUME NEW r \in Reqs, EnsureWorker(r) PROVE Known(k)'
    <2>1. (Held(k) => Held(k)') /\ (Listed(k) => Listed(k)') /\ (raced => raced')
      <3>1. vq' = vq /\ cur' = cur /\ stuck' = stuck
        BY <1>34 DEF EnsureWorker
      <3>2. req[r].pc \in EnsurePcs /\ (raced => raced')
        BY <1>34, EnsureMoves
      <3>3. \A q \in Reqs \ {r} : req'[q] = req[q]
        BY <1>34, OneMoves
           DEF Moved, EnsureWorker, CheckHandle, CheckAlive, StopServing, TakeHandle,
               DropHandle, TestServing, GoServing, MakeThread, StartThread
      <3>4. \A t \in Workers : wpc[t] \in {"popped", "selected"} => wpc'[t] = wpc[t]
        BY <1>34, NewThreadUnused, ConstantsAssumption
           DEF EnsureWorker, CheckHandle, CheckAlive, StopServing, TakeHandle,
               DropHandle, TestServing, GoServing, MakeThread, StartThread, TypeOK
      <3>. QED
        BY <3>1, <3>2, <3>3, <3>4 DEF Held, Listed, EnsurePcs, RestartPcs
    <2>. QED
      BY <1>34, <2>1, KnownKept DEF EnsureWorker, ValkeySteady
  <1>35. ASSUME NEW r \in Reqs, NEW j \in Jobs, ExternalWrite(r, j) PROVE Known(k)'
    <2>1. CASE k = j
      BY <1>35, <2>1 DEF ExternalWrite, Start, TypeOK, Known, Listed
    <2>2. CASE k # j
      <3>1. (Held(k) => Held(k)') /\ (Listed(k) => Listed(k)')
        BY <1>35, <2>2 DEF ExternalWrite, Start, TypeOK, Held, Listed
      <3>2. ValkeySteady' => ValkeySteady
        BY SteadyStep
      <3>. QED
        BY <1>35, <2>2, <3>1, <3>2, KnownKept DEF ExternalWrite, TypeOK
    <2>. QED
      BY <2>1, <2>2
  <1>36. ASSUME NEW r \in Reqs, ExternalPush(r) PROVE Known(k)'
    <2>1. Held(k) => Held(k)'
      BY <1>36 DEF ExternalPush, Done, Idle, TypeOK, Held
    <2>2. ValkeySteady => (Listed(k) => Listed(k)')
      <3>1. SUFFICES ASSUME ValkeySteady PROVE Listed(k) => Listed(k)'
        OBVIOUS
      <3>2. vq \in Seq(Jobs) /\ req[r].job \in Jobs /\ vq' = Append(vq, req[r].job)
        BY <1>36, <3>1 DEF ExternalPush, ValkeySteady, TypeOK
      <3>3. InQueue(k, vq') <=> k = req[r].job \/ InQueue(k, vq)
        BY <3>2, InQueueAppend
      <3>. QED
        BY <1>36, <3>3 DEF ExternalPush, Done, Idle, TypeOK, Listed
    <2>3. ValkeySteady' => ValkeySteady
      BY SteadyStep
    <2>. QED
      BY <1>36, <2>1, <2>2, <2>3 DEF ExternalPush, KnownInv, Known
  <1>. QED
    BY <1>1, <1>2, <1>3, <1>4, <1>5, <1>6, <1>7, <1>8, <1>9, <1>10,
       <1>11, <1>12, <1>13, <1>14, <1>15, <1>16, <1>17, <1>18, <1>19, <1>20,
       <1>21, <1>22, <1>23, <1>24, <1>25, <1>26, <1>27, <1>28, <1>29, <1>30,
       <1>31, <1>32, <1>33, <1>34, <1>35, <1>36
       DEF Next, ProcStep, WorkerStep, RequestStep, RequestBegin

\* While the server is up, no PENDING job is forgotten: for every number of
\* jobs, requests and threads, any number of crashes, Valkey outages and dead
\* or racing worker threads, as long as no second process opens the queue.
\* What the two exceptions leave to the Valkey list is on it for as long as
\* Valkey has not failed.
THEOREM PendingNeverForgotten ==
    ASSUME Procs = {Server}
    PROVE  Spec => []PendingQueued
  <1>1. Init => CalmInv /\ KnownInv
    BY ConstantsAssumption, Alone
       DEF Init, CalmInv, KnownInv, Idle, EnsurePcs, RestartPcs
  <1>2. TypeOK /\ CalmInv /\ KnownInv /\ [Next]_vars => CalmInv' /\ KnownInv'
    <2>. SUFFICES ASSUME TypeOK, CalmInv, KnownInv, [Next]_vars
                  PROVE  CalmInv' /\ KnownInv'
      OBVIOUS
    <2>1. ValkeySteady' => \A p \in Procs : vk'[p] # "down"
      BY SteadyStep
    <2>. QED
      BY <2>1, CalmStep, KnownStep DEF KnownInv
  <1>3. KnownInv => PendingQueued
    BY DEF KnownInv, Known, PendingQueued, Remembered, Held
  <1>. QED
    BY <1>1, <1>2, <1>3, TypeCorrect, PTL DEF Spec

-----------------------------------------------------------------------------
(* A PROCESSING row is being executed                                      *)

\* Somebody executes the job, or its FAILED update was lost.
Owned(j) == j \in stuck \/ \E t \in Workers : wpc[t] \in Executing /\ cur[t] = j

\* ProcessingOwned alone is not inductive: it says nothing of a process that
\* is down or booting, and becomes true at BootLoad only because BootReset
\* has left no row PROCESSING and no thread runs in between.
OwnedInv ==
    /\ phase[Server] \in {"off", "crashed", "booting"} => \A t \in Workers : wpc[t] = "none"
    /\ phase[Server] = "booting" => \A j \in Jobs : status[j] # "processing"
    /\ phase[Server] \in {"up", "stopping"} =>
         \A j \in Jobs : status[j] = "processing" => Owned(j)

\* A step in which no thread is started, no row becomes PROCESSING and no
\* PROCESSING row loses its owner.
LEMMA OwnedKept ==
    ASSUME OwnedInv, phase' = phase,
           \A t \in Workers : wpc[t] = "none" => wpc'[t] = "none",
           \A j \in Jobs : status'[j] = "processing" =>
               status[j] = "processing" /\ (Owned(j) => Owned(j)')
    PROVE  OwnedInv'
  BY DEF OwnedInv

\* The same for a step of the server that starts threads.
LEMMA OwnedKeptUp ==
    ASSUME OwnedInv, phase' = phase, phase[Server] \in {"up", "stopping"},
           \A j \in Jobs : status'[j] = "processing" =>
               status[j] = "processing" /\ (Owned(j) => Owned(j)')
    PROVE  OwnedInv'
  BY DEF OwnedInv

\* Every step keeps OwnedInv, when the server is the only process.
LEMMA OwnedStep ==
    ASSUME Procs = {Server}, TypeOK, CalmInv, OwnedInv, [Next]_vars
    PROVE  OwnedInv'
  <1>. USE Alone
  <1>1. ASSUME NEW p \in Procs, BootReset(p) PROVE OwnedInv'
    BY <1>1 DEF OwnedInv, TypeOK, BootReset
  <1>2. ASSUME NEW p \in Procs, BootLoad(p) PROVE OwnedInv'
    BY <1>2 DEF OwnedInv, TypeOK, BootLoad
  <1>3. ASSUME NEW p \in Procs, Crash(p) PROVE OwnedInv'
    BY <1>3 DEF OwnedInv, TypeOK, Crash, ProcessGone
  <1>4. ASSUME NEW p \in Procs, ClearJobQueue(p) PROVE OwnedInv'
    BY <1>4 DEF ClearJobQueue
  <1>5. ASSUME NEW p \in Procs, PurgeExit(p) PROVE OwnedInv'
    BY <1>5 DEF OwnedInv, TypeOK, PurgeExit, ProcessGone
  <1>6. ASSUME NEW t \in Threads, WorkerDies(t) PROVE OwnedInv'
    BY <1>6, OwnedKept DEF WorkerDies, TypeOK, Owned, Executing
  <1>7. ASSUME NEW t \in Threads, LoopTop(t) PROVE OwnedInv'
    BY <1>7, OwnedKept DEF LoopTop, TypeOK, Owned, Executing
  <1>8. ASSUME NEW t \in Threads, PopValkey(t) PROVE OwnedInv'
    BY <1>8, OwnedKept DEF PopValkey, Hold, TypeOK, Owned, Executing
  <1>9. ASSUME NEW t \in Threads, PopMemory(t) PROVE OwnedInv'
    BY <1>9, OwnedKept DEF PopMemory, Hold, TypeOK, Owned, Executing
  <1>10. ASSUME NEW t \in Threads, SelectRow(t) PROVE OwnedInv'
    BY <1>10, OwnedKept DEF SelectRow, Release, TypeOK, Owned, Executing
  <1>11. ASSUME NEW t \in Threads, LoadHandlerFails(t) PROVE OwnedInv'
    BY <1>11, OwnedKept DEF LoadHandlerFails, SetStatus, Release, TypeOK, Owned, Executing
  <1>12. ASSUME NEW t \in Threads, Claim(t) PROVE OwnedInv'
    <2>1. /\ wpc[t] = "selected" /\ phase' = phase /\ stuck' = stuck
          /\ phase[Server] \notin {"off", "crashed", "booting"}
      BY <1>12 DEF Claim, OwnedInv
    <2>2. CASE status[cur[t]] = "pending"
      <3>1. /\ status' = [status EXCEPT ![cur[t]] = "processing"]
            /\ wpc' = [wpc EXCEPT ![t] = "running"] /\ cur' = cur
        BY <1>12, <2>2 DEF Claim
      <3>2. \A j \in Jobs : status'[j] = "processing" =>
              j = cur[t] \/ status[j] = "processing"
        BY <3>1 DEF TypeOK
      <3>3. \A j \in Jobs : j = cur[t] => Owned(j)'
        BY <3>1 DEF TypeOK, Owned, Executing
      <3>4. \A j \in Jobs : Owned(j) => Owned(j)'
        BY <2>1, <3>1 DEF TypeOK, Owned, Executing
      <3>. QED
        BY <2>1, <3>2, <3>3, <3>4 DEF OwnedInv
    <2>3. CASE status[cur[t]] # "pending"
      BY <1>12, <2>1, <2>3, OwnedKept DEF Claim, Release, TypeOK, Owned, Executing
    <2>. QED
      BY <2>2, <2>3
  <1>13. ASSUME NEW t \in Threads, HandlerReturns(t) PROVE OwnedInv'
    <2>1. \A j \in Jobs : status'[j] = "processing" => status[j] = "processing" /\ j # cur[t]
      BY <1>13 DEF HandlerReturns, SetStatus, TypeOK, Executing
    <2>. QED
      BY <1>13, <2>1, OwnedKept DEF HandlerReturns, Release, TypeOK, Owned, Executing
  <1>14. ASSUME NEW t \in Threads, JobRaises(t) PROVE OwnedInv'
    <2>1. cur[t] \in Jobs /\ stuck \subseteq stuck'
      BY <1>14 DEF JobRaises, TypeOK, Executing
    <2>2. \A j \in Jobs : status'[j] = "processing" =>
            status[j] = "processing" /\ (j # cur[t] \/ j \in stuck')
      BY <1>14, <2>1 DEF JobRaises, SetStatus, TypeOK
    <2>3. \A j \in Jobs : Owned(j) /\ j # cur[t] => Owned(j)'
      BY <1>14, <2>1 DEF JobRaises, Release, TypeOK, Owned, Executing
    <2>4. \A j \in Jobs : j \in stuck' => Owned(j)'
      BY DEF Owned
    <2>. QED
      BY <1>14, <2>2, <2>3, <2>4, OwnedKept DEF JobRaises, Release, TypeOK
  <1>15. ASSUME NEW r \in Reqs, SubmitInsert(r) PROVE OwnedInv'
    BY <1>15, OwnedKept DEF SubmitInsert, Start, TypeOK, Owned, Executing
  <1>16. ASSUME NEW r \in Reqs, ResubmitWrite(r) PROVE OwnedInv'
    BY <1>16, OwnedKept DEF ResubmitWrite, SetStatus, Start, TypeOK, Owned, Executing
  <1>17. ASSUME NEW r \in Reqs, Enqueue(r) PROVE OwnedInv'
    BY <1>17, OwnedKept DEF Enqueue, TypeOK, Owned, Executing
  <1>18. ASSUME NEW r \in Reqs, Push(r) PROVE OwnedInv'
    BY <1>18, OwnedKept DEF Push, TypeOK, Owned, Executing
  <1>19. ASSUME NEW r \in Reqs, CancelWrite(r) PROVE OwnedInv'
    BY <1>19, OwnedKept DEF CancelWrite, TypeOK, Owned, Executing
  <1>20. ASSUME NEW r \in Reqs, TuiCancelWrite(r) PROVE OwnedInv'
    BY <1>20, OwnedKept DEF TuiCancelWrite, SetStatus, TypeOK, Owned, Executing
  <1>21. ASSUME NEW r \in Reqs, NEW j \in Jobs, SubmitBegin(r, j) PROVE OwnedInv'
    BY <1>21, OwnedKept DEF SubmitBegin, TypeOK, Owned, Executing
  <1>22. ASSUME NEW r \in Reqs, NEW j \in Jobs, ResubmitBegin(r, j) PROVE OwnedInv'
    BY <1>22, OwnedKept DEF ResubmitBegin, TypeOK, Owned, Executing
  <1>23. ASSUME NEW r \in Reqs, NEW j \in Jobs, CancelBegin(r, j) PROVE OwnedInv'
    BY <1>23, OwnedKept DEF CancelBegin, TypeOK, Owned, Executing
  <1>24. ASSUME NEW r \in Reqs, NEW j \in Jobs, TuiCancelBegin(r, j) PROVE OwnedInv'
    BY <1>24, OwnedKept DEF TuiCancelBegin, TypeOK, Owned, Executing
  <1>25. ASSUME NEW j \in Jobs, Delete(j) PROVE OwnedInv'
    BY <1>25, OwnedKept DEF Delete, TypeOK, Owned
  <1>26. ASSUME NEW j \in Jobs, OrphanExits(j) PROVE OwnedInv'
    BY <1>26, OwnedKept DEF OrphanExits, TypeOK, Owned
  <1>27. CASE ShutdownBegin
    BY <1>27, ConstantsAssumption DEF ShutdownBegin, OwnedInv, TypeOK, Owned
  <1>28. CASE ShutdownExit
    BY <1>28, ConstantsAssumption DEF ShutdownExit, ProcessGone, OwnedInv, TypeOK
  <1>29. ASSUME NEW t \in Threads, WorkerStops(t) PROVE OwnedInv'
    BY <1>29, OwnedKept DEF WorkerStops, TypeOK, Owned, Executing
  <1>30. CASE ValkeyDown
    BY <1>30, OwnedKept DEF ValkeyDown, Owned
  <1>31. CASE ValkeyUp
    BY <1>31, OwnedKept DEF ValkeyUp, Owned
  <1>32. CASE UNCHANGED vars
    BY <1>32, OwnedKept DEF vars, Owned
  <1>33. ASSUME NEW t \in Threads, HandlerHangs(t) PROVE OwnedInv'
    BY <1>33, OwnedKept DEF HandlerHangs, TypeOK, Owned, Executing
  <1>34. ASSUME NEW r \in Reqs, EnsureWorker(r) PROVE OwnedInv'
    <2>1. phase[Server] = "up"
      BY <1>34, EnsureMoves DEF CalmInv, OwnProcess, EnsurePcs, RestartPcs
    <2>2. \A t \in Workers : wpc[t] \in Executing => wpc'[t] = wpc[t]
      BY <1>34, NewThreadUnused, ConstantsAssumption
         DEF EnsureWorker, CheckHandle, CheckAlive, StopServing, TakeHandle, DropHandle,
             TestServing, GoServing, MakeThread, StartThread, TypeOK, Executing
    <2>3. \A j \in Jobs : Owned(j) => Owned(j)'
      BY <1>34, <2>2 DEF EnsureWorker, Owned
    <2>. QED
      BY <1>34, <2>1, <2>3, OwnedKeptUp DEF EnsureWorker
  <1>35. ASSUME NEW r \in Reqs, NEW j \in Jobs, ExternalWrite(r, j) PROVE OwnedInv'
    BY <1>35, OwnedKept DEF ExternalWrite, TypeOK, Owned, Executing
  <1>36. ASSUME NEW r \in Reqs, ExternalPush(r) PROVE OwnedInv'
    BY <1>36, OwnedKept DEF ExternalPush, TypeOK, Owned, Executing
  <1>. QED
    BY <1>1, <1>2, <1>3, <1>4, <1>5, <1>6, <1>7, <1>8, <1>9, <1>10,
       <1>11, <1>12, <1>13, <1>14, <1>15, <1>16, <1>17, <1>18, <1>19, <1>20,
       <1>21, <1>22, <1>23, <1>24, <1>25, <1>26, <1>27, <1>28, <1>29, <1>30,
       <1>31, <1>32, <1>33, <1>34, <1>35, <1>36
       DEF Next, ProcStep, WorkerStep, RequestStep, RequestBegin

\* While the server is up, a PROCESSING row is one its worker thread is
\* executing, or one whose FAILED update was lost, after any number of
\* crashes and restarts, as long as no second process opens the queue.
THEOREM ProcessingHasOwner ==
    ASSUME Procs = {Server}
    PROVE  Spec => []ProcessingOwned
  <1>1. Init => CalmInv /\ OwnedInv
    BY ConstantsAssumption, Alone
       DEF Init, CalmInv, OwnedInv, Idle, EnsurePcs, RestartPcs
  <1>2. TypeOK /\ CalmInv /\ OwnedInv /\ [Next]_vars => CalmInv' /\ OwnedInv'
    BY CalmStep, OwnedStep
  <1>3. OwnedInv => ProcessingOwned
    BY Alone DEF OwnedInv, Owned, ProcessingOwned
  <1>. QED
    BY <1>1, <1>2, <1>3, TypeCorrect, PTL DEF Spec

-----------------------------------------------------------------------------
(* The queue implements the life cycle of a row                            *)

RowStep == [Lifecycle!LifecycleNext]_(Lifecycle!lifecycleVars)

\* A step that touches no row and ends no run leaves the life cycle alone.
LEMMA RunsGoOn ==
    ASSUME TypeOK, status' = status, wpc' \in [Threads -> WorkerPcs],
           \A t \in Threads : (wpc'[t] \in Executing) <=> (wpc[t] \in Executing),
           \A t \in Threads : wpc[t] \in Executing => cur'[t] = cur[t]
    PROVE  RowStep
  <1>1. Running' = Running
    BY DEF Running
  <1>. QED
    BY <1>1 DEF RowStep, Lifecycle!lifecycleVars

\* A process that is gone ends its threads' runs without an outcome.
LEMMA RunsEnd ==
    ASSUME TypeOK, NEW p \in Procs, NEW how, ProcessGone(p, how)
    PROVE  RowStep
  <1>. USE DEF RowStep
  <1>. DEFINE S == {t \in ThreadsOf(p) : wpc[t] \in Executing}
  <1>1. /\ status' = status
        /\ wpc' = [t \in Threads |-> IF t \in ThreadsOf(p) THEN "none" ELSE wpc[t]]
        /\ cur' = [t \in Threads |-> IF t \in ThreadsOf(p) THEN NoJob ELSE cur[t]]
    BY DEF ProcessGone
  <1>2. S \subseteq Threads
    BY Homes
  <1>3. Running' = [t \in Threads |-> IF t \in S THEN NoJob ELSE Running[t]]
    BY <1>1 DEF Running, Executing
  <1>4. CASE S = {}
    <2>1. Running' = Running
      BY <1>3, <1>4 DEF Running
    <2>. QED
      BY <1>1, <2>1 DEF Lifecycle!lifecycleVars
  <1>5. CASE S # {}
    <2>1. \A t \in S : Running[t] # NoJob
      BY <1>2, ConstantsAssumption DEF Running, TypeOK
    <2>2. Lifecycle!Lost(S)
      BY <1>1, <1>3, <1>5, <2>1 DEF Lifecycle!Lost
    <2>. QED
      BY <1>2, <2>2 DEF Lifecycle!LifecycleNext
  <1>. QED
    BY <1>4, <1>5

\* A thread whose handler has raised or returned ends its run: the outcome is
\* recorded, or the row is gone or could not be written.
LEMMA RunEnds ==
    ASSUME TypeOK, NEW t \in Threads, wpc[t] \in Executing, Release(t),
           NEW outcome \in {"completed", "failed"},
           \/ status' = status
           \/ /\ status[cur[t]] # "absent"
              /\ status' = [status EXCEPT ![cur[t]] = outcome]
    PROVE  RowStep
  <1>. USE DEF RowStep
  <1>1. Running[t] = cur[t] /\ cur[t] \in Jobs /\ cur[t] # NoJob
    BY ConstantsAssumption DEF TypeOK, Running
  <1>2. Running' = [Running EXCEPT ![t] = NoJob]
    BY DEF TypeOK, Release, Running, Executing
  <1>3. CASE status' = status
    <2>1. Running' = [u \in Threads |-> IF u \in {t} THEN NoJob ELSE Running[u]]
      BY <1>2 DEF Running
    <2>2. Lifecycle!Lost({t})
      BY <1>1, <1>3, <2>1 DEF Lifecycle!Lost
    <2>. QED
      BY <2>2 DEF Lifecycle!LifecycleNext
  <1>4. CASE /\ status[cur[t]] # "absent"
             /\ status' = [status EXCEPT ![cur[t]] = outcome]
    <2>1. Lifecycle!Finished(t)
      BY <1>1, <1>2, <1>4 DEF Lifecycle!Finished
    <2>. QED
      BY <2>1 DEF Lifecycle!LifecycleNext
  <1>. QED
    BY <1>3, <1>4

\* A row update of a request is a step of the life cycle, or changes nothing.
LEMMA RowWritten ==
    ASSUME TypeOK, NEW j \in Jobs, UNCHANGED <<wpc, cur>>,
           \/ status' = status
           \/ status' = [status EXCEPT ![j] = "pending"]
           \/ /\ status[j] # "absent"
              /\ \E s \in {"cancelled", "deleted"} : status' = [status EXCEPT ![j] = s]
    PROVE  RowStep
  <1>1. Running' = Running
    BY DEF Running
  <1>2. \/ Lifecycle!Enqueued(j) \/ Lifecycle!Withdrawn(j)
        \/ UNCHANGED Lifecycle!lifecycleVars
    BY <1>1 DEF Lifecycle!Enqueued, Lifecycle!Withdrawn, Lifecycle!lifecycleVars
  <1>. QED
    BY <1>2 DEF RowStep, Lifecycle!LifecycleNext

\* Every step of the queue is a step of the row's life cycle or leaves it
\* alone.
LEMMA LifecycleStep ==
    ASSUME TypeOK, [Next]_vars
    PROVE  RowStep
  <1>. wpc' \in [Threads -> WorkerPcs]
    BY TypeStep DEF TypeOK
  <1>1. ASSUME NEW p \in Procs, BootReset(p) PROVE RowStep
    <2>. DEFINE S == {j \in Jobs : status[j] = "processing"}
    <2>1. Running' = Running
      BY <1>1 DEF BootReset, Running
    <2>2. CASE S = {}
      <3>1. status' = status
        BY <1>1, <2>2 DEF BootReset, TypeOK
      <3>. QED
        BY <2>1, <3>1 DEF RowStep, Lifecycle!lifecycleVars
    <2>3. CASE S # {}
      <3>1. S \in SUBSET Jobs /\ Lifecycle!Requeued(S)
        BY <1>1, <2>1, <2>3 DEF BootReset, Lifecycle!Requeued
      <3>. QED
        BY <3>1 DEF RowStep, Lifecycle!LifecycleNext
    <2>. QED
      BY <2>2, <2>3
  <1>2. ASSUME NEW p \in Procs, BootLoad(p) PROVE RowStep
    BY <1>2, RunsGoOn, NewThreadUnused DEF BootLoad, StartWorker, TypeOK, Executing
  <1>3. ASSUME NEW p \in Procs, Crash(p) PROVE RowStep
    BY <1>3, RunsEnd DEF Crash
  <1>4. ASSUME NEW p \in Procs, ClearJobQueue(p) PROVE RowStep
    <2>. DEFINE S == {j \in Jobs : status[j] = "deleted"}
    <2>1. Running' = Running
      BY <1>4 DEF ClearJobQueue, Running
    <2>2. CASE S = {}
      <3>1. status' = status
        BY <1>4, <2>2 DEF ClearJobQueue, TypeOK
      <3>. QED
        BY <2>1, <3>1 DEF RowStep, Lifecycle!lifecycleVars
    <2>3. CASE S # {}
      <3>1. S \in SUBSET Jobs /\ Lifecycle!Purged(S)
        BY <1>4, <2>1, <2>3 DEF ClearJobQueue, Lifecycle!Purged
      <3>. QED
        BY <3>1 DEF RowStep, Lifecycle!LifecycleNext
    <2>. QED
      BY <2>2, <2>3
  <1>5. ASSUME NEW p \in Procs, PurgeExit(p) PROVE RowStep
    BY <1>5, RunsEnd DEF PurgeExit
  <1>6. ASSUME NEW t \in Threads, WorkerDies(t) PROVE RowStep
    BY <1>6, RunsGoOn DEF WorkerDies, TypeOK, Executing
  <1>7. ASSUME NEW t \in Threads, LoopTop(t) PROVE RowStep
    BY <1>7, RunsGoOn DEF LoopTop, TypeOK, Executing
  <1>8. ASSUME NEW t \in Threads, PopValkey(t) PROVE RowStep
    BY <1>8, RunsGoOn DEF PopValkey, Hold, TypeOK, Executing
  <1>9. ASSUME NEW t \in Threads, PopMemory(t) PROVE RowStep
    BY <1>9, RunsGoOn DEF PopMemory, Hold, TypeOK, Executing
  <1>10. ASSUME NEW t \in Threads, SelectRow(t) PROVE RowStep
    BY <1>10, RunsGoOn DEF SelectRow, Release, TypeOK, Executing
  <1>11. ASSUME NEW t \in Threads, WorkerStops(t) PROVE RowStep
    BY <1>11, RunsGoOn DEF WorkerStops, TypeOK, Executing
  <1>12. ASSUME NEW t \in Threads, HandlerHangs(t) PROVE RowStep
    BY <1>12, RunsGoOn DEF HandlerHangs, TypeOK, Executing
  <1>13. ASSUME NEW t \in Threads, LoadHandlerFails(t) PROVE RowStep
    <2>1. cur[t] \in Jobs /\ Running' = Running
      BY <1>13 DEF TypeOK, LoadHandlerFails, Release, Running, Executing
    <2>2. Lifecycle!Rejected(cur[t]) \/ UNCHANGED Lifecycle!lifecycleVars
      BY <1>13, <2>1
         DEF LoadHandlerFails, SetStatus, Lifecycle!Rejected, Lifecycle!lifecycleVars
    <2>. QED
      BY <2>1, <2>2 DEF RowStep, Lifecycle!LifecycleNext
  <1>14. ASSUME NEW t \in Threads, Claim(t) PROVE RowStep
    <2>1. CASE status[cur[t]] = "pending"
      <3>1. cur[t] \in Jobs /\ Running[t] = NoJob
        BY <1>14 DEF TypeOK, Claim, Running, Executing
      <3>2. Running' = [Running EXCEPT ![t] = cur[t]]
        BY <1>14, <2>1 DEF TypeOK, Claim, Running, Executing
      <3>3. Lifecycle!Claimed(t, cur[t])
        BY <1>14, <2>1, <3>1, <3>2 DEF Claim, Lifecycle!Claimed
      <3>. QED
        BY <3>1, <3>3 DEF RowStep, Lifecycle!LifecycleNext
    <2>2. CASE status[cur[t]] # "pending"
      BY <1>14, <2>2, RunsGoOn DEF Claim, Release, TypeOK, Executing
    <2>. QED
      BY <2>1, <2>2
  <1>15. ASSUME NEW t \in Threads, HandlerReturns(t) PROVE RowStep
    <2>1. /\ wpc[t] \in Executing /\ Release(t)
          /\ \/ status' = status
             \/ /\ status[cur[t]] # "absent"
                /\ status' = [status EXCEPT ![cur[t]] = "completed"]
      BY <1>15 DEF HandlerReturns, SetStatus, Executing
    <2>. QED
      BY <2>1, RunEnds
  <1>16. ASSUME NEW t \in Threads, JobRaises(t) PROVE RowStep
    <2>1. /\ Release(t)
          /\ \/ status' = status
             \/ /\ status[cur[t]] # "absent"
                /\ status' = [status EXCEPT ![cur[t]] = "failed"]
      BY <1>16 DEF JobRaises, SetStatus
    <2>2. CASE wpc[t] = "running"
      BY <2>1, <2>2, RunEnds DEF Executing
    <2>3. CASE wpc[t] # "running"
      <3>1. cur[t] \in Jobs /\ Running' = Running
        BY <1>16, <2>1, <2>3 DEF TypeOK, JobRaises, Release, Running, Executing
      <3>2. Lifecycle!Rejected(cur[t]) \/ UNCHANGED Lifecycle!lifecycleVars
        BY <2>1, <3>1 DEF Lifecycle!Rejected, Lifecycle!lifecycleVars
      <3>. QED
        BY <3>1, <3>2 DEF RowStep, Lifecycle!LifecycleNext
    <2>. QED
      BY <2>2, <2>3
  <1>17. ASSUME NEW r \in Reqs, SubmitInsert(r) PROVE RowStep
    BY <1>17, RowWritten DEF SubmitInsert, TypeOK
  <1>18. ASSUME NEW r \in Reqs, ResubmitWrite(r) PROVE RowStep
    BY <1>18, RowWritten DEF ResubmitWrite, SetStatus, TypeOK
  <1>19. ASSUME NEW r \in Reqs, CancelWrite(r) PROVE RowStep
    BY <1>19, RowWritten DEF CancelWrite, TypeOK
  <1>20. ASSUME NEW r \in Reqs, TuiCancelWrite(r) PROVE RowStep
    BY <1>20, RowWritten DEF TuiCancelWrite, SetStatus, TypeOK
  <1>21. ASSUME NEW r \in Reqs, NEW j \in Jobs, ExternalWrite(r, j) PROVE RowStep
    BY <1>21, RowWritten DEF ExternalWrite, TypeOK
  <1>22. ASSUME NEW r \in Reqs, Enqueue(r) PROVE RowStep
    BY <1>22, RunsGoOn DEF Enqueue, TypeOK
  <1>23. ASSUME NEW r \in Reqs, Push(r) PROVE RowStep
    BY <1>23, RunsGoOn DEF Push, TypeOK
  <1>24. ASSUME NEW r \in Reqs, ExternalPush(r) PROVE RowStep
    BY <1>24, RunsGoOn DEF ExternalPush, TypeOK
  <1>25. ASSUME NEW r \in Reqs, NEW j \in Jobs, SubmitBegin(r, j) PROVE RowStep
    BY <1>25, RunsGoOn DEF SubmitBegin, TypeOK
  <1>26. ASSUME NEW r \in Reqs, NEW j \in Jobs, ResubmitBegin(r, j) PROVE RowStep
    BY <1>26, RunsGoOn DEF ResubmitBegin, TypeOK
  <1>27. ASSUME NEW r \in Reqs, NEW j \in Jobs, TuiCancelBegin(r, j) PROVE RowStep
    BY <1>27, RunsGoOn DEF TuiCancelBegin, TypeOK
  <1>28. ASSUME NEW r \in Reqs, NEW j \in Jobs, CancelBegin(r, j) PROVE RowStep
    BY <1>28, RunsGoOn DEF CancelBegin, Executing, TypeOK
  <1>29. ASSUME NEW r \in Reqs, EnsureWorker(r) PROVE RowStep
    <2>1. \A t \in Threads : (wpc'[t] \in Executing) <=> (wpc[t] \in Executing)
      BY <1>29, NewThreadUnused, ConstantsAssumption
         DEF EnsureWorker, CheckHandle, CheckAlive, StopServing, TakeHandle, DropHandle,
             TestServing, GoServing, MakeThread, StartThread, TypeOK, Executing
    <2>. QED
      BY <1>29, <2>1, RunsGoOn DEF EnsureWorker
  <1>30. ASSUME NEW j \in Jobs, Delete(j) PROVE RowStep
    BY <1>30, RowWritten DEF Delete
  <1>31. ASSUME NEW j \in Jobs, OrphanExits(j) PROVE RowStep
    BY <1>31, RunsGoOn DEF OrphanExits, TypeOK
  <1>32. CASE ShutdownBegin
    BY <1>32, RunsGoOn DEF ShutdownBegin, TypeOK
  <1>33. CASE ShutdownExit
    BY <1>33, RunsEnd, ConstantsAssumption DEF ShutdownExit
  <1>34. CASE ValkeyDown
    BY <1>34, RunsGoOn DEF ValkeyDown, TypeOK
  <1>35. CASE ValkeyUp
    BY <1>35, RunsGoOn DEF ValkeyUp, TypeOK
  <1>36. CASE UNCHANGED vars
    BY <1>36, RunsGoOn DEF vars, TypeOK
  <1>. QED
    BY <1>1, <1>2, <1>3, <1>4, <1>5, <1>6, <1>7, <1>8, <1>9, <1>10,
       <1>11, <1>12, <1>13, <1>14, <1>15, <1>16, <1>17, <1>18, <1>19, <1>20,
       <1>21, <1>22, <1>23, <1>24, <1>25, <1>26, <1>27, <1>28, <1>29, <1>30,
       <1>31, <1>32, <1>33, <1>34, <1>35, <1>36
       DEF Next, ProcStep, WorkerStep, RequestStep, RequestBegin

\* Every behaviour of the queue, with any number of processes and threads, is a
\* behaviour of JobLifecycle: handlers start only on PENDING rows and one per
\* consumer, COMPLETED is written only at the end of a run, a purge takes only
\* DELETED rows.
THEOREM LifecycleImplemented == Spec => LifecycleSpec
  <1>1. Init => Lifecycle!LifecycleInit
    BY DEF Init, Lifecycle!LifecycleInit, Running, Executing
  <1>2. TypeOK /\ [Next]_vars => [Lifecycle!LifecycleNext]_(Lifecycle!lifecycleVars)
    BY LifecycleStep DEF RowStep
  <1>. QED
    BY <1>1, <1>2, TypeCorrect, PTL DEF Spec, LifecycleSpec, Lifecycle!LifecycleSpec
=============================================================================
