----------------------------- MODULE Translation -----------------------------
(***************************************************************************)
(* Translating a job's SRT file.  Each run of a job's translate step is a  *)
(* process of translate_srt.py, which sends the paths of the two files to  *)
(* the translate daemon and waits, or translates by itself when there is   *)
(* no daemon.  The daemon (translate_daemon.py) has one worker that uses   *)
(* the NPU engine and several that use the GPU; a worker reads the input   *)
(* file, translates its blocks and writes the output file at the end.      *)
(*                                                                         *)
(* A file is reduced to the version of the text it holds.  How daemons     *)
(* take over the socket from one another is module DaemonSocket's subject; *)
(* here starting one is a single step.                                     *)
(***************************************************************************)
EXTENDS Naturals, FiniteSets

CONSTANTS Clients,  \* process ids of translate_srt.py
          Jobs,
          NPU,      \* the NPU worker
          Gpu,      \* the GPU workers
          Blocks,   \* blocks of an SRT file
          Faults,   \* what may go wrong, see below
          Limit,    \* bounds of the model, by kind of event
          Nobody    \* the sender of a prewarm request, and no sender at all

Workers == {NPU} \cup Gpu
Events == {"run", "edit", "fault", "kill", "prewarm"}

\* "kill": a client gets SIGKILL; "term": SIGTERM; "crash": the daemon dies;
\* "quit": it is asked to stop; "nostart": it does not start; "engine": the
\* NPU engine fails; "gpu": a translation on the GPU fails; "hang": it never
\* returns; "npuhang": nor does one of the NPU worker on the GPU; "heat": the
\* thermal gate closes.
ASSUME TranslationAssumption ==
    /\ NPU \notin Gpu /\ Nobody \notin Clients /\ Jobs # {}
    /\ IsFiniteSet(Gpu) /\ IsFiniteSet(Clients)
    /\ Blocks \in Nat \ {0}
    /\ Faults \subseteq {"kill", "term", "crash", "quit", "nostart", "engine", "gpu",
                         "hang", "npuhang", "heat"}
    /\ Limit \in [Events -> Nat]

VARIABLES
    input,   \* input[j]: the version of the text in the job's input file
    output,  \* output[j]: the version its output file translates, 0 for none
    exit,    \* exit[j]: how its latest client ended
    left,    \* jobs with a client that was stopped while the daemon had its request
    client,  \* client[c]: where it is, its job, and _STOP_REQUESTED
    daemon,  \* "down", "up" or, with _QUIT set, "drain"; "kill" when the hang
             \* guard has set it and counts down to SIGKILL
    conns,   \* requests not yet handled: [from, live, job, cmd]
    work,    \* work[w]: what worker w does
    sem,     \* free slots: NPU_SLOT_SEM and GPU_SLOT_SEM
    npuDown, \* the NPU worker has given up on the engine
    engine,  \* the NPU engine answers
    hot,     \* the thermal gate is closed
    used     \* events spent so far

vars == <<input, output, exit, left, client, daemon, conns, work, sem, npuDown, engine, hot, used>>
fileVars == <<input, output, exit, left>>
daemonVars == <<daemon, conns, work, sem, npuDown>>
envVars == <<engine, hot>>

Spend(e) ==
    /\ used[e] < Limit[e]
    /\ used' = [used EXCEPT ![e] = @ + 1]

\* _QUIT is set: nothing is accepted any more.
Draining == daemon \in {"drain", "kill"}

Fault(f) == f \in Faults /\ Spend(IF f \in {"kill", "term"} THEN "kill" ELSE "fault")

Off(j) == [pc |-> "off", job |-> j, stop |-> FALSE]
Idle == [pc |-> "idle", from |-> Nobody, live |-> FALSE, job |-> CHOOSE j \in Jobs : TRUE,
         cmd |-> "none", text |-> 0, todo |-> 0]

\* A request on a connection whose other end is open.
Request(c, j, cmd) == [from |-> c, live |-> TRUE, job |-> j, cmd |-> cmd]

\* The client ends.  Whoever has stopped it does not look at its exit status.
Exit(c, code) ==
    /\ client' = [client EXCEPT ![c] = Off(@.job)]
    /\ exit' = IF client[c].stop THEN exit ELSE [exit EXCEPT ![client[c].job] = code]

Goto(c, pc) == client' = [client EXCEPT ![c].pc = pc]

-----------------------------------------------------------------------------
(* translate_srt.py                                                        *)

\* A new run of the job's translate step.  The queue runs a job once at a
\* time, but after a restart of the server an older client that has only
\* been sent SIGTERM may still be there.
Start(c, j) ==
    /\ client[c].pc = "off"
    /\ \A d \in Clients : client[d].job = j => client[d].pc = "off" \/ client[d].stop
    /\ Spend("run")
    /\ client' = [client EXCEPT ![c] = [pc |-> "ping", job |-> j, stop |-> FALSE]]
    /\ exit' = [exit EXCEPT ![j] = "none"]
    /\ UNCHANGED <<input, output, left, daemonVars, envVars>>

\* The user saves a new text before the job is run again.
Edit(j) ==
    /\ \A d \in Clients : client[d].job = j => client[d].pc = "off" \/ client[d].stop
    /\ Spend("edit")
    /\ input' = [input EXCEPT ![j] = @ + 1]
    /\ exit' = [exit EXCEPT ![j] = "none"]
    /\ UNCHANGED <<output, left, client, daemonVars, envVars>>

\* A daemon comes up: ensure_daemon has started it and it answers.
Boot ==
    /\ daemon = "down"
    /\ daemon' = "up"
    /\ npuDown' = FALSE
    /\ UNCHANGED <<conns, work, sem>>

\* ensure_daemon fails: the daemon does not start, or the one that drains
\* answers no ping and keeps a new one from starting for 120 s.
NoDaemon == (Draining /\ UNCHANGED used) \/ (daemon = "down" /\ Fault("nostart"))

\* main, mode auto: use the daemon, start it, or do without.
Ping(c) ==
    /\ client[c].pc = "ping"
    /\ \/ /\ daemon = "up" /\ Goto(c, "send")
          /\ UNCHANGED <<daemonVars, used>>
       \/ /\ Boot /\ Goto(c, "send")
          /\ UNCHANGED used
       \/ /\ NoDaemon /\ Goto(c, "direct")
          /\ UNCHANGED daemonVars
    /\ UNCHANGED <<fileVars, envVars>>

\* translate_file and _request: the connection may also go to a daemon that
\* has stopped accepting.
Send(c) ==
    /\ client[c].pc = "send"
    /\ IF client[c].stop
         THEN Exit(c, "failed") /\ UNCHANGED conns
         ELSE IF daemon = "down"
           THEN Goto(c, "lost") /\ UNCHANGED <<exit, conns>>
           ELSE /\ Goto(c, "wait")
                /\ conns' = conns \cup {Request(c, client[c].job, "translate")}
                /\ UNCHANGED exit
    /\ UNCHANGED <<input, output, left, daemon, work, sem, npuDown, envVars, used>>

\* Mutant of Lost: a closed connection is taken for the end of the work.
LostDone(c) ==
    /\ client[c].pc = "lost"
    /\ \/ /\ daemon = "up" /\ Exit(c, "ok")
          /\ UNCHANGED <<daemonVars, used>>
       \/ /\ Boot /\ Goto(c, "send")
          /\ UNCHANGED <<exit, used>>
       \/ /\ NoDaemon /\ Exit(c, "failed")
          /\ UNCHANGED daemonVars
    /\ UNCHANGED <<input, output, left, envVars>>

\* _DaemonUnavailable: start the daemon and ask again, or give up.
Lost(c) ==
    /\ client[c].pc = "lost"
    /\ \/ /\ daemon = "up" /\ Goto(c, "send")
          /\ UNCHANGED <<exit, daemonVars, used>>
       \/ /\ Boot /\ Goto(c, "send")
          /\ UNCHANGED <<exit, used>>
       \/ /\ NoDaemon /\ Exit(c, "failed")
          /\ UNCHANGED daemonVars
    /\ UNCHANGED <<input, output, left, envVars>>

\* translate_srt_file in the client itself; a failure there ends it.
Direct(c) ==
    /\ client[c].pc = "direct"
    /\ \/ /\ ~client[c].stop
          /\ Exit(c, "ok")
          /\ output' = [output EXCEPT ![client[c].job] = input[client[c].job]]
          /\ UNCHANGED used
       \/ /\ client[c].stop
          /\ Exit(c, "failed")
          /\ UNCHANGED <<output, used>>
       \/ /\ Fault("gpu")
          /\ Exit(c, "failed")
          /\ UNCHANGED output
    /\ UNCHANGED <<input, left, daemonVars, envVars>>

\* The request of client c that c still waits for.
Mine(r, c) == r.from = c /\ r.live
InDaemon(c) == (\E r \in conns : Mine(r, c)) \/ (\E w \in Workers : Mine(work[w], c))

\* SIGTERM sets a flag that the client looks at between two requests: while
\* it waits for an answer, recv goes on.
Term(c) ==
    /\ client[c].pc # "off" /\ ~client[c].stop
    /\ Fault("term")
    /\ client' = [client EXCEPT ![c].stop = TRUE]
    /\ left' = IF InDaemon(c) THEN left \cup {client[c].job} ELSE left
    /\ UNCHANGED <<input, output, exit, daemonVars, envVars>>

\* SIGKILL closes the connection; the daemon does not look at it before it
\* answers.
Kill(c) ==
    /\ client[c].pc # "off"
    /\ Fault("kill")
    /\ client' = [client EXCEPT ![c] = Off(@.job)]
    /\ left' = IF InDaemon(c) THEN left \cup {client[c].job} ELSE left
    /\ conns' = {[r EXCEPT !.live = @ /\ r.from # c] : r \in conns}
    /\ work' = [w \in Workers |-> [work[w] EXCEPT !.live = @ /\ work[w].from # c]]
    /\ UNCHANGED <<input, output, exit, daemon, sem, npuDown, envVars>>

\* _send_response, and what translate_file makes of it.  A send to a closed
\* connection fails without consequences.
Answer(r, code) ==
    IF r.from = Nobody \/ ~r.live THEN UNCHANGED <<client, exit>>
    ELSE CASE code = "ok" -> Exit(r.from, "ok")
           [] code = "error" -> Exit(r.from, "failed")
           [] code = "busy" -> Goto(r.from, "send") /\ UNCHANGED exit

-----------------------------------------------------------------------------
(* translate_daemon.py                                                     *)

\* daemon_prewarm.py sends ensure_model and forgets about it.
Prewarm ==
    /\ daemon = "up" /\ Spend("prewarm")
    /\ conns' = conns \cup {Request(Nobody, CHOOSE j \in Jobs : TRUE, "ensure")}
    /\ UNCHANGED <<fileVars, client, daemon, work, sem, npuDown, envVars>>

\* Worker w takes request r, and a slot of its pool.
Take(w, pool, r) ==
    /\ work' = [work EXCEPT ![w] =
         [pc |-> IF r.cmd = "ensure" THEN "model" ELSE "gate", from |-> r.from, live |-> r.live,
          job |-> r.job, cmd |-> r.cmd, text |-> 0, todo |-> 0]]
    /\ sem' = [sem EXCEPT ![pool] = @ - 1]
    /\ UNCHANGED <<client, exit>>

\* Mutant of Dispatch: the GPU semaphore is not consulted.
DispatchUnchecked(r) ==
    /\ daemon = "up" /\ r \in conns
    /\ conns' = conns \ {r}
    /\ \/ sem["npu"] > 0 /\ Take(NPU, "npu", r)
       \/ /\ sem["npu"] = 0 /\ r.cmd # "ensure"
          /\ \E w \in Gpu : Take(w, "gpu", r)
       \/ /\ sem["npu"] = 0 /\ (sem["gpu"] = 0 \/ r.cmd = "ensure")
          /\ Answer(r, "busy")
          /\ UNCHANGED <<work, sem>>
    /\ UNCHANGED <<input, output, left, daemon, npuDown, envVars, used>>

\* Mutant of Dispatch: busy is not answered.
DispatchDrop(r) ==
    /\ daemon = "up" /\ r \in conns
    /\ conns' = conns \ {r}
    /\ \/ sem["npu"] > 0 /\ Take(NPU, "npu", r)
       \/ /\ sem["npu"] = 0 /\ sem["gpu"] > 0 /\ r.cmd # "ensure"
          /\ \E w \in Gpu : work[w].pc = "idle" /\ Take(w, "gpu", r)
       \/ /\ sem["npu"] = 0 /\ (sem["gpu"] = 0 \/ r.cmd = "ensure")
          /\ UNCHANGED <<client, exit, work, sem>>
    /\ UNCHANGED <<input, output, left, daemon, npuDown, envVars, used>>

\* _handle and _dispatch: the NPU worker if it is free, else a GPU worker,
\* which is not used to load a model, else busy.
Dispatch(r) ==
    /\ daemon = "up" /\ r \in conns
    /\ conns' = conns \ {r}
    /\ \/ sem["npu"] > 0 /\ Take(NPU, "npu", r)
       \/ /\ sem["npu"] = 0 /\ sem["gpu"] > 0 /\ r.cmd # "ensure"
          /\ \E w \in Gpu : work[w].pc = "idle" /\ Take(w, "gpu", r)
       \/ /\ sem["npu"] = 0 /\ (sem["gpu"] = 0 \/ r.cmd = "ensure")
          /\ Answer(r, "busy")
          /\ UNCHANGED <<work, sem>>
    /\ UNCHANGED <<input, output, left, daemon, npuDown, envVars, used>>

\* Mutant of Finish: the slot always goes back to the GPU workers.
FinishGpu(w, code) ==
    /\ Answer(work[w], code)
    /\ work' = [work EXCEPT ![w] = Idle]
    /\ sem' = [sem EXCEPT !["gpu"] = @ + 1]

\* The end of _run_translate and _run_ensure_model: answer, free the slot.
Finish(w, code) ==
    /\ Answer(work[w], code)
    /\ work' = [work EXCEPT ![w] = Idle]
    /\ sem' = [sem EXCEPT ![IF w = NPU THEN "npu" ELSE "gpu"] = @ + 1]

\* Worker w asks for the engine: it answers, or is started, or the worker
\* gives it up for the rest of its life.
UseEngine(w) ==
    /\ w = NPU /\ ~npuDown
    /\ engine' = TRUE
    /\ UNCHANGED <<npuDown, used>>

UseGpu(w) ==
    /\ \/ (w # NPU \/ npuDown) /\ UNCHANGED <<npuDown, engine, used>>
       \/ w = NPU /\ ~npuDown /\ ~engine /\ Fault("engine") /\ npuDown' = TRUE /\ UNCHANGED engine

\* _run_ensure_model, which _dispatch gives to the NPU worker only.  It asks
\* the engine even if the worker has given it up before.
EnsureModel(w) ==
    /\ work[w].pc = "model"
    /\ \/ w = NPU /\ engine' = TRUE /\ UNCHANGED <<npuDown, used>>
       \/ w = NPU /\ Fault("engine") /\ npuDown' = TRUE /\ UNCHANGED engine
    /\ Finish(w, "ok")
    /\ UNCHANGED <<input, output, left, daemon, conns, hot>>

\* _run_translate waits while the thermal gate is closed; when the daemon is
\* asked to stop meanwhile the request fails.
Gate(w) ==
    /\ work[w].pc = "gate"
    /\ IF ~hot
         THEN work' = [work EXCEPT ![w].pc = "read"] /\ UNCHANGED <<client, exit, sem>>
         ELSE Draining /\ Finish(w, "error")
    /\ UNCHANGED <<input, output, left, daemon, conns, npuDown, envVars, used>>

\* translate_srt_file reads the input file.
Read(w) ==
    /\ work[w].pc = "read"
    /\ work' = [work EXCEPT ![w].pc = "blocks", ![w].text = input[work[w].job], ![w].todo = Blocks]
    /\ UNCHANGED <<fileVars, client, daemon, conns, sem, npuDown, envVars, used>>

\* _ThreadBackend.translate, one block.
Block(w) ==
    /\ work[w].pc = "blocks" /\ work[w].todo > 0
    /\ UseEngine(w) \/ UseGpu(w)
    /\ work' = [work EXCEPT ![w].todo = @ - 1]
    /\ UNCHANGED <<fileVars, client, daemon, conns, sem, hot>>

\* The engine, or the model, fails on a block: so does the whole request.
BlockFails(w) ==
    /\ work[w].pc = "blocks" /\ work[w].todo > 0
    /\ \/ /\ w = NPU /\ ~npuDown /\ Fault("engine")
          /\ engine' = FALSE
       \/ /\ w # NPU \/ npuDown
          /\ Fault("gpu")
          /\ UNCHANGED engine
    /\ Finish(w, "error")
    /\ UNCHANGED <<input, output, left, daemon, conns, npuDown, hot>>

\* A GPU kernel never returns.
Hang(w) ==
    /\ work[w].pc = "blocks" /\ work[w].todo > 0
    /\ \/ w # NPU /\ Fault("hang")
       \/ w = NPU /\ npuDown /\ Fault("npuhang")
    /\ work' = [work EXCEPT ![w].pc = "hung"]
    /\ UNCHANGED <<fileVars, client, daemon, conns, sem, npuDown, envVars>>

\* The output file is written when all blocks are there.
Write(w) ==
    /\ work[w].pc = "blocks" /\ work[w].todo = 0
    /\ output' = [output EXCEPT ![work[w].job] = work[w].text]
    /\ work' = [work EXCEPT ![w].pc = "reply"]
    /\ UNCHANGED <<input, exit, left, client, daemon, conns, sem, npuDown, envVars, used>>

Reply(w) ==
    /\ work[w].pc = "reply"
    /\ Finish(w, "ok")
    /\ UNCHANGED <<input, output, left, daemon, conns, npuDown, envVars, used>>

\* SIGTERM, a shutdown request or the idle watchdog: _QUIT.
Quit ==
    /\ daemon = "up" /\ Fault("quit")
    /\ daemon' = "drain"
    /\ UNCHANGED <<fileVars, client, conns, work, sem, npuDown, envVars>>

\* The process is gone and every connection to it is closed.
Gone ==
    /\ daemon' = "down"
    /\ conns' = {}
    /\ work' = [w \in Workers |-> Idle]
    /\ sem' = [npu |-> 1, gpu |-> Cardinality(Gpu)]
    /\ client' = [c \in Clients |->
                    IF client[c].pc = "wait" THEN [client[c] EXCEPT !.pc = "lost"] ELSE client[c]]
    /\ UNCHANGED npuDown

\* main ends once the pools are empty; what waited to be accepted is lost.
Stopped ==
    /\ Draining /\ \A w \in Workers : work[w].pc = "idle"
    /\ Gone
    /\ UNCHANGED <<fileVars, envVars, used>>

Crash ==
    /\ daemon # "down" /\ Fault("crash")
    /\ Gone
    /\ UNCHANGED <<fileVars, envVars>>

\* Mutant of HangSeen: the watchdog looks at the wrong worker.
HangSeenNpu ==
    /\ daemon = "up"
    /\ \E w \in {NPU} : work[w].pc = "hung"
    /\ daemon' = "kill"
    /\ UNCHANGED <<fileVars, client, conns, work, sem, npuDown, envVars, used>>

\* HangGuard.watch: only jobs of GPU workers are armed, and the loop is left
\* for good once _QUIT is set.  On a hang it sets _QUIT itself ...
HangSeen ==
    /\ daemon = "up"
    /\ \E w \in Gpu : work[w].pc = "hung"
    /\ daemon' = "kill"
    /\ UNCHANGED <<fileVars, client, conns, work, sem, npuDown, envVars, used>>

\* ... and sends SIGKILL when the grace period is over.
HangKill ==
    /\ daemon = "kill"
    /\ Gone
    /\ UNCHANGED <<fileVars, envVars, used>>

\* The thermal gate closes and opens.
Heat == ~hot /\ Fault("heat") /\ hot' = TRUE /\ UNCHANGED <<fileVars, client, daemonVars, engine>>
Cool == hot /\ hot' = FALSE /\ UNCHANGED <<fileVars, client, daemonVars, engine, used>>

-----------------------------------------------------------------------------
Init ==
    /\ input = [j \in Jobs |-> 1] /\ output = [j \in Jobs |-> 0]
    /\ exit = [j \in Jobs |-> "none"] /\ left = {}
    /\ client = [c \in Clients |-> Off(CHOOSE j \in Jobs : TRUE)]
    /\ daemon = "down" /\ conns = {} /\ work = [w \in Workers |-> Idle]
    /\ sem = [npu |-> 1, gpu |-> Cardinality(Gpu)]
    /\ npuDown = FALSE /\ engine = FALSE /\ hot = FALSE
    /\ used = [e \in Events |-> 0]

ClientStep(c) == Ping(c) \/ Send(c) \/ Lost(c) \/ Direct(c)
WorkerStep(w) == EnsureModel(w) \/ Gate(w) \/ Read(w) \/ Block(w) \/ Write(w) \/ Reply(w)

Next ==
    \/ \E c \in Clients, j \in Jobs : Start(c, j)
    \/ \E j \in Jobs : Edit(j)
    \/ \E c \in Clients : ClientStep(c) \/ Term(c) \/ Kill(c)
    \/ \E w \in Workers : WorkerStep(w) \/ BlockFails(w) \/ Hang(w)
    \/ \E r \in conns : Dispatch(r)
    \/ Prewarm \/ Quit \/ Stopped \/ Crash \/ HangSeen \/ HangKill \/ Heat \/ Cool

Spec == Init /\ [][Next]_vars

\* Processes and threads go on as long as they can, the accept loop takes
\* every connection, the watchdog looks again and again until _QUIT is set,
\* heat passes.
Fairness ==
    /\ \A c \in Clients : WF_vars(ClientStep(c))
    /\ \A w \in Workers : WF_vars(WorkerStep(w))
    /\ \A c \in Clients, j \in Jobs : WF_vars(Dispatch(Request(c, j, "translate")))
    /\ WF_vars(\E r \in conns : ~r.live /\ Dispatch(r))
    /\ \A j \in Jobs : WF_vars(Dispatch(Request(Nobody, j, "ensure")))
    /\ WF_vars(Stopped) /\ WF_vars(HangSeen) /\ WF_vars(HangKill) /\ WF_vars(Cool)

FairSpec == Spec /\ Fairness

-----------------------------------------------------------------------------
(* Properties                                                              *)

Requests == [from : Clients \cup {Nobody}, live : BOOLEAN, job : Jobs, cmd : {"translate", "ensure"}]

\* Where clients and workers of the daemon may be, and what they hold.
TypeOK ==
    /\ input \in [Jobs -> Nat] /\ output \in [Jobs -> Nat]
    /\ exit \in [Jobs -> {"none", "ok", "failed"}] /\ left \subseteq Jobs
    /\ client \in [Clients -> [pc : {"off", "ping", "send", "wait", "lost", "direct"},
                               job : Jobs, stop : BOOLEAN]]
    /\ daemon \in {"down", "up", "drain", "kill"}
    /\ conns \subseteq Requests
    /\ work \in [Workers -> [pc : {"idle", "model", "gate", "read", "blocks", "reply", "hung"},
                             from : Clients \cup {Nobody}, live : BOOLEAN, job : Jobs,
                             cmd : {"none", "translate", "ensure"},
                             text : Nat, todo : 0..Blocks]]
    /\ sem \in [{"npu", "gpu"} -> Nat]
    /\ npuDown \in BOOLEAN /\ engine \in BOOLEAN /\ hot \in BOOLEAN
    /\ used \in [Events -> Nat]

\* _dispatch and _release_slot keep the books: every slot that is taken is
\* held by exactly one request, in the pool the slot belongs to, on every
\* path out of a request, so the daemon never loses a worker nor overbooks.
SlotsMatch ==
    /\ sem["npu"] = IF work[NPU].pc = "idle" THEN 1 ELSE 0
    /\ sem["gpu"] = Cardinality({w \in Gpu : work[w].pc = "idle"})

\* A client that waits has its request in exactly one place of a daemon that
\* lives: nobody waits without a timeout for an answer that cannot come, and
\* no request is run twice at the same time for one client.
WaitersServed ==
    \A c \in Clients :
      Cardinality({r \in conns : Mine(r, c)}) + Cardinality({w \in Workers : Mine(work[w], c)})
        = IF client[c].pc = "wait" THEN 1 ELSE 0

\* When the latest client of a job has ended well the output file translates
\* the input file as it is, unless an earlier client of the job was stopped
\* while the daemon had its request.
OutputFresh == \A j \in Jobs \ left : exit[j] = "ok" => output[j] = input[j]

\* _QUIT is set and a GPU call never returns: the guard has retired, and
\* GPU_POOL.shutdown(wait=True) waits for ever.
HungDrain == daemon = "drain" /\ \E w \in Workers : work[w].pc = "hung"

\* Every client comes to an end: the daemon answers or dies, in which case
\* the client asks the next one or gives up.  The one exception is the client
\* of a daemon that hangs after it was told to stop.
ClientEnds ==
    \A c \in Clients :
      (client[c].pc # "off") ~> (client[c].pc = "off" \/ [](client[c].pc = "wait" /\ HungDrain))

\* "A GPU worker stuck in a ROCm call never returns; [...] the guard requests a
\* clean exit (SIGTERM) and force-kills after the grace period": no exception.
EveryClientEnds == \A c \in Clients : (client[c].pc # "off") ~> (client[c].pc = "off")

\* The same of every job, also after a client of it was stopped.
OutputMatches == \A j \in Jobs : exit[j] = "ok" => output[j] = input[j]

\* "SIGTERM or SIGINT stops the daemon cleanly after in-flight jobs finish":
\* no request of a daemon that drains is answered with an error that was not
\* there before.
DrainFinishes ==
    [][\A w \in Workers :
         (Draining /\ work[w].pc = "gate" /\ work'[w].pc = "idle") => daemon' = "down"]_vars
=============================================================================
