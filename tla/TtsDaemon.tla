----------------------------- MODULE TtsDaemon -----------------------------
(***************************************************************************)
(* The warm TTS daemon (gen_audio/gen_audio_daemon.py) with the thermal    *)
(* gate and the hang guard it shares with the translate daemon             *)
(* (gpu_thermal.py).                                                       *)
(*                                                                         *)
(* A connection handler admits a command by taking one of MAX_JOBS slots   *)
(* and hands it to a pool of MAX_JOBS worker threads.  Every worker owns a *)
(* model; a load has to keep out of the way of the generations of the      *)
(* other workers.  The monitor thread pauses the workers while the GPU is  *)
(* hot and ends an idle daemon; the watchdog kills a daemon whose job      *)
(* hangs.  Text, audio and temperatures are abstracted to what decides a   *)
(* branch.                                                                 *)
(***************************************************************************)
EXTENDS Naturals, FiniteSets

CONSTANTS Workers,     \* threads of TTS_POOL, as many as there are slots
          Clients,     \* connections; each carries one command at a time
          Langs,       \* languages a model can be loaded for
          None,        \* no worker, no client, no model
          IdleHotPolls,\* GATE.idle_hot_polls
          MaxTries,    \* how often one command enters the guard
          Env          \* what the environment may do, see below

\* "thermal": temperatures change and time passes; "hang": a GPU call never
\* returns; "quit": SIGTERM or a shutdown command; "fail": a model load or a
\* generation raises.
ASSUME DaemonAssumption ==
    /\ IsFiniteSet(Workers)
    /\ None \notin Workers \cup Clients \cup Langs
    /\ IdleHotPolls \in Nat \ {0}
    /\ MaxTries \in Nat \ {0}
    /\ Env \subseteq {"thermal", "hang", "quit", "fail"}

MAX_JOBS == Cardinality(Workers)

VARIABLES
    proc,      \* main(): "serving", "quit" (_QUIT set), "conns", "pool", "stopped", "killed"
    conn,      \* conn[c]: the command of a connection, [st, cmd, lang]
    slots,     \* JOB_SLOTS
    job,       \* job[w]: the client whose command thread w executes
    wpc,       \* wpc[w]: where w is in run_job
    kind,      \* kind[w]: _WORKER_TL.kind, None when w has no model
    tries,     \* tries[w]: how often the current command has entered the guard
    active,    \* _ACTIVE
    gens,      \* _GENS_ACTIVE
    mutex,     \* holder of _LOAD_MUTEX
    cleared,   \* loaders whose _LOAD_ACTIVE another loader has reset (history, for LoadsAlone)
    flags,     \* which of _LOAD_ACTIVE ("load"), _MODEL_LOADED ("loaded"),
               \* GATE.blocked ("blocked") are set; "sigkill": the watchdog has fired
    grace,     \* "off" or "armed": time.monotonic() < _prewarm_until
    idleKill,  \* "off", "armed" or "due": _idle_kill_at
    hotPolls,  \* GATE._hot_polls
    streak     \* hot idle readings in a row so far (history, for ConsecutiveHot)

threadVars == <<job, wpc, kind, tries>>
loadVars == <<gens, mutex, cleared>>
gateVars == <<grace, idleKill, hotPolls, streak>>
vars == <<proc, conn, slots, job, wpc, kind, tries, active, gens, mutex, cleared,
          flags, grace, idleKill, hotPolls, streak>>

Closed == [st |-> "none", cmd |-> "none", lang |-> None]

Answer(c, how) == conn' = [conn EXCEPT ![c].st = how]

Goto(w, pc) == wpc' = [wpc EXCEPT ![w] = pc]

-----------------------------------------------------------------------------
(* Connections: main's accept loop and _handle                             *)

\* accept() and _read_request of a tts or ensure_model command.  A client that
\* was answered, found the daemon busy or lost it may come back.
Accept(c, cmd, lang) ==
    /\ proc = "serving"
    /\ conn[c].st \in {"none", "ok", "error", "busy"}
    /\ conn' = [conn EXCEPT ![c] = [st |-> "read", cmd |-> cmd, lang |-> lang]]
    /\ UNCHANGED <<proc, slots, active, flags, threadVars, loadVars, gateVars>>

\* JOB_SLOTS.acquire(blocking=False), or the "busy" answer.
Admit(c) ==
    /\ conn[c].st = "read"
    /\ IF slots > 0
       THEN slots' = slots - 1 /\ Answer(c, "queued")
       ELSE Answer(c, "busy") /\ UNCHANGED slots
    /\ UNCHANGED <<proc, active, flags, threadVars, loadVars, gateVars>>

\* SIGTERM, SIGINT or {"cmd": "shutdown"}: _QUIT.
Quit ==
    /\ "quit" \in Env
    /\ proc = "serving"
    /\ proc' = "quit"
    /\ UNCHANGED <<conn, slots, active, flags, threadVars, loadVars, gateVars>>

\* The accept loop ends; conn_pool.shutdown(wait=True).
StopAccepting ==
    /\ proc = "quit"
    /\ proc' = "conns"
    /\ UNCHANGED <<conn, slots, active, flags, threadVars, loadVars, gateVars>>

ConnsDrained ==
    /\ proc = "conns"
    /\ \A c \in Clients : conn[c].st # "read"
    /\ proc' = "pool"
    /\ UNCHANGED <<conn, slots, active, flags, threadVars, loadVars, gateVars>>

\* Mutant of PoolDrained: the pool is not waited for (shutdown(wait=False)).
PoolNotDrained ==
    /\ proc = "pool"
    /\ proc' = "stopped"
    /\ UNCHANGED <<conn, slots, active, flags, threadVars, loadVars, gateVars>>

\* TTS_POOL.shutdown(wait=True) returns: the queue is empty and every thread
\* has come back; the process ends.
PoolDrained ==
    /\ proc = "pool"
    /\ \A c \in Clients : conn[c].st # "queued"
    /\ \A w \in Workers : wpc[w] = "idle"
    /\ proc' = "stopped"
    /\ UNCHANGED <<conn, slots, active, flags, threadVars, loadVars, gateVars>>

-----------------------------------------------------------------------------
(* run_job on a worker thread                                              *)

Lang(w) == conn[job[w]].lang

\* A thread takes the next task: HANG.arm, _ACTIVE, and for tts GATE is
\* disarmed.
Take(w, c) ==
    /\ proc \notin {"stopped", "killed"}
    /\ wpc[w] = "idle"
    /\ conn[c].st = "queued"
    /\ Answer(c, "running")
    /\ job' = [job EXCEPT ![w] = c]
    /\ tries' = [tries EXCEPT ![w] = 0]
    /\ active' = active + 1
    /\ IF conn[c].cmd = "tts"
       THEN Goto(w, "gate") /\ grace' = "off" /\ idleKill' = "off"
       ELSE Goto(w, "ensure") /\ UNCHANGED <<grace, idleKill>>
    /\ UNCHANGED <<proc, slots, kind, flags, loadVars, hotPolls, streak>>

\* The thermal gate: wait while blocked, give up when the daemon quits.
PassGate(w) ==
    /\ wpc[w] = "gate"
    /\ \/ "blocked" \notin flags /\ Goto(w, "ensure")
       \/ "blocked" \in flags /\ proc # "serving" /\ Goto(w, "raised")
    /\ UNCHANGED <<proc, conn, slots, job, kind, tries, active, flags, loadVars, gateVars>>

\* Mutant of Ensure: any model will do.
EnsureAny(w) ==
    /\ wpc[w] = "ensure"
    /\ IF kind[w] # None
       THEN /\ Goto(w, IF conn[job[w]].cmd = "tts" THEN "enter" ELSE "loaded")
            /\ UNCHANGED flags
       ELSE Goto(w, "drain") /\ flags' = flags \cup {"load"}
    /\ UNCHANGED <<proc, conn, slots, job, kind, tries, active, loadVars, gateVars>>

\* _ensure_thread_model: keep the model, or announce a load.
Ensure(w) ==
    /\ wpc[w] = "ensure"
    /\ IF kind[w] = Lang(w)
       THEN /\ Goto(w, IF conn[job[w]].cmd = "tts" THEN "enter" ELSE "loaded")
            /\ UNCHANGED flags
       ELSE Goto(w, "drain") /\ flags' = flags \cup {"load"}
    /\ UNCHANGED <<proc, conn, slots, job, kind, tries, active, loadVars, gateVars>>

\* The loader waits until no generation is in flight ...
Drain(w) ==
    /\ wpc[w] = "drain"
    /\ gens = 0
    /\ Goto(w, "mutex")
    /\ UNCHANGED <<proc, conn, slots, job, kind, tries, active, flags, loadVars, gateVars>>

\* ... then for _LOAD_MUTEX, and drops its old model.
LockLoad(w) ==
    /\ wpc[w] = "mutex"
    /\ mutex = None
    /\ mutex' = w
    /\ Goto(w, "load")
    /\ kind' = [kind EXCEPT ![w] = None]
    /\ UNCHANGED <<proc, conn, slots, job, tries, active, gens, cleared, flags, gateVars>>

\* The load itself, which may raise; the mutex is released either way.
Load(w) ==
    /\ wpc[w] = "load"
    /\ mutex' = None
    /\ \/ /\ kind' = [kind EXCEPT ![w] = Lang(w)]
          /\ flags' = flags \cup {"loaded"}
          /\ Goto(w, "unflag")
       \/ /\ "fail" \in Env
          /\ Goto(w, "unflagRaise")
          /\ UNCHANGED <<kind, flags>>
    /\ UNCHANGED <<proc, conn, slots, job, tries, active, gens, cleared, gateVars>>

\* Mutant of Unflag: an exception skips the finally clause.
UnflagOnSuccess(w) ==
    /\ wpc[w] \in {"unflag", "unflagRaise"}
    /\ flags' = IF wpc[w] = "unflag" THEN flags \ {"load"} ELSE flags
    /\ Goto(w, IF wpc[w] = "unflagRaise" THEN "raised"
               ELSE IF conn[job[w]].cmd = "tts" THEN "enter" ELSE "loaded")
    /\ UNCHANGED <<proc, conn, slots, job, kind, tries, active, loadVars, gateVars>>

\* The finally clause: _LOAD_ACTIVE = False, also when another loader that is
\* still at work has set it.
Unflag(w) ==
    /\ wpc[w] \in {"unflag", "unflagRaise"}
    /\ flags' = flags \ {"load"}
    /\ cleared' = (cleared \cup {v \in Workers : wpc[v] \in {"drain", "mutex", "load"}}) \ {w}
    /\ Goto(w, IF wpc[w] = "unflagRaise" THEN "raised"
               ELSE IF conn[job[w]].cmd = "tts" THEN "enter" ELSE "loaded")
    /\ UNCHANGED <<proc, conn, slots, job, kind, tries, active, gens, mutex, gateVars>>

\* _GenerationGuard.__enter__
EnterGen(w) ==
    /\ wpc[w] = "enter"
    /\ "load" \notin flags
    /\ gens' = gens + 1
    /\ tries' = [tries EXCEPT ![w] = @ + 1]
    /\ Goto(w, "generate")
    /\ UNCHANGED <<proc, conn, slots, job, kind, active, mutex, cleared, flags, gateVars>>

\* Mutant of ExitGen: an exception leaves the generation counted.
ExitGenLeaky(w) ==
    /\ wpc[w] = "generate"
    /\ \/ gens' = gens - 1 /\ Goto(w, "done")
       \/ "fail" \in Env /\ Goto(w, "raised") /\ UNCHANGED gens
    /\ UNCHANGED <<proc, conn, slots, job, kind, tries, active, mutex, cleared, flags, gateVars>>

\* Mutant of ExitGen: the forced reload is not announced to the other threads.
ExitGenQuietReload(w) ==
    /\ wpc[w] = "generate"
    /\ gens' = gens - 1
    /\ \/ Goto(w, "done")
       \/ "fail" \in Env /\ Goto(w, "raised")
       \/ tries[w] < MaxTries /\ Goto(w, "enter")
       \/ "fail" \in Env /\ tries[w] < MaxTries /\ Goto(w, "drain")
    /\ UNCHANGED <<proc, conn, slots, job, kind, tries, active, mutex, cleared, flags, gateVars>>

\* _GenerationGuard.__exit__ and what follows: the answer, an exception, the
\* guard again (the generation after prepare_conditionals, another attempt
\* after an overrun), or a forced reload of this worker's model (non-finite
\* audio).
ExitGen(w) ==
    /\ wpc[w] = "generate"
    /\ gens' = gens - 1
    /\ \/ Goto(w, "done") /\ UNCHANGED flags
       \/ "fail" \in Env /\ Goto(w, "raised") /\ UNCHANGED flags
       \/ tries[w] < MaxTries /\ Goto(w, "enter") /\ UNCHANGED flags
       \/ /\ "fail" \in Env /\ tries[w] < MaxTries
          /\ Goto(w, "drain") /\ flags' = flags \cup {"load"}
    /\ UNCHANGED <<proc, conn, slots, job, kind, tries, active, mutex, cleared, gateVars>>

\* A GPU call that never returns.
Hang(w) ==
    /\ "hang" \in Env
    /\ proc \notin {"stopped", "killed"}
    /\ wpc[w] = "generate"
    /\ Goto(w, "hung")
    /\ UNCHANGED <<proc, conn, slots, job, kind, tries, active, flags, loadVars, gateVars>>

\* _send_response; ensure_model arms the grace once its model is there.
Reply(w) ==
    /\ wpc[w] \in {"done", "loaded", "raised"}
    /\ Answer(job[w], IF wpc[w] = "raised" THEN "error" ELSE "ok")
    /\ grace' = IF wpc[w] = "loaded" THEN "armed" ELSE grace
    /\ Goto(w, IF conn[job[w]].cmd = "tts" THEN "finallyTts" ELSE "finallyEnsure")
    /\ UNCHANGED <<proc, slots, job, kind, tries, active, flags, loadVars,
                   idleKill, hotPolls, streak>>

\* The finally clause of run_job: the thread is no longer counted, ...
Uncount(w) ==
    /\ wpc[w] \in {"finallyTts", "finallyEnsure"}
    /\ active' = active - 1
    /\ Goto(w, IF wpc[w] = "finallyTts" THEN "releaseTts" ELSE "releaseEnsure")
    /\ UNCHANGED <<proc, conn, slots, job, kind, tries, flags, loadVars, gateVars>>

\* Mutant of Finish: the slot is released twice.
FinishTwice(w) ==
    /\ wpc[w] \in {"releaseTts", "releaseEnsure"}
    /\ slots' = slots + 2
    /\ job' = [job EXCEPT ![w] = None]
    /\ Goto(w, "idle")
    /\ UNCHANGED <<proc, conn, kind, tries, active, flags, loadVars, gateVars>>

\* ... tts arms grace and idle countdown, and the slot is free again.
Finish(w) ==
    /\ wpc[w] \in {"releaseTts", "releaseEnsure"}
    /\ slots' = slots + 1
    /\ job' = [job EXCEPT ![w] = None]
    /\ IF wpc[w] = "releaseTts" THEN grace' = "armed" /\ idleKill' = "armed"
                                ELSE UNCHANGED <<grace, idleKill>>
    /\ Goto(w, "idle")
    /\ UNCHANGED <<proc, conn, kind, tries, active, flags, loadVars, hotPolls, streak>>

-----------------------------------------------------------------------------
(* The monitor thread (ThermalGate.poll) and the watchdog (HangGuard)      *)

\* Deadlines pass.
Elapse ==
    /\ "thermal" \in Env
    /\ \/ grace = "armed" /\ grace' = "off" /\ UNCHANGED idleKill
       \/ idleKill = "armed" /\ idleKill' = "due" /\ UNCHANGED grace
    /\ UNCHANGED <<proc, conn, slots, active, flags, threadVars, loadVars, hotPolls, streak>>

Idle == active = 0 /\ "loaded" \in flags

\* Hot enough to count, the idle grace considered.
HotPoll(heat) == heat = "critical" \/ (heat = "hot" /\ grace = "off")

\* One poll.  gate: what the GPU temperature does to "blocked"; heat: the
\* hotter of GPU and CPU ("unknown" when no sensor answers; idle_temperature
\* is below temp_limit, so a GPU at its limit is hot).
Poll(gate, heat) ==
    /\ proc = "serving"
    /\ "thermal" \in Env
    /\ heat = "unknown" => gate = "between"
    /\ gate = "limit" => heat \in {"hot", "critical"}
    /\ flags' = CASE gate = "limit"  -> flags \cup {"blocked"}
                  [] gate = "cooled" -> flags \ {"blocked"}
                  [] OTHER           -> flags
    /\ hotPolls' = IF ~Idle \/ heat = "unknown" THEN hotPolls
                   ELSE IF HotPoll(heat) THEN hotPolls + 1 ELSE 0
    /\ streak' = IF Idle /\ HotPoll(heat) THEN streak + 1
                 ELSE IF heat = "unknown" THEN streak ELSE 0
    /\ proc' = IF \/ Idle /\ HotPoll(heat) /\ hotPolls' >= IdleHotPolls
                  \/ Idle /\ idleKill = "due"
               THEN "quit" ELSE "serving"
    /\ UNCHANGED <<conn, slots, active, threadVars, loadVars, grace, idleKill>>

\* A job has run past the hang timeout: _QUIT and SIGTERM, SIGKILL to follow.
\* Once _QUIT is set for another reason the watchdog has retired.
Watch ==
    /\ proc = "serving"
    /\ \E w \in Workers : wpc[w] = "hung"
    /\ proc' = "quit"
    /\ flags' = flags \cup {"sigkill"}
    /\ UNCHANGED <<conn, slots, active, threadVars, loadVars, gateVars>>

\* SIGKILL after the grace period: every open connection is closed.
Sigkill ==
    /\ "sigkill" \in flags
    /\ proc \notin {"stopped", "killed"}
    /\ proc' = "killed"
    /\ conn' = [c \in Clients |->
                  IF conn[c].st \in {"read", "queued", "running"} THEN Closed ELSE conn[c]]
    /\ UNCHANGED <<slots, active, flags, threadVars, loadVars, gateVars>>

\* A client finds no daemon and starts a new one (ensure_daemon, main).
Restart ==
    /\ proc \in {"stopped", "killed"}
    /\ proc' = "serving"
    /\ slots' = MAX_JOBS
    /\ job' = [w \in Workers |-> None]
    /\ wpc' = [w \in Workers |-> "idle"]
    /\ kind' = [w \in Workers |-> None]
    /\ tries' = [w \in Workers |-> 0]
    /\ active' = 0 /\ gens' = 0 /\ mutex' = None /\ cleared' = {} /\ flags' = {}
    /\ grace' = "off" /\ idleKill' = "off" /\ hotPolls' = 0 /\ streak' = 0
    /\ UNCHANGED conn

-----------------------------------------------------------------------------
Init ==
    /\ proc = "serving"
    /\ conn = [c \in Clients |-> Closed]
    /\ slots = MAX_JOBS
    /\ job = [w \in Workers |-> None]
    /\ wpc = [w \in Workers |-> "idle"]
    /\ kind = [w \in Workers |-> None]
    /\ tries = [w \in Workers |-> 0]
    /\ active = 0 /\ gens = 0 /\ mutex = None /\ cleared = {} /\ flags = {}
    /\ grace = "off" /\ idleKill = "off" /\ hotPolls = 0 /\ streak = 0

WorkerStep(w) ==
    /\ proc \notin {"stopped", "killed"}
    /\ \/ PassGate(w) \/ Ensure(w) \/ Drain(w) \/ LockLoad(w) \/ Load(w) \/ Unflag(w)
       \/ EnterGen(w) \/ ExitGen(w) \/ Reply(w) \/ Uncount(w) \/ Finish(w)

MainStep == StopAccepting \/ ConnsDrained \/ PoolDrained

Next ==
    \/ \E c \in Clients : Admit(c) \/ \E cmd \in {"tts", "ensure_model"}, lang \in Langs :
                                         Accept(c, cmd, lang)
    \/ \E w \in Workers : WorkerStep(w) \/ Hang(w) \/ \E c \in Clients : Take(w, c)
    \/ Quit \/ MainStep \/ Elapse \/ Watch \/ Sigkill \/ Restart
    \/ \E gate \in {"limit", "between", "cooled"}, heat \in {"unknown", "cool", "hot", "critical"} :
         Poll(gate, heat)

Spec == Init /\ [][Next]_vars

\* Threads are scheduled; a wait on _GEN_COND or _LOAD_MUTEX that is satisfied
\* again and again ends (notify_all follows every change, and a lock that is
\* released is handed to a waiter); the watchdog and the monitor run; deadlines
\* pass.
Fairness ==
    /\ \A w \in Workers : /\ WF_vars(WorkerStep(w))
                          /\ SF_vars(proc \notin {"stopped", "killed"} /\ EnterGen(w))
                          /\ SF_vars(proc \notin {"stopped", "killed"} /\ Drain(w))
                          /\ SF_vars(proc \notin {"stopped", "killed"} /\ LockLoad(w))
    /\ \A c \in Clients : /\ WF_vars(Admit(c))
                          /\ WF_vars(\E w \in Workers : Take(w, c))
    /\ WF_vars(MainStep) /\ WF_vars(Watch) /\ WF_vars(Sigkill)
    /\ WF_vars(Elapse)
    /\ WF_vars(\E gate \in {"limit", "between", "cooled"} : Poll(gate, "cool"))

FairSpec == Spec /\ Fairness
-----------------------------------------------------------------------------
(* Properties                                                              *)

WorkerPcs == {"idle", "gate", "ensure", "drain", "mutex", "load", "unflag", "unflagRaise",
              "enter", "generate", "hung", "done", "loaded", "raised",
              "finallyTts", "finallyEnsure", "releaseTts", "releaseEnsure"}

TypeOK ==
    /\ proc \in {"serving", "quit", "conns", "pool", "stopped", "killed"}
    /\ conn \in [Clients -> [st : {"none", "read", "queued", "running", "ok", "error", "busy"},
                             cmd : {"none", "tts", "ensure_model"},
                             lang : Langs \cup {None}]]
    /\ slots \in 0..MAX_JOBS
    /\ job \in [Workers -> Clients \cup {None}]
    /\ wpc \in [Workers -> WorkerPcs]
    /\ kind \in [Workers -> Langs \cup {None}]
    /\ tries \in [Workers -> 0..MaxTries]
    /\ active \in 0..MAX_JOBS
    /\ gens \in 0..MAX_JOBS
    /\ mutex \in Workers \cup {None}
    /\ cleared \subseteq Workers
    /\ flags \subseteq {"load", "loaded", "blocked", "sigkill"}
    /\ grace \in {"off", "armed"}
    /\ idleKill \in {"off", "armed", "due"}
    /\ hotPolls \in 0..IdleHotPolls
    /\ streak \in 0..IdleHotPolls

Alive == proc \notin {"stopped", "killed"}

Queued == {c \in Clients : conn[c].st = "queued"}
Busy == {w \in Workers : wpc[w] # "idle"}
Counted == {w \in Busy : wpc[w] \notin {"releaseTts", "releaseEnsure"}}
Generating == {w \in Workers : wpc[w] \in {"generate", "hung"}}

\* Every admitted command holds exactly one slot until its thread is done, so
\* the bounded semaphore is never over-released and a command that got a slot
\* always finds a free thread (_handle, _submit_tts, _submit_ensure_model).
SlotAccounting == Alive => slots + Cardinality(Queued) + Cardinality(Busy) = MAX_JOBS

\* The counters the monitor and the loaders trust are exact: _ACTIVE counts
\* the threads that execute a command, _GENS_ACTIVE the calls on the GPU, through
\* every exception path.
CountersExact == Alive => active = Cardinality(Counted) /\ gens = Cardinality(Generating)

\* A model load runs alone on the GPU (the comment on _GEN_COND) unless another
\* loader has reset the shared _LOAD_ACTIVE while this one was at work: the
\* announcement, the wait for _GENS_ACTIVE and the guard of a generation leave
\* no other gap, also when a load raises or audio forces a reload.
LoadsAlone ==
    \A w \in Workers : wpc[w] = "load" /\ w \notin cleared => Generating = {}

\* A worker speaks the language that was asked for: between the check of
\* _ensure_thread_model and the end of the generation its model is not
\* replaced by one for another language.
RightModel ==
    Alive => \A w \in Workers :
                wpc[w] \in {"enter", "generate", "hung", "done"} => kind[w] = Lang(w)

\* A clean exit cuts nobody off: when main() returns every command that was
\* read has been answered, also one that arrived while the monitor decided
\* that the daemon was idle.
NobodyCutOff ==
    proc = "stopped" => \A c \in Clients : conn[c].st \notin {"read", "queued", "running"}

\* Every command that was read is answered or its connection closed: loaders
\* and generations never wait for each other for ever, also when a load
\* raises or a GPU call hangs.
Answered ==
    \A c \in Clients : conn[c].st \in {"read", "queued", "running"} ~>
                       conn[c].st \in {"ok", "error", "busy", "none"}

\* A model load waits for all in-flight generations and blocks new ones
\* (the comment on _GEN_COND), whatever other loaders do.
LoadExcludesGeneration ==
    (\E w \in Workers : wpc[w] = "load") => Generating = {}

\* The idle-hot shutdown takes IdleHotPolls consecutive polls (ThermalGate):
\* it never fires on fewer unless the idle countdown is due.
ConsecutiveHot ==
    [][proc = "serving" /\ proc' = "quit" /\ hotPolls' # hotPolls /\ idleKill # "due"
         => streak' >= IdleHotPolls]_vars

\* A daemon that stays idle with a loaded model ends, even while cool
\* (ThermalGate: a forgotten daemon does not hold the GPU for ever).
IdleReleasesGpu == []<>~(Idle /\ proc = "serving")

\* A daemon with a hung job is killed (HangGuard).
HungDaemonDies == (\E w \in Workers : wpc[w] = "hung") ~> proc = "killed"
=============================================================================
