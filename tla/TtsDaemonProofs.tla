-------------------------- MODULE TtsDaemonProofs --------------------------
(***************************************************************************)
(* Proofs about TtsDaemon for any number of threads, connections and       *)
(* languages, and any environment.                                         *)
(***************************************************************************)
EXTENDS TtsDaemon, FiniteSetTheorems, TLAPS

Conns == [st : {"none", "read", "queued", "running", "ok", "error", "busy"},
          cmd : {"none", "tts", "ensure_model"},
          lang : Langs \cup {None}]

\* The type of the state, the bounds of the counters left open.
Typed ==
    /\ proc \in {"serving", "quit", "conns", "pool", "stopped", "killed"}
    /\ conn \in [Clients -> Conns]
    /\ slots \in Int
    /\ job \in [Workers -> Clients \cup {None}]
    /\ wpc \in [Workers -> WorkerPcs]
    /\ \A w \in Workers : wpc[w] # "idle" => job[w] \in Clients
    /\ kind \in [Workers -> Langs \cup {None}]
    /\ tries \in [Workers -> Nat]
    /\ active \in Int
    /\ gens \in Int
    /\ mutex \in Workers \cup {None}
    /\ cleared \subseteq Workers
    /\ flags \subseteq {"load", "loaded", "blocked", "sigkill"}
    /\ grace \in {"off", "armed"}
    /\ idleKill \in {"off", "armed", "due"}
    /\ hotPolls \in Nat
    /\ streak \in Nat

\* The initial state is well typed.
LEMMA TypedInit == Init => Typed
  <1>1. MAX_JOBS \in Nat
    BY FS_CardinalityType, DaemonAssumption DEF MAX_JOBS
  <1>. QED
    BY <1>1 DEF Init, Typed, Closed, Conns, WorkerPcs

\* What an answer, or a change of a command's state, does to the connections.
LEMMA AnswerEffect ==
    ASSUME conn \in [Clients -> Conns], NEW c \in Clients,
           NEW how \in {"queued", "running", "ok", "error", "busy"}, Answer(c, how)
    PROVE  /\ conn' \in [Clients -> Conns]
           /\ conn'[c].st = how /\ conn'[c].cmd = conn[c].cmd /\ conn'[c].lang = conn[c].lang
           /\ \A d \in Clients \ {c} : conn'[d] = conn[d]
  BY DEF Answer, Conns

\* Every step keeps the state well typed.
LEMMA TypedStep ==
    ASSUME Typed, [Next]_vars
    PROVE  Typed'
  <1>. USE DEF Typed, threadVars, loadVars, gateVars
  <1>1. ASSUME NEW c \in Clients, Admit(c) PROVE Typed'
    <2>1. CASE slots > 0
      BY <1>1, <2>1, AnswerEffect DEF Admit
    <2>2. CASE ~(slots > 0)
      BY <1>1, <2>2, AnswerEffect DEF Admit
    <2>. QED
      BY <2>1, <2>2
  <1>2. ASSUME NEW c \in Clients, NEW cmd \in {"tts", "ensure_model"}, NEW lang \in Langs,
               Accept(c, cmd, lang)
        PROVE  Typed'
    BY <1>2 DEF Accept, Conns
  <1>3. ASSUME NEW w \in Workers, NEW c \in Clients, Take(w, c) PROVE Typed'
    BY <1>3, AnswerEffect DEF Take, Goto, WorkerPcs
  <1>4. ASSUME NEW w \in Workers, PassGate(w) PROVE Typed'
    BY <1>4 DEF PassGate, Goto, WorkerPcs
  <1>5. ASSUME NEW w \in Workers, Ensure(w) PROVE Typed'
    BY <1>5 DEF Ensure, Goto, WorkerPcs
  <1>6. ASSUME NEW w \in Workers, Drain(w) PROVE Typed'
    BY <1>6 DEF Drain, Goto, WorkerPcs
  <1>7. ASSUME NEW w \in Workers, LockLoad(w) PROVE Typed'
    BY <1>7 DEF LockLoad, Goto, WorkerPcs
  <1>8. ASSUME NEW w \in Workers, Load(w) PROVE Typed'
    <2>1. Lang(w) \in Langs \cup {None}
      BY <1>8 DEF Load, Lang, Conns
    <2>2. kind' \in [Workers -> Langs \cup {None}]
      BY <1>8, <2>1 DEF Load
    <2>3. PICK pc \in {"unflag", "unflagRaise"} : Goto(w, pc)
      BY <1>8 DEF Load
    <2>. QED
      BY <1>8, <2>2, <2>3 DEF Load, Goto, WorkerPcs
  <1>9. ASSUME NEW w \in Workers, Unflag(w) PROVE Typed'
    BY <1>9 DEF Unflag, Goto, WorkerPcs
  <1>10. ASSUME NEW w \in Workers, EnterGen(w) PROVE Typed'
    BY <1>10 DEF EnterGen, Goto, WorkerPcs
  <1>11. ASSUME NEW w \in Workers, ExitGen(w) PROVE Typed'
    <2>1. PICK pc \in {"done", "raised", "enter", "drain"} : Goto(w, pc)
      BY <1>11 DEF ExitGen
    <2>2. flags' \subseteq {"load", "loaded", "blocked", "sigkill"}
      BY <1>11 DEF ExitGen
    <2>. QED
      BY <1>11, <2>1, <2>2 DEF ExitGen, Goto, WorkerPcs
  <1>12. ASSUME NEW w \in Workers, Reply(w) PROVE Typed'
    <2>1. conn' \in [Clients -> Conns]
      BY <1>12, AnswerEffect DEF Reply
    <2>. QED
      BY <1>12, <2>1 DEF Reply, Goto, WorkerPcs
  <1>13. ASSUME NEW w \in Workers, Uncount(w) PROVE Typed'
    BY <1>13 DEF Uncount, Goto, WorkerPcs
  <1>14. ASSUME NEW w \in Workers, Finish(w) PROVE Typed'
    BY <1>14 DEF Finish, Goto, WorkerPcs
  <1>15. ASSUME NEW w \in Workers, Hang(w) PROVE Typed'
    BY <1>15 DEF Hang, Goto, WorkerPcs
  <1>16. CASE Quit \/ StopAccepting \/ ConnsDrained \/ PoolDrained
    BY <1>16 DEF Quit, StopAccepting, ConnsDrained, PoolDrained
  <1>17. CASE Elapse
    BY <1>17 DEF Elapse
  <1>18. ASSUME NEW gate \in {"limit", "between", "cooled"},
                NEW heat \in {"unknown", "cool", "hot", "critical"}, Poll(gate, heat)
         PROVE  Typed'
    BY <1>18 DEF Poll
  <1>19. CASE Watch
    BY <1>19 DEF Watch
  <1>20. CASE Sigkill
    BY <1>20 DEF Sigkill, Closed, Conns
  <1>21. CASE Restart
    <2>1. MAX_JOBS \in Nat
      BY FS_CardinalityType, DaemonAssumption DEF MAX_JOBS
    <2>. QED
      BY <1>21, <2>1 DEF Restart, WorkerPcs
  <1>22. CASE UNCHANGED vars
    BY <1>22 DEF vars
  <1>. QED
    BY <1>1, <1>2, <1>3, <1>4, <1>5, <1>6, <1>7, <1>8, <1>9, <1>10, <1>11, <1>12, <1>13,
       <1>14, <1>15, <1>16, <1>17, <1>18, <1>19, <1>20, <1>21, <1>22
       DEF Next, WorkerStep, MainStep

-----------------------------------------------------------------------------
(* Which thread works for which connection                                 *)

\* The places of run_job at which the connection has not been answered yet.
Working == {"gate", "ensure", "drain", "mutex", "load", "unflag", "unflagRaise",
            "enter", "generate", "hung", "done", "loaded", "raised"}

\* Threads that work and connections that are being served correspond one to
\* one.
Owned ==
    Alive =>
      /\ \A w \in Workers : wpc[w] \in Working => conn[job[w]].st = "running"
      /\ \A v, w \in Workers :
            wpc[v] \in Working /\ wpc[w] \in Working /\ job[v] = job[w] => v = w
      /\ \A c \in Clients : conn[c].st = "running" =>
            \E w \in Workers : wpc[w] \in Working /\ job[w] = c

\* Nobody is waiting any more: after conn_pool.shutdown no command is left to
\* be admitted, and a process that is gone has no open connection.
Drained ==
    /\ proc = "pool" => \A c \in Clients : conn[c].st # "read"
    /\ ~Alive => \A c \in Clients : conn[c].st \notin {"read", "queued", "running"}

\* A thread that goes on with its command keeps the correspondence.
LEMMA OwnedMove ==
    ASSUME Typed, Owned, NEW w \in Workers, NEW pc \in Working, wpc[w] \in Working,
           Goto(w, pc), UNCHANGED <<proc, conn, job>>
    PROVE  Owned'
  <1>1. \A v \in Workers : wpc'[v] \in Working <=> wpc[v] \in Working
    BY DEF Typed, Goto
  <1>. QED
    BY <1>1 DEF Owned, Alive

\* Every step keeps the correspondence.
LEMMA OwnedStep ==
    ASSUME Typed, Typed', Owned, Drained, [Next]_vars
    PROVE  Owned'
  <1>. USE DEF threadVars, loadVars, gateVars
  <1>1. ASSUME NEW c \in Clients, Admit(c) PROVE Owned'
    <2>1. PICK how \in {"queued", "busy"} : Answer(c, how)
      BY <1>1 DEF Admit
    <2>2. conn[c].st = "read" /\ conn'[c].st = how
          /\ \A d \in Clients \ {c} : conn'[d] = conn[d]
      BY <1>1, <2>1, AnswerEffect DEF Admit, Typed
    <2>. QED
      BY <1>1, <2>2 DEF Admit, Owned, Alive, Typed, Working
  <1>2. ASSUME NEW c \in Clients, NEW cmd \in {"tts", "ensure_model"}, NEW lang \in Langs,
               Accept(c, cmd, lang)
        PROVE  Owned'
    <2>1. conn[c].st \in {"none", "ok", "error", "busy"} /\ conn'[c].st = "read"
          /\ \A d \in Clients \ {c} : conn'[d] = conn[d]
      BY <1>2 DEF Accept, Typed
    <2>. QED
      BY <1>2, <2>1 DEF Accept, Owned, Alive, Typed, Working
  <1>3. ASSUME NEW w \in Workers, NEW c \in Clients, Take(w, c) PROVE Owned'
    <2>1. conn[c].st = "queued" /\ conn'[c].st = "running"
          /\ \A d \in Clients \ {c} : conn'[d] = conn[d]
      BY <1>3, AnswerEffect DEF Take, Typed
    <2>2. wpc'[w] \in {"gate", "ensure"} /\ job'[w] = c /\ wpc[w] = "idle"
          /\ \A v \in Workers \ {w} : wpc'[v] = wpc[v] /\ job'[v] = job[v]
      BY <1>3 DEF Take, Typed, Goto
    <2>3. Alive /\ Alive'
      BY <1>3 DEF Take, Alive
    <2>4. \A v \in Workers \ {w} : wpc[v] \in Working => job[v] # c
      BY <2>1, <2>3 DEF Owned
    <2>5. \A v \in Workers : wpc'[v] \in Working => conn'[job'[v]].st = "running"
      BY <2>1, <2>2, <2>3, <2>4 DEF Owned, Typed, Working
    <2>6. \A u, v \in Workers :
            wpc'[u] \in Working /\ wpc'[v] \in Working /\ job'[u] = job'[v] => u = v
      BY <2>2, <2>3, <2>4 DEF Owned
    <2>7. \A d \in Clients : conn'[d].st = "running" =>
            \E v \in Workers : wpc'[v] \in Working /\ job'[v] = d
      BY <2>1, <2>2, <2>3 DEF Owned, Working
    <2>. QED
      BY <2>5, <2>6, <2>7 DEF Owned
  <1>4. ASSUME NEW w \in Workers, PassGate(w) PROVE Owned'
    BY <1>4, OwnedMove DEF PassGate, Working
  <1>5. ASSUME NEW w \in Workers, Ensure(w) PROVE Owned'
    <2>1. PICK pc \in Working : Goto(w, pc)
      BY <1>5 DEF Ensure, Working
    <2>. QED
      BY <1>5, <2>1, OwnedMove DEF Ensure, Working
  <1>6. ASSUME NEW w \in Workers, Drain(w) PROVE Owned'
    BY <1>6, OwnedMove DEF Drain, Working
  <1>7. ASSUME NEW w \in Workers, LockLoad(w) PROVE Owned'
    BY <1>7, OwnedMove DEF LockLoad, Working
  <1>8. ASSUME NEW w \in Workers, Load(w) PROVE Owned'
    BY <1>8, OwnedMove DEF Load, Working
  <1>9. ASSUME NEW w \in Workers, Unflag(w) PROVE Owned'
    <2>1. PICK pc \in Working : Goto(w, pc)
      BY <1>9 DEF Unflag, Working
    <2>. QED
      BY <1>9, <2>1, OwnedMove DEF Unflag, Working
  <1>10. ASSUME NEW w \in Workers, EnterGen(w) PROVE Owned'
    BY <1>10, OwnedMove DEF EnterGen, Working
  <1>11. ASSUME NEW w \in Workers, ExitGen(w) PROVE Owned'
    <2>1. PICK pc \in Working : Goto(w, pc)
      BY <1>11 DEF ExitGen, Working
    <2>. QED
      BY <1>11, <2>1, OwnedMove DEF ExitGen, Working
  <1>12. ASSUME NEW w \in Workers, Reply(w) PROVE Owned'
    <2>1. job[w] \in Clients /\ wpc[w] \in Working
      BY <1>12 DEF Reply, Typed, Working
    <2>2. PICK how \in {"ok", "error"} : Answer(job[w], how)
      BY <1>12 DEF Reply
    <2>3. conn'[job[w]].st = how /\ \A d \in Clients \ {job[w]} : conn'[d] = conn[d]
      BY <2>1, <2>2, AnswerEffect DEF Typed
    <2>4. wpc'[w] \in {"finallyTts", "finallyEnsure"}
          /\ \A v \in Workers \ {w} : wpc'[v] = wpc[v]
      BY <1>12 DEF Reply, Typed, Goto
    <2>5. job' = job /\ proc' = proc
      BY <1>12 DEF Reply
    <2>6. SUFFICES ASSUME Alive PROVE Owned'
      BY <2>5 DEF Owned, Alive
    <2>7. \A v \in Workers : wpc'[v] \in Working =>
             v # w /\ wpc[v] \in Working /\ job[v] \in Clients \ {job[w]}
      BY <2>1, <2>4, <2>6 DEF Owned, Working, Typed
    <2>8. \A v \in Workers : wpc'[v] \in Working => conn'[job'[v]].st = "running"
      BY <2>3, <2>5, <2>6, <2>7 DEF Owned
    <2>9. \A d \in Clients : conn'[d].st = "running" =>
            \E v \in Workers : wpc'[v] \in Working /\ job'[v] = d
      BY <2>1, <2>3, <2>4, <2>5, <2>6 DEF Owned
    <2>. QED
      BY <2>5, <2>6, <2>7, <2>8, <2>9 DEF Owned
  <1>13. ASSUME NEW w \in Workers, Uncount(w) \/ Finish(w) PROVE Owned'
    <2>1. wpc[w] \notin Working /\ wpc'[w] \notin Working
          /\ \A v \in Workers \ {w} : wpc'[v] = wpc[v] /\ job'[v] = job[v]
      BY <1>13 DEF Uncount, Finish, Typed, Goto, Working
    <2>2. proc' = proc /\ conn' = conn
      BY <1>13 DEF Uncount, Finish
    <2>. QED
      BY <2>1, <2>2 DEF Owned, Alive
  <1>14. ASSUME NEW w \in Workers, Hang(w) PROVE Owned'
    BY <1>14, OwnedMove DEF Hang, Working
  <1>15. CASE Quit \/ StopAccepting \/ ConnsDrained \/ PoolDrained
    BY <1>15 DEF Quit, StopAccepting, ConnsDrained, PoolDrained, Owned, Alive
  <1>16. CASE Elapse
    BY <1>16 DEF Elapse, Owned, Alive
  <1>17. ASSUME NEW gate \in {"limit", "between", "cooled"},
                NEW heat \in {"unknown", "cool", "hot", "critical"}, Poll(gate, heat)
         PROVE  Owned'
    BY <1>17 DEF Poll, Owned, Alive
  <1>18. CASE Watch
    BY <1>18 DEF Watch, Owned, Alive
  <1>19. CASE Sigkill
    BY <1>19 DEF Sigkill, Owned, Alive
  <1>20. CASE Restart
    BY <1>20 DEF Restart, Drained, Owned, Alive, Working
  <1>21. CASE UNCHANGED vars
    BY <1>21 DEF vars, Owned, Alive
  <1>. QED
    BY <1>1, <1>2, <1>3, <1>4, <1>5, <1>6, <1>7, <1>8, <1>9, <1>10, <1>11, <1>12, <1>13,
       <1>14, <1>15, <1>16, <1>17, <1>18, <1>19, <1>20, <1>21
       DEF Next, WorkerStep, MainStep

\* Every step of shutdown and every command in its way keeps Drained.
LEMMA DrainedStep ==
    ASSUME Typed, Owned, Drained, [Next]_vars
    PROVE  Drained'
  <1>. USE DEF threadVars, loadVars, gateVars
  <1>1. ASSUME NEW c \in Clients, Admit(c) PROVE Drained'
    BY <1>1 DEF Admit, Drained, Alive
  <1>2. ASSUME NEW c \in Clients, NEW cmd \in {"tts", "ensure_model"}, NEW lang \in Langs,
               Accept(c, cmd, lang)
        PROVE  Drained'
    BY <1>2 DEF Accept, Drained, Alive
  <1>3. ASSUME NEW w \in Workers, NEW c \in Clients, Take(w, c) PROVE Drained'
    <2>1. conn'[c].st = "running" /\ \A d \in Clients \ {c} : conn'[d] = conn[d]
      BY <1>3, AnswerEffect DEF Take, Typed
    <2>. QED
      BY <1>3, <2>1 DEF Take, Drained, Alive
  <1>4. ASSUME NEW w \in Workers, Reply(w), Alive PROVE Drained'
    <2>1. PICK how \in {"ok", "error"} : Answer(job[w], how)
      BY <1>4 DEF Reply
    <2>2. job[w] \in Clients
      BY <1>4 DEF Reply, Typed
    <2>3. conn'[job[w]].st = how /\ \A d \in Clients \ {job[w]} : conn'[d] = conn[d]
      BY <2>1, <2>2, AnswerEffect DEF Typed
    <2>. QED
      BY <1>4, <2>3 DEF Reply, Drained, Alive
  <1>5. ASSUME NEW w \in Workers,
               \/ PassGate(w) \/ Ensure(w) \/ Drain(w) \/ LockLoad(w) \/ Load(w) \/ Unflag(w)
               \/ EnterGen(w) \/ ExitGen(w) \/ Uncount(w) \/ Finish(w) \/ Hang(w)
        PROVE  Drained'
    <2>1. proc' = proc /\ conn' = conn
      BY <1>5 DEF PassGate, Ensure, Drain, LockLoad, Load, Unflag, EnterGen, ExitGen,
                  Uncount, Finish, Hang
    <2>. QED
      BY <2>1 DEF Drained, Alive
  <1>6. CASE Quit \/ StopAccepting \/ ConnsDrained
    BY <1>6 DEF Quit, StopAccepting, ConnsDrained, Drained, Alive
  <1>7. CASE PoolDrained
    <2>1. \A c \in Clients : conn[c].st # "running"
      BY <1>7 DEF PoolDrained, Owned, Alive, Working
    <2>. QED
      BY <1>7, <2>1 DEF PoolDrained, Drained, Alive
  <1>8. CASE Elapse \/ Watch
    BY <1>8 DEF Elapse, Watch, Drained, Alive
  <1>9. ASSUME NEW gate \in {"limit", "between", "cooled"},
               NEW heat \in {"unknown", "cool", "hot", "critical"}, Poll(gate, heat)
        PROVE  Drained'
    BY <1>9 DEF Poll, Drained, Alive
  <1>10. CASE Sigkill
    BY <1>10 DEF Sigkill, Drained, Alive, Closed
  <1>11. CASE Restart
    BY <1>11 DEF Restart, Drained, Alive
  <1>12. CASE UNCHANGED vars
    BY <1>12 DEF vars, Drained, Alive
  <1>. QED
    BY <1>1, <1>2, <1>3, <1>4, <1>5, <1>6, <1>7, <1>8, <1>9, <1>10, <1>11, <1>12
       DEF Next, WorkerStep, MainStep, Alive

\* The correspondence of threads and connections, for all time.
LEMMA Correspondence == Spec => [](Typed /\ Owned /\ Drained)
  <1>1. Init => Typed /\ Owned /\ Drained
    BY TypedInit DEF Init, Owned, Drained, Alive, Working, Closed
  <1>2. Typed /\ Owned /\ Drained /\ [Next]_vars => (Typed /\ Owned /\ Drained)'
    BY TypedStep, OwnedStep, DrainedStep
  <1>. QED
    BY <1>1, <1>2, PTL DEF Spec

\* A clean exit of the daemon cuts nobody off: when main() returns, every
\* command that was read has been answered (conn_pool and TTS_POOL shutdown).
THEOREM CleanExit == Spec => []NobodyCutOff
  <1>1. Drained => NobodyCutOff
    BY DEF Drained, NobodyCutOff, Alive
  <1>. QED
    BY <1>1, Correspondence, PTL

-----------------------------------------------------------------------------
(* Loads and models                                                        *)

\* RightModel also has to hold of a thread that has just loaded its model.
ModelKept ==
    Alive => \A w \in Workers :
      wpc[w] \in {"unflag", "enter", "generate", "hung", "done"} => kind[w] = Lang(w)

\* Every step keeps the model of a thread that is past its check, and the
\* language of the command it works for.
LEMMA ModelKeptStep ==
    ASSUME Typed, Typed', Owned, Drained, ModelKept, [Next]_vars
    PROVE  ModelKept'
  <1>. USE DEF threadVars, loadVars, gateVars
  <1>1. ASSUME NEW w \in Workers, kind' = kind, job' = job,
               \A v \in Workers \ {w} : wpc'[v] = wpc[v],
               \A c \in Clients : conn'[c].lang = conn[c].lang,
               Alive' => Alive,
               \/ wpc'[w] \notin {"unflag", "enter", "generate", "hung", "done"}
               \/ kind[w] = Lang(w)
        PROVE  ModelKept'
    <2>1. \A v \in Workers : wpc'[v] # "idle" => Lang(v)' = Lang(v)
      BY <1>1 DEF Lang, Typed
    <2>. QED
      BY <1>1, <2>1 DEF ModelKept
  <1>2. ASSUME NEW c \in Clients, Admit(c) PROVE ModelKept'
    <2>1. PICK how \in {"queued", "busy"} : Answer(c, how)
      BY <1>2 DEF Admit
    <2>2. \A d \in Clients : conn'[d].lang = conn[d].lang
      BY <2>1, AnswerEffect DEF Typed
    <2>. QED
      BY <1>2, <2>2 DEF Admit, ModelKept, Alive, Lang, Typed
  <1>3. ASSUME NEW c \in Clients, NEW cmd \in {"tts", "ensure_model"}, NEW lang \in Langs,
               Accept(c, cmd, lang)
        PROVE  ModelKept'
    <2>1. Alive /\ \A d \in Clients \ {c} : conn'[d] = conn[d]
      BY <1>3 DEF Accept, Alive, Typed
    <2>2. \A w \in Workers : wpc[w] \in Working => job[w] # c
      BY <1>3, <2>1 DEF Accept, Owned
    <2>. QED
      BY <1>3, <2>1, <2>2 DEF Accept, ModelKept, Lang, Typed, Working
  <1>4. ASSUME NEW w \in Workers, NEW c \in Clients, Take(w, c) PROVE ModelKept'
    <2>1. \A d \in Clients : conn'[d].lang = conn[d].lang
      BY <1>4, AnswerEffect DEF Take, Typed
    <2>2. wpc'[w] \in {"gate", "ensure"}
          /\ \A v \in Workers \ {w} : wpc'[v] = wpc[v] /\ job'[v] = job[v]
      BY <1>4 DEF Take, Goto, Typed
    <2>. QED
      BY <1>4, <2>1, <2>2 DEF Take, ModelKept, Alive, Lang, Typed
  <1>5. ASSUME NEW w \in Workers,
               \/ PassGate(w) \/ Ensure(w) \/ Drain(w) \/ Unflag(w) \/ EnterGen(w)
               \/ ExitGen(w) \/ Uncount(w) \/ Hang(w)
        PROVE  ModelKept'
    <2>1. kind' = kind /\ job' = job /\ conn' = conn /\ proc' = proc
      BY <1>5 DEF PassGate, Ensure, Drain, Unflag, EnterGen, ExitGen, Uncount, Hang
    <2>2. \A v \in Workers \ {w} : wpc'[v] = wpc[v]
      BY <1>5 DEF PassGate, Ensure, Drain, Unflag, EnterGen, ExitGen, Uncount, Hang,
                  Goto, Typed
    <2>3. SUFFICES ASSUME Alive PROVE ModelKept'
      BY <2>1 DEF ModelKept, Alive
    <2>4. \/ wpc'[w] \notin {"unflag", "enter", "generate", "hung", "done"}
          \/ kind[w] = Lang(w)
      <3>1. CASE PassGate(w) \/ Drain(w) \/ Uncount(w)
        BY <3>1 DEF PassGate, Drain, Uncount, Goto, Typed
      <3>2. CASE Ensure(w)
        BY <3>2 DEF Ensure, Goto, Typed
      <3>3. CASE Unflag(w)
        BY <2>3, <3>3 DEF Unflag, Goto, Typed, ModelKept
      <3>4. CASE EnterGen(w) \/ ExitGen(w) \/ Hang(w)
        BY <2>3, <3>4 DEF EnterGen, ExitGen, Hang, ModelKept
      <3>. QED
        BY <1>5, <3>1, <3>2, <3>3, <3>4
    <2>. QED
      BY <1>1, <2>1, <2>2, <2>3, <2>4
  <1>6. ASSUME NEW w \in Workers, LockLoad(w) PROVE ModelKept'
    <2>1. wpc'[w] = "load" /\ \A v \in Workers \ {w} : wpc'[v] = wpc[v] /\ kind'[v] = kind[v]
      BY <1>6 DEF LockLoad, Goto, Typed
    <2>. QED
      BY <1>6, <2>1 DEF LockLoad, ModelKept, Alive, Lang
  <1>7. ASSUME NEW w \in Workers, Load(w) PROVE ModelKept'
    <2>1. wpc'[w] = "unflag" => kind'[w] = Lang(w)
      BY <1>7 DEF Load, Goto, Typed
    <2>2. wpc'[w] \in {"unflag", "unflagRaise"}
          /\ \A v \in Workers \ {w} : wpc'[v] = wpc[v] /\ kind'[v] = kind[v]
      BY <1>7 DEF Load, Goto, Typed
    <2>. QED
      BY <1>7, <2>1, <2>2 DEF Load, ModelKept, Alive, Lang
  <1>8. ASSUME NEW w \in Workers, Reply(w) PROVE ModelKept'
    <2>1. PICK how \in {"ok", "error"} : Answer(job[w], how)
      BY <1>8 DEF Reply
    <2>2. job[w] \in Clients
      BY <1>8 DEF Reply, Typed
    <2>3. \A d \in Clients : conn'[d].lang = conn[d].lang
      BY <2>1, <2>2, AnswerEffect DEF Typed
    <2>4. wpc'[w] \in {"finallyTts", "finallyEnsure"} /\ \A v \in Workers \ {w} : wpc'[v] = wpc[v]
      BY <1>8 DEF Reply, Goto, Typed
    <2>5. kind' = kind /\ job' = job /\ (Alive' => Alive)
      BY <1>8 DEF Reply, Alive
    <2>. QED
      BY <1>1, <2>3, <2>4, <2>5
  <1>9. ASSUME NEW w \in Workers, Finish(w) PROVE ModelKept'
    <2>1. wpc'[w] = "idle" /\ \A v \in Workers \ {w} : wpc'[v] = wpc[v] /\ job'[v] = job[v]
      BY <1>9 DEF Finish, Goto, Typed
    <2>. QED
      BY <1>9, <2>1 DEF Finish, ModelKept, Alive, Lang
  <1>10. CASE Restart
    BY <1>10 DEF Restart, ModelKept
  <1>11. CASE Sigkill
    BY <1>11 DEF Sigkill, ModelKept, Alive
  <1>12. CASE UNCHANGED <<wpc, kind, job, conn>> /\ (Alive' => Alive)
    BY <1>12 DEF ModelKept, Lang
  <1>13. ASSUME \/ Quit \/ MainStep \/ Elapse \/ Watch
                \/ \E gate \in {"limit", "between", "cooled"},
                      heat \in {"unknown", "cool", "hot", "critical"} : Poll(gate, heat)
                \/ UNCHANGED vars
         PROVE  UNCHANGED <<wpc, kind, job, conn>> /\ (Alive' => Alive)
    BY <1>13 DEF Quit, MainStep, StopAccepting, ConnsDrained, PoolDrained,
                 Elapse, Watch, Poll, Alive, vars
  <1>. QED
    BY <1>2, <1>3, <1>4, <1>5, <1>6, <1>7, <1>8, <1>9, <1>10, <1>11, <1>12, <1>13
       DEF Next, WorkerStep

\* The model a thread found or loaded is the one it speaks with, in the
\* language its command asked for (_ensure_thread_model to the answer).
THEOREM SpeaksRightLanguage == Spec => []RightModel
  <1>1. Init => ModelKept
    BY DEF Init, ModelKept
  <1>2. Typed /\ Typed' /\ Owned /\ Drained /\ ModelKept /\ [Next]_vars => ModelKept'
    BY ModelKeptStep
  <1>3. ModelKept => RightModel
    BY DEF ModelKept, RightModel
  <1>. QED
    BY <1>1, <1>2, <1>3, Correspondence, PTL DEF Spec
-----------------------------------------------------------------------------
(* Slots and counters                                                      *)

\* SlotAccounting, and that it speaks of a finite set of waiting commands.
Accounted ==
    Alive => /\ IsFiniteSet(Queued)
             /\ slots + Cardinality(Queued) + Cardinality(Busy) = MAX_JOBS

\* A set that gains one element counts one more.
LEMMA OneMore ==
    ASSUME NEW S, NEW T, IsFiniteSet(S), NEW x, x \notin S, T = S \cup {x}
    PROVE  IsFiniteSet(T) /\ Cardinality(S) \in Nat /\ Cardinality(T) = Cardinality(S) + 1
  BY FS_AddElement, FS_CardinalityType

\* A set that loses one element counts one less.
LEMMA OneLess ==
    ASSUME NEW S, NEW T, IsFiniteSet(S), NEW x \in S, T = S \ {x}
    PROVE  IsFiniteSet(T) /\ Cardinality(S) \in Nat /\ Cardinality(T) = Cardinality(S) - 1
  BY FS_RemoveElement, FS_CardinalityType

\* There are finitely many threads, so every set of them can be counted.
LEMMA ThreadsFinite ==
    /\ IsFiniteSet(Busy) /\ Cardinality(Busy) \in Nat
    /\ IsFiniteSet(Counted) /\ Cardinality(Counted) \in Nat /\ Cardinality(Counted) <= MAX_JOBS
    /\ IsFiniteSet(Generating) /\ Cardinality(Generating) \in Nat
    /\ Cardinality(Generating) <= MAX_JOBS
  <1>1. Busy \subseteq Workers /\ Counted \subseteq Workers /\ Generating \subseteq Workers
    BY DEF Busy, Counted, Generating
  <1>. QED
    BY <1>1, FS_Subset, FS_CardinalityType, DaemonAssumption DEF MAX_JOBS

\* A step of a thread from one place to another, as the three sets see it.
LEMMA Moved ==
    ASSUME Typed, NEW w \in Workers, NEW pc \in WorkerPcs, Goto(w, pc)
    PROVE  /\ Busy' = IF pc = "idle" THEN Busy \ {w} ELSE Busy \cup {w}
           /\ Counted' = IF pc \in {"idle", "releaseTts", "releaseEnsure"}
                         THEN Counted \ {w} ELSE Counted \cup {w}
           /\ Generating' = IF pc \in {"generate", "hung"}
                            THEN Generating \cup {w} ELSE Generating \ {w}
  <1>1. wpc'[w] = pc /\ \A v \in Workers \ {w} : wpc'[v] = wpc[v]
    BY DEF Typed, Goto
  <1>2. Busy' = IF pc = "idle" THEN Busy \ {w} ELSE Busy \cup {w}
    BY <1>1 DEF Busy
  <1>3. Generating' = IF pc \in {"generate", "hung"} THEN Generating \cup {w} ELSE Generating \ {w}
    BY <1>1 DEF Generating
  <1>4. Counted' = IF pc \in {"idle", "releaseTts", "releaseEnsure"}
                   THEN Counted \ {w} ELSE Counted \cup {w}
    BY <1>1 DEF Counted, Busy
  <1>. QED
    BY <1>2, <1>3, <1>4

\* A thread that goes on, outside the guard of the GPU, changes no count.
LEMMA CountsKept ==
    ASSUME Typed, CountersExact, NEW w \in Workers, NEW pc \in Working \ {"generate", "hung"},
           wpc[w] \in Working \ {"generate", "hung"}, Goto(w, pc),
           UNCHANGED <<proc, active, gens>>
    PROVE  CountersExact'
  <1>1. pc \in WorkerPcs
    BY DEF Working, WorkerPcs
  <1>2. Counted' = Counted /\ Generating' = Generating
    BY <1>1, Moved DEF Working, Counted, Busy, Generating
  <1>. QED
    BY <1>2 DEF CountersExact, Alive

\* Every step keeps the counters exact.
LEMMA CountsStep ==
    ASSUME Typed, CountersExact, [Next]_vars
    PROVE  CountersExact'
  <1>. USE DEF threadVars, loadVars, gateVars
  <1>0. ASSUME wpc' = wpc, active' = active, gens' = gens, Alive' => Alive
        PROVE  CountersExact'
    <2>1. Counted' = Counted /\ Generating' = Generating
      BY <1>0 DEF Counted, Busy, Generating
    <2>. QED
      BY <1>0, <2>1 DEF CountersExact
  <1>1. ASSUME NEW w \in Workers, NEW c \in Clients, Take(w, c) PROVE CountersExact'
    <2>1. PICK pc \in {"gate", "ensure"} : Goto(w, pc)
      BY <1>1 DEF Take
    <2>2. Counted' = Counted \cup {w} /\ Generating' = Generating /\ w \notin Counted
      BY <1>1, <2>1, Moved DEF Take, WorkerPcs, Counted, Busy, Generating
    <2>3. Cardinality(Counted') = Cardinality(Counted) + 1
      BY <2>2, ThreadsFinite, OneMore
    <2>. QED
      BY <1>1, <2>2, <2>3 DEF Take, CountersExact, Alive
  <1>2. ASSUME NEW w \in Workers, PassGate(w) \/ Drain(w) \/ LockLoad(w) \/ Load(w)
        PROVE  CountersExact'
    <2>1. PICK pc \in {"ensure", "raised", "mutex", "load", "unflag", "unflagRaise"} : Goto(w, pc)
      BY <1>2 DEF PassGate, Drain, LockLoad, Load
    <2>2. /\ wpc[w] \in {"gate", "drain", "mutex", "load"}
          /\ UNCHANGED <<proc, active, gens>>
      BY <1>2 DEF PassGate, Drain, LockLoad, Load
    <2>. QED
      BY <2>1, <2>2, CountsKept DEF Working
  <1>3. ASSUME NEW w \in Workers, Ensure(w) PROVE CountersExact'
    <2>1. PICK pc \in {"enter", "loaded", "drain"} : Goto(w, pc)
      BY <1>3 DEF Ensure
    <2>. QED
      BY <1>3, <2>1, CountsKept DEF Working, Ensure
  <1>4. ASSUME NEW w \in Workers, Unflag(w) PROVE CountersExact'
    <2>1. PICK pc \in {"enter", "loaded", "raised"} : Goto(w, pc)
      BY <1>4 DEF Unflag
    <2>. QED
      BY <1>4, <2>1, CountsKept DEF Working, Unflag
  <1>5. ASSUME NEW w \in Workers, EnterGen(w) PROVE CountersExact'
    <2>1. /\ Counted' = Counted
          /\ Generating' = Generating \cup {w} /\ w \notin Generating
      BY <1>5, Moved DEF EnterGen, WorkerPcs, Counted, Busy, Generating
    <2>2. Cardinality(Generating') = Cardinality(Generating) + 1
      BY <2>1, ThreadsFinite, OneMore
    <2>. QED
      BY <1>5, <2>1, <2>2 DEF EnterGen, CountersExact, Alive
  <1>6. ASSUME NEW w \in Workers, ExitGen(w) PROVE CountersExact'
    <2>1. PICK pc \in {"done", "raised", "enter", "drain"} : Goto(w, pc)
      BY <1>6 DEF ExitGen
    <2>2. /\ Counted' = Counted
          /\ Generating' = Generating \ {w} /\ w \in Generating
      BY <1>6, <2>1, Moved DEF ExitGen, WorkerPcs, Counted, Busy, Generating
    <2>3. Cardinality(Generating') = Cardinality(Generating) - 1
      BY <2>2, ThreadsFinite, OneLess
    <2>. QED
      BY <1>6, <2>2, <2>3 DEF ExitGen, CountersExact, Alive
  <1>7. ASSUME NEW w \in Workers, Hang(w) PROVE CountersExact'
    <2>1. Counted' = Counted /\ Generating' = Generating
      BY <1>7, Moved DEF Hang, WorkerPcs, Counted, Busy, Generating
    <2>. QED
      BY <1>7, <2>1 DEF Hang, CountersExact, Alive
  <1>8. ASSUME NEW w \in Workers, Reply(w) PROVE CountersExact'
    <2>1. PICK pc \in {"finallyTts", "finallyEnsure"} : Goto(w, pc)
      BY <1>8 DEF Reply
    <2>2. Counted' = Counted /\ Generating' = Generating
      BY <1>8, <2>1, Moved DEF Reply, WorkerPcs, Counted, Busy, Generating
    <2>. QED
      BY <1>8, <2>2 DEF Reply, CountersExact, Alive
  <1>9. ASSUME NEW w \in Workers, Uncount(w) PROVE CountersExact'
    <2>1. PICK pc \in {"releaseTts", "releaseEnsure"} : Goto(w, pc)
      BY <1>9 DEF Uncount
    <2>2. Counted' = Counted \ {w} /\ Generating' = Generating /\ w \in Counted
      BY <1>9, <2>1, Moved DEF Uncount, WorkerPcs, Counted, Busy, Generating
    <2>3. Cardinality(Counted') = Cardinality(Counted) - 1
      BY <2>2, ThreadsFinite, OneLess
    <2>. QED
      BY <1>9, <2>2, <2>3 DEF Uncount, CountersExact, Alive
  <1>10. ASSUME NEW w \in Workers, Finish(w) PROVE CountersExact'
    <2>1. Counted' = Counted /\ Generating' = Generating
      BY <1>10, Moved DEF Finish, WorkerPcs, Counted, Busy, Generating
    <2>. QED
      BY <1>10, <2>1 DEF Finish, CountersExact, Alive
  <1>11. CASE Restart
    <2>1. Counted' = {} /\ Generating' = {}
      BY <1>11 DEF Restart, Counted, Busy, Generating
    <2>. QED
      BY <1>11, <2>1, FS_EmptySet DEF Restart, CountersExact
  <1>12. ASSUME NEW c \in Clients, Admit(c) PROVE CountersExact'
    BY <1>12, <1>0 DEF Admit, Alive
  <1>13. ASSUME NEW c \in Clients, NEW cmd \in {"tts", "ensure_model"}, NEW lang \in Langs,
                Accept(c, cmd, lang)
         PROVE  CountersExact'
    BY <1>13, <1>0 DEF Accept, Alive
  <1>14. CASE Quit \/ StopAccepting \/ ConnsDrained \/ PoolDrained \/ Elapse \/ Watch \/ Sigkill
    BY <1>14, <1>0 DEF Quit, StopAccepting, ConnsDrained, PoolDrained, Elapse, Watch, Sigkill, Alive
  <1>15. ASSUME NEW gate \in {"limit", "between", "cooled"},
                NEW heat \in {"unknown", "cool", "hot", "critical"}, Poll(gate, heat)
         PROVE  CountersExact'
    BY <1>15, <1>0 DEF Poll, Alive
  <1>16. CASE UNCHANGED vars
    BY <1>16, <1>0 DEF vars, Alive
  <1>. QED
    BY <1>1, <1>2, <1>3, <1>4, <1>5, <1>6, <1>7, <1>8, <1>9, <1>10, <1>11, <1>12, <1>13,
       <1>14, <1>15, <1>16
       DEF Next, WorkerStep, MainStep

\* _ACTIVE is the number of threads that execute a command and _GENS_ACTIVE
\* the number of calls on the GPU, through every exception path of run_job and
\* of the guard.
THEOREM CountersTrue == Spec => []CountersExact
  <1>1. Init => CountersExact
    <2>1. Init => Counted = {} /\ Generating = {}
      BY DEF Init, Counted, Busy, Generating
    <2>. QED
      BY <2>1, FS_EmptySet DEF Init, CountersExact
  <1>2. Typed /\ CountersExact /\ [Next]_vars => CountersExact'
    BY CountsStep
  <1>. QED
    BY <1>1, <1>2, Correspondence, PTL DEF Spec

-----------------------------------------------------------------------------
(* Loads and generations                                                   *)

\* A loader that was not undercut keeps _LOAD_ACTIVE set from its announcement
\* to its last step, and once it has seen _GENS_ACTIVE at 0 nothing generates.
Announced ==
    \A w \in Workers : w \notin cleared =>
       /\ wpc[w] \in {"drain", "mutex", "load"} => "load" \in flags
       /\ wpc[w] \in {"mutex", "load"} => Generating = {}

\* A step of one thread that starts no generation and resets no announcement
\* only has to respect it where that thread goes.
LEMMA AnnouncedMove ==
    ASSUME Typed, Announced, NEW w \in Workers, NEW pc \in WorkerPcs, Goto(w, pc),
           pc \in {"generate", "hung"} => w \in Generating,
           cleared' = cleared, "load" \in flags => "load" \in flags',
           pc \in {"drain", "mutex", "load"} /\ w \notin cleared => "load" \in flags',
           pc \in {"mutex", "load"} /\ w \notin cleared => Generating = {}
    PROVE  Announced'
  <1>1. wpc'[w] = pc /\ \A v \in Workers \ {w} : wpc'[v] = wpc[v]
    BY DEF Typed, Goto
  <1>2. Generating' \subseteq Generating
    BY <1>1 DEF Generating
  <1>. QED
    BY <1>1, <1>2 DEF Announced

\* Every step keeps the announcements.
LEMMA AnnouncedStep ==
    ASSUME Typed, CountersExact, Announced, [Next]_vars
    PROVE  Announced'
  <1>. USE DEF threadVars, loadVars, gateVars
  <1>0. ASSUME UNCHANGED <<wpc, cleared>>, "load" \in flags => "load" \in flags'
        PROVE  Announced'
    <2>1. Generating' = Generating
      BY <1>0 DEF Generating
    <2>. QED
      BY <1>0, <2>1 DEF Announced
  <1>1. ASSUME NEW w \in Workers, Alive, Drain(w) PROVE Announced'
    <2>1. Generating = {}
      BY <1>1, ThreadsFinite, FS_EmptySet DEF Drain, CountersExact
    <2>. QED
      BY <1>1, <2>1, AnnouncedMove DEF Drain, Announced, WorkerPcs
  <1>2. ASSUME NEW w \in Workers, LockLoad(w) PROVE Announced'
    BY <1>2, AnnouncedMove DEF LockLoad, Announced, WorkerPcs
  <1>3. ASSUME NEW w \in Workers, Load(w) PROVE Announced'
    <2>1. PICK pc \in {"unflag", "unflagRaise"} : Goto(w, pc)
      BY <1>3 DEF Load
    <2>2. cleared' = cleared /\ ("load" \in flags => "load" \in flags')
      BY <1>3 DEF Load
    <2>. QED
      BY <2>1, <2>2, AnnouncedMove DEF WorkerPcs
  <1>4. ASSUME NEW w \in Workers, Unflag(w) PROVE Announced'
    <2>1. PICK pc \in {"enter", "loaded", "raised"} : Goto(w, pc)
      BY <1>4 DEF Unflag
    <2>2. /\ wpc'[w] \notin {"drain", "mutex", "load"}
          /\ \A v \in Workers \ {w} : wpc'[v] = wpc[v]
      BY <2>1 DEF Typed, Goto
    <2>3. \A v \in Workers \ {w} : wpc[v] \in {"drain", "mutex", "load"} => v \in cleared'
      BY <1>4 DEF Unflag
    <2>. QED
      BY <2>2, <2>3 DEF Announced
  <1>5. ASSUME NEW w \in Workers, EnterGen(w) PROVE Announced'
    <2>1. "load" \notin flags /\ flags' = flags /\ cleared' = cleared
      BY <1>5 DEF EnterGen
    <2>2. wpc'[w] = "generate" /\ \A v \in Workers \ {w} : wpc'[v] = wpc[v]
      BY <1>5 DEF EnterGen, Goto, Typed
    <2>. QED
      BY <2>1, <2>2 DEF Announced
  <1>6. ASSUME NEW w \in Workers, ExitGen(w) PROVE Announced'
    <2>1. PICK pc \in {"done", "raised", "enter", "drain"} :
            Goto(w, pc) /\ (pc = "drain" => "load" \in flags')
      BY <1>6 DEF ExitGen
    <2>2. cleared' = cleared /\ ("load" \in flags => "load" \in flags')
      BY <1>6 DEF ExitGen
    <2>. QED
      BY <2>1, <2>2, AnnouncedMove DEF WorkerPcs
  <1>7. ASSUME NEW w \in Workers, Ensure(w) PROVE Announced'
    <2>1. PICK pc \in {"enter", "loaded", "drain"} :
            Goto(w, pc) /\ (pc = "drain" => "load" \in flags')
      BY <1>7 DEF Ensure
    <2>2. cleared' = cleared /\ ("load" \in flags => "load" \in flags')
      BY <1>7 DEF Ensure
    <2>. QED
      BY <2>1, <2>2, AnnouncedMove DEF WorkerPcs
  <1>8. ASSUME NEW w \in Workers,
               \/ PassGate(w) \/ Reply(w) \/ Uncount(w) \/ Finish(w) \/ Hang(w)
               \/ \E c \in Clients : Take(w, c)
        PROVE  Announced'
    <2>1. PICK pc \in WorkerPcs \ {"drain", "mutex", "load", "generate"} :
            Goto(w, pc) /\ (pc = "hung" => wpc[w] = "generate")
      BY <1>8 DEF PassGate, Reply, Uncount, Finish, Hang, Take, WorkerPcs
    <2>2. cleared' = cleared /\ flags' = flags
      BY <1>8 DEF PassGate, Reply, Uncount, Finish, Hang, Take
    <2>. QED
      BY <2>1, <2>2, AnnouncedMove DEF Generating
  <1>9. CASE Restart
    BY <1>9 DEF Restart, Announced
  <1>10. ASSUME NEW c \in Clients,
                \/ Admit(c)
                \/ \E cmd \in {"tts", "ensure_model"}, lang \in Langs : Accept(c, cmd, lang)
         PROVE  Announced'
    BY <1>10, <1>0 DEF Admit, Accept
  <1>11. CASE Quit \/ StopAccepting \/ ConnsDrained \/ PoolDrained \/ Elapse \/ Watch \/ Sigkill
    BY <1>11, <1>0 DEF Quit, StopAccepting, ConnsDrained, PoolDrained, Elapse, Watch, Sigkill
  <1>12. ASSUME NEW gate \in {"limit", "between", "cooled"},
                NEW heat \in {"unknown", "cool", "hot", "critical"}, Poll(gate, heat)
         PROVE  Announced'
    BY <1>12, <1>0 DEF Poll
  <1>13. CASE UNCHANGED vars
    BY <1>13, <1>0 DEF vars
  <1>. QED
    BY <1>1, <1>2, <1>3, <1>4, <1>5, <1>6, <1>7, <1>8, <1>9, <1>10, <1>11, <1>12, <1>13
       DEF Next, WorkerStep, MainStep, Alive

\* A model is loaded while nothing generates, but for loaders whose
\* _LOAD_ACTIVE another loader has reset.
THEOREM LoadsRunAlone == Spec => []LoadsAlone
  <1>1. Init => Announced
    BY DEF Init, Announced
  <1>2. Typed /\ CountersExact /\ Announced /\ [Next]_vars => Announced'
    BY AnnouncedStep
  <1>3. Announced => LoadsAlone
    BY DEF Announced, LoadsAlone
  <1>. QED
    BY <1>1, <1>2, <1>3, Correspondence, CountersTrue, PTL DEF Spec

-----------------------------------------------------------------------------
(* Slots and commands                                                      *)

\* A thread that keeps its command and answers or changes nothing about those
\* that wait changes no slot.
LEMMA SlotKept ==
    ASSUME Typed, Accounted, NEW w \in Workers, NEW pc \in WorkerPcs \ {"idle"},
           wpc[w] # "idle", Goto(w, pc), Queued' = Queued, UNCHANGED <<proc, slots>>
    PROVE  Accounted'
  <1>1. Busy' = Busy
    BY Moved DEF Busy
  <1>. QED
    BY <1>1 DEF Accounted, Alive, MAX_JOBS

\* Every step keeps the slots accounted for.
LEMMA SlotStep ==
    ASSUME Typed, Typed', Owned, Drained, Accounted, [Next]_vars
    PROVE  Accounted'
  <1>. USE DEF threadVars, loadVars, gateVars
  <1>0. ASSUME wpc' = wpc, conn' = conn, slots' = slots, Alive' => Alive
        PROVE  Accounted'
    <2>1. Busy' = Busy /\ Queued' = Queued
      BY <1>0 DEF Busy, Queued
    <2>. QED
      BY <1>0, <2>1 DEF Accounted, MAX_JOBS
  <1>1. ASSUME NEW c \in Clients, Admit(c) PROVE Accounted'
    <2>0. Alive /\ Alive' /\ Busy' = Busy /\ conn[c].st = "read"
      BY <1>1 DEF Admit, Drained, Alive, Busy
    <2>1. CASE slots > 0
      <3>1. Answer(c, "queued") /\ slots' = slots - 1
        BY <1>1, <2>1 DEF Admit
      <3>2. conn'[c].st = "queued" /\ \A d \in Clients \ {c} : conn'[d] = conn[d]
        BY <3>1, AnswerEffect DEF Typed
      <3>3. Queued' = Queued \cup {c} /\ c \notin Queued
        BY <3>2, <2>0 DEF Queued
      <3>4. IsFiniteSet(Queued') /\ Cardinality(Queued) \in Nat
            /\ Cardinality(Queued') = Cardinality(Queued) + 1
        BY <2>0, <3>3, OneMore DEF Accounted
      <3>. QED
        BY <2>0, <3>1, <3>4, ThreadsFinite DEF Accounted, Typed, MAX_JOBS
    <2>2. CASE ~(slots > 0)
      <3>1. Answer(c, "busy") /\ slots' = slots
        BY <1>1, <2>2 DEF Admit
      <3>2. conn'[c].st = "busy" /\ \A d \in Clients \ {c} : conn'[d] = conn[d]
        BY <3>1, AnswerEffect DEF Typed
      <3>3. Queued' = Queued
        BY <3>2, <2>0 DEF Queued
      <3>. QED
        BY <2>0, <3>1, <3>3 DEF Accounted, MAX_JOBS
    <2>. QED
      BY <2>1, <2>2
  <1>2. ASSUME NEW c \in Clients, NEW cmd \in {"tts", "ensure_model"}, NEW lang \in Langs,
               Accept(c, cmd, lang)
        PROVE  Accounted'
    <2>1. conn'[c].st = "read" /\ conn[c].st # "queued"
          /\ \A d \in Clients \ {c} : conn'[d] = conn[d]
      BY <1>2 DEF Accept, Typed, Conns
    <2>2. Queued' = Queued /\ Busy' = Busy
      BY <1>2, <2>1 DEF Queued, Busy, Accept
    <2>. QED
      BY <1>2, <2>2 DEF Accept, Accounted, Alive, MAX_JOBS
  <1>3. ASSUME NEW w \in Workers, NEW c \in Clients, Take(w, c) PROVE Accounted'
    <2>1. PICK pc \in {"gate", "ensure"} : Goto(w, pc)
      BY <1>3 DEF Take
    <2>2. Alive /\ Alive' /\ slots' = slots /\ conn[c].st = "queued" /\ wpc[w] = "idle"
      BY <1>3 DEF Take, Alive
    <2>3. Busy' = Busy \cup {w} /\ w \notin Busy
      BY <2>1, <2>2, Moved DEF WorkerPcs, Busy
    <2>4. conn'[c].st = "running" /\ \A d \in Clients \ {c} : conn'[d] = conn[d]
      BY <1>3, AnswerEffect DEF Typed, Take
    <2>5. Queued' = Queued \ {c} /\ c \in Queued
      BY <2>2, <2>4 DEF Queued
    <2>6. Cardinality(Busy') = Cardinality(Busy) + 1
      BY <2>3, OneMore, ThreadsFinite
    <2>7. IsFiniteSet(Queued') /\ Cardinality(Queued) \in Nat
          /\ Cardinality(Queued') = Cardinality(Queued) - 1
      BY <2>2, <2>5, OneLess DEF Accounted
    <2>. QED
      BY <2>2, <2>6, <2>7, ThreadsFinite DEF Accounted, Typed, MAX_JOBS
  <1>4. ASSUME NEW w \in Workers, PassGate(w) \/ Ensure(w) \/ Drain(w) \/ LockLoad(w)
        PROVE  Accounted'
    <2>1. PICK pc \in {"ensure", "raised", "enter", "loaded", "drain", "mutex", "load"} : Goto(w, pc)
      BY <1>4 DEF PassGate, Ensure, Drain, LockLoad
    <2>2. Queued' = Queued /\ wpc[w] # "idle" /\ UNCHANGED <<proc, slots>>
      BY <1>4 DEF PassGate, Ensure, Drain, LockLoad, Queued
    <2>. QED
      BY <2>1, <2>2, SlotKept DEF WorkerPcs
  <1>5. ASSUME NEW w \in Workers, Load(w) \/ Unflag(w) \/ EnterGen(w) \/ ExitGen(w)
                                  \/ Hang(w) \/ Uncount(w)
        PROVE  Accounted'
    <2>1. PICK pc \in {"unflag", "unflagRaise", "raised", "enter", "loaded", "generate", "done",
                       "drain", "hung", "releaseTts", "releaseEnsure"} : Goto(w, pc)
      BY <1>5 DEF Load, Unflag, EnterGen, ExitGen, Hang, Uncount
    <2>2. Queued' = Queued /\ wpc[w] # "idle" /\ UNCHANGED <<proc, slots>>
      BY <1>5 DEF Load, Unflag, EnterGen, ExitGen, Hang, Uncount, Queued
    <2>. QED
      BY <2>1, <2>2, SlotKept DEF WorkerPcs
  <1>6. ASSUME NEW w \in Workers, Alive, Reply(w) PROVE Accounted'
    <2>1. PICK pc \in {"finallyTts", "finallyEnsure"} : Goto(w, pc)
      BY <1>6 DEF Reply
    <2>2. PICK how \in {"error", "ok"} : Answer(job[w], how)
      BY <1>6 DEF Reply
    <2>3. job[w] \in Clients /\ conn[job[w]].st = "running"
      BY <1>6 DEF Reply, Typed, Owned, Working
    <2>4. conn'[job[w]].st = how /\ \A d \in Clients \ {job[w]} : conn'[d] = conn[d]
      BY <2>2, <2>3, AnswerEffect DEF Typed
    <2>5. Queued' = Queued
      BY <2>3, <2>4 DEF Queued
    <2>. QED
      BY <1>6, <2>1, <2>5, SlotKept DEF WorkerPcs, Reply
  <1>7. ASSUME NEW w \in Workers, Finish(w) PROVE Accounted'
    <2>1. Busy' = Busy \ {w} /\ w \in Busy
      BY <1>7, Moved DEF Finish, WorkerPcs, Busy
    <2>2. Cardinality(Busy') = Cardinality(Busy) - 1
      BY <2>1, OneLess, ThreadsFinite
    <2>3. Queued' = Queued /\ slots' = slots + 1 /\ Alive' = Alive
      BY <1>7 DEF Finish, Queued, Alive
    <2>4. Alive => Cardinality(Queued) \in Nat
      BY FS_CardinalityType DEF Accounted
    <2>. QED
      BY <2>2, <2>3, <2>4, ThreadsFinite DEF Accounted, Typed, MAX_JOBS
  <1>8. CASE Restart
    <2>1. Busy' = {} /\ Queued' = {}
      BY <1>8 DEF Restart, Busy, Queued, Drained, Alive
    <2>2. MAX_JOBS \in Nat /\ slots' = MAX_JOBS
      BY <1>8, FS_CardinalityType, DaemonAssumption DEF Restart, MAX_JOBS
    <2>. QED
      BY <2>1, <2>2, FS_EmptySet DEF Accounted, MAX_JOBS
  <1>9. CASE Sigkill
    BY <1>9 DEF Sigkill, Accounted, Alive
  <1>10. CASE Quit \/ StopAccepting \/ ConnsDrained \/ PoolDrained \/ Elapse \/ Watch
    BY <1>10, <1>0 DEF Quit, StopAccepting, ConnsDrained, PoolDrained, Elapse, Watch, Alive
  <1>11. ASSUME NEW gate \in {"limit", "between", "cooled"},
                NEW heat \in {"unknown", "cool", "hot", "critical"}, Poll(gate, heat)
         PROVE  Accounted'
    BY <1>11, <1>0 DEF Poll, Alive
  <1>12. CASE UNCHANGED vars
    BY <1>12, <1>0 DEF vars, Alive
  <1>. QED
    BY <1>1, <1>2, <1>3, <1>4, <1>5, <1>6, <1>7, <1>8, <1>9, <1>10, <1>11, <1>12
       DEF Next, WorkerStep, MainStep, Alive

\* The slots are accounted for at all times.
LEMMA Accounting == Spec => []Accounted
  <1>1. Init => Accounted
    <2>1. Init => Busy = {} /\ Queued = {}
      BY DEF Init, Busy, Queued, Closed
    <2>2. MAX_JOBS \in Nat
      BY FS_CardinalityType, DaemonAssumption DEF MAX_JOBS
    <2>3. Init => slots = MAX_JOBS
      BY DEF Init
    <2>. QED
      BY <2>1, <2>2, <2>3, FS_EmptySet DEF Accounted
  <1>2. Typed /\ Typed' /\ Owned /\ Drained /\ Accounted /\ [Next]_vars => Accounted'
    BY SlotStep
  <1>. QED
    BY <1>1, <1>2, Correspondence, PTL DEF Spec

\* Every admitted command holds exactly one slot until its thread is done: the
\* semaphore is never over-released, and never more commands are admitted than
\* there are threads (_handle, _submit_tts, _submit_ensure_model).
THEOREM SlotsConserved == Spec => []SlotAccounting
  <1>1. Accounted => SlotAccounting
    BY DEF Accounted, SlotAccounting
  <1>. QED
    BY <1>1, Accounting, PTL

\* A thread that has yet to enter the guard has an attempt left, and the
\* monitor has not counted to its limit while the daemon serves.
Bounded ==
    /\ slots \in 0..MAX_JOBS /\ active \in 0..MAX_JOBS /\ gens \in 0..MAX_JOBS
    /\ \A w \in Workers :
          /\ tries[w] <= MaxTries
          /\ wpc[w] \in {"gate", "ensure", "drain", "mutex", "load", "unflag", "enter"} =>
                tries[w] < MaxTries
    /\ hotPolls <= IdleHotPolls /\ streak <= hotPolls
    /\ proc = "serving" => hotPolls < IdleHotPolls

\* Every step keeps the attempts of each thread bounded.
LEMMA TriesStep ==
    ASSUME Typed, Bounded, [Next]_vars, NEW v \in Workers
    PROVE  /\ tries'[v] <= MaxTries
           /\ wpc'[v] \in {"gate", "ensure", "drain", "mutex", "load", "unflag", "enter"} =>
                 tries'[v] < MaxTries
  <1>. DEFINE Q == /\ tries'[v] <= MaxTries
                   /\ wpc'[v] \in {"gate", "ensure", "drain", "mutex", "load", "unflag", "enter"} =>
                         tries'[v] < MaxTries
  <1>. USE DaemonAssumption DEF threadVars, loadVars, gateVars
  <1>0. ASSUME UNCHANGED <<wpc, tries>> PROVE Q
    BY <1>0 DEF Bounded
  <1>1. ASSUME NEW w \in Workers, NEW pc \in WorkerPcs, Goto(w, pc), tries' = tries,
               pc \in {"gate", "ensure", "drain", "mutex", "load", "unflag", "enter"} =>
                  tries[w] < MaxTries
        PROVE  Q
    BY <1>1 DEF Bounded, Typed, Goto
  <1>2. ASSUME NEW w \in Workers, NEW c \in Clients, Take(w, c) PROVE Q
    <2>1. CASE v = w
      BY <1>2, <2>1 DEF Take, Typed
    <2>2. CASE v # w
      BY <1>2, <2>2 DEF Take, Typed, Goto, Bounded
    <2>. QED
      BY <2>1, <2>2
  <1>3. ASSUME NEW w \in Workers, PassGate(w) \/ Drain(w) \/ LockLoad(w) \/ Load(w) \/ Hang(w)
        PROVE  Q
    <2>1. PICK pc \in {"ensure", "raised", "mutex", "load", "unflag", "unflagRaise", "hung"} :
            Goto(w, pc) /\ (pc = "hung" \/ wpc[w] \in {"gate", "drain", "mutex", "load"})
      BY <1>3 DEF PassGate, Drain, LockLoad, Load, Hang
    <2>2. tries' = tries
      BY <1>3 DEF PassGate, Drain, LockLoad, Load, Hang
    <2>. QED
      BY <2>1, <2>2, <1>1 DEF Bounded, WorkerPcs
  <1>4. ASSUME NEW w \in Workers, Ensure(w) \/ Unflag(w) PROVE Q
    <2>1. PICK pc \in {"enter", "loaded", "raised", "drain"} :
            Goto(w, pc) /\ (pc \in {"raised", "loaded"} \/ wpc[w] \in {"ensure", "unflag"})
      BY <1>4 DEF Ensure, Unflag
    <2>2. tries' = tries
      BY <1>4 DEF Ensure, Unflag
    <2>. QED
      BY <2>1, <2>2, <1>1 DEF Bounded, WorkerPcs
  <1>5. ASSUME NEW w \in Workers, EnterGen(w) PROVE Q
    <2>1. CASE v = w
      BY <1>5, <2>1 DEF EnterGen, Goto, Typed, Bounded
    <2>2. CASE v # w
      BY <1>5, <2>2 DEF EnterGen, Goto, Typed, Bounded
    <2>. QED
      BY <2>1, <2>2
  <1>6. ASSUME NEW w \in Workers, ExitGen(w) PROVE Q
    <2>1. PICK pc \in {"done", "raised", "enter", "drain"} :
            Goto(w, pc) /\ (pc \in {"done", "raised"} \/ tries[w] < MaxTries)
      BY <1>6 DEF ExitGen
    <2>. QED
      BY <1>6, <2>1, <1>1 DEF ExitGen, WorkerPcs
  <1>7. ASSUME NEW w \in Workers, Reply(w) \/ Uncount(w) \/ Finish(w) PROVE Q
    <2>1. PICK pc \in {"finallyTts", "finallyEnsure", "releaseTts", "releaseEnsure", "idle"} : Goto(w, pc)
      BY <1>7 DEF Reply, Uncount, Finish
    <2>2. tries' = tries
      BY <1>7 DEF Reply, Uncount, Finish
    <2>. QED
      BY <2>1, <2>2, <1>1 DEF WorkerPcs
  <1>8. CASE Restart
    BY <1>8 DEF Restart
  <1>9. ASSUME NEW c \in Clients, Admit(c) PROVE Q
    BY <1>9, <1>0 DEF Admit
  <1>10. ASSUME NEW c \in Clients, NEW cmd \in {"tts", "ensure_model"}, NEW lang \in Langs,
                Accept(c, cmd, lang)
         PROVE  Q
    BY <1>10, <1>0 DEF Accept
  <1>11. CASE Quit \/ StopAccepting \/ ConnsDrained \/ PoolDrained \/ Elapse \/ Watch \/ Sigkill
    BY <1>11, <1>0 DEF Quit, StopAccepting, ConnsDrained, PoolDrained, Elapse, Watch, Sigkill
  <1>12. ASSUME NEW gate \in {"limit", "between", "cooled"},
                NEW heat \in {"unknown", "cool", "hot", "critical"}, Poll(gate, heat)
         PROVE  Q
    BY <1>12, <1>0 DEF Poll
  <1>13. CASE UNCHANGED vars
    BY <1>13, <1>0 DEF vars
  <1>. QED
    BY <1>2, <1>3, <1>4, <1>5, <1>6, <1>7, <1>8, <1>9, <1>10, <1>11, <1>12, <1>13
       DEF Next, WorkerStep, MainStep

\* Every step keeps the monitor's counts within their limit.
LEMMA PollStep ==
    ASSUME Typed, Bounded, [Next]_vars
    PROVE  /\ hotPolls' <= IdleHotPolls /\ streak' <= hotPolls'
           /\ proc' = "serving" => hotPolls' < IdleHotPolls
  <1>. DEFINE Q == /\ hotPolls' <= IdleHotPolls /\ streak' <= hotPolls'
                   /\ proc' = "serving" => hotPolls' < IdleHotPolls
  <1>. USE DaemonAssumption DEF threadVars, loadVars, gateVars
  <1>0. ASSUME UNCHANGED <<hotPolls, streak>>, proc' = "serving" => proc = "serving" PROVE Q
    BY <1>0 DEF Bounded
  <1>1. ASSUME NEW w \in Workers, WorkerStep(w) \/ Hang(w) PROVE Q
    <2>1. UNCHANGED <<hotPolls, streak, proc>>
      BY <1>1 DEF WorkerStep, Hang, PassGate, Ensure, Drain, LockLoad, Load, Unflag, EnterGen,
                  ExitGen, Reply, Uncount, Finish
    <2>. QED
      BY <2>1, <1>0
  <1>2. ASSUME NEW w \in Workers, NEW c \in Clients, Take(w, c) PROVE Q
    BY <1>2, <1>0 DEF Take
  <1>3. ASSUME NEW c \in Clients, Admit(c) PROVE Q
    BY <1>3, <1>0 DEF Admit
  <1>4. ASSUME NEW c \in Clients, NEW cmd \in {"tts", "ensure_model"}, NEW lang \in Langs,
               Accept(c, cmd, lang)
        PROVE  Q
    BY <1>4, <1>0 DEF Accept
  <1>5. CASE Quit \/ StopAccepting \/ ConnsDrained \/ PoolDrained \/ Elapse \/ Watch \/ Sigkill
    BY <1>5, <1>0 DEF Quit, StopAccepting, ConnsDrained, PoolDrained, Elapse, Watch, Sigkill
  <1>6. CASE Restart
    BY <1>6 DEF Restart
  <1>7. ASSUME NEW gate \in {"limit", "between", "cooled"},
               NEW heat \in {"unknown", "cool", "hot", "critical"}, Poll(gate, heat)
        PROVE  Q
    <2>1. hotPolls \in Nat /\ streak \in Nat /\ streak <= hotPolls /\ hotPolls < IdleHotPolls
      BY <1>7 DEF Poll, Bounded, Typed
    <2>2. CASE heat = "unknown"
      BY <1>7, <2>1, <2>2 DEF Poll, HotPoll
    <2>3. CASE heat # "unknown" /\ Idle /\ HotPoll(heat)
      <3>1. hotPolls' = hotPolls + 1 /\ streak' = streak + 1
            /\ (hotPolls' >= IdleHotPolls => proc' = "quit")
        BY <1>7, <2>3 DEF Poll
      <3>. QED
        BY <2>1, <3>1
    <2>4. CASE heat # "unknown" /\ ~(Idle /\ HotPoll(heat))
      <3>1. hotPolls' \in {hotPolls, 0} /\ streak' = 0
        BY <1>7, <2>4 DEF Poll
      <3>. QED
        BY <2>1, <3>1
    <2>. QED
      BY <2>2, <2>3, <2>4
  <1>8. CASE UNCHANGED vars
    BY <1>8, <1>0 DEF vars
  <1>. QED
    BY <1>1, <1>2, <1>3, <1>4, <1>5, <1>6, <1>7, <1>8 DEF Next, MainStep

\* Every step keeps the semaphore and the two counters within the number of
\* threads: while the daemon lives they are what they count, and a dead one
\* changes nothing.
LEMMA CountersStep ==
    ASSUME Typed, Typed', Owned, Drained, Bounded, Accounted', CountersExact', [Next]_vars
    PROVE  slots' \in 0..MAX_JOBS /\ active' \in 0..MAX_JOBS /\ gens' \in 0..MAX_JOBS
  <1>. USE DEF threadVars, loadVars, gateVars
  <1>0. MAX_JOBS \in Nat
    BY FS_CardinalityType, DaemonAssumption DEF MAX_JOBS
  <1>1. CASE Alive'
    <2>1. active' \in 0..MAX_JOBS /\ gens' \in 0..MAX_JOBS
      <3>1. /\ Cardinality(Counted') \in Nat /\ Cardinality(Counted') <= MAX_JOBS
            /\ Cardinality(Generating') \in Nat /\ Cardinality(Generating') <= MAX_JOBS
        <4>1. Counted' \subseteq Workers /\ Generating' \subseteq Workers
          BY DEF Counted, Busy, Generating
        <4>. QED
          BY <4>1, FS_Subset, FS_CardinalityType, DaemonAssumption DEF MAX_JOBS
      <3>. QED
        BY <1>0, <1>1, <3>1 DEF CountersExact
    <2>2. slots' >= 0
      <3>1. slots' = slots \/ slots' = slots + 1 \/ slots' = MAX_JOBS
            \/ (slots > 0 /\ slots' = slots - 1)
        BY DEF Next, WorkerStep, MainStep, Admit, Accept, Take, PassGate, Ensure, Drain, LockLoad,
               Load, Unflag, EnterGen, ExitGen, Hang, Reply, Uncount, Finish, Quit, StopAccepting,
               ConnsDrained, PoolDrained, Elapse, Poll, Watch, Sigkill, Restart, vars
      <3>. QED
        BY <1>0, <3>1 DEF Bounded
    <2>3. slots' <= MAX_JOBS
      <3>1. Cardinality(Queued') \in Nat /\ Cardinality(Busy') \in Nat
        <4>1. Busy' \subseteq Workers
          BY DEF Busy
        <4>. QED
          BY <1>1, <4>1, FS_Subset, FS_CardinalityType, DaemonAssumption DEF Accounted
      <3>2. slots' + Cardinality(Queued') + Cardinality(Busy') = MAX_JOBS
        BY <1>1 DEF Accounted, MAX_JOBS
      <3>. QED
        BY <1>0, <3>1, <3>2 DEF Typed
    <2>. QED
      BY <1>0, <2>1, <2>2, <2>3 DEF Typed
  <1>2. CASE ~Alive'
    <2>1. UNCHANGED <<slots, active, gens>>
      <3>1. CASE Alive
        <4>1. proc' # proc
          BY <1>2, <3>1 DEF Alive
        <4>. QED
          BY <1>2, <4>1 DEF Next, WorkerStep, MainStep, Admit, Accept, Take, PassGate, Ensure, Drain,
               LockLoad, Load, Unflag, EnterGen, ExitGen, Hang, Reply, Uncount, Finish, Quit,
               StopAccepting, ConnsDrained, PoolDrained, Elapse, Poll, Watch, Sigkill, Restart,
               vars, Alive
      <3>2. CASE ~Alive
        <4>1. proc \in {"stopped", "killed"} /\ \A c \in Clients : conn[c].st # "read"
          BY <3>2 DEF Alive, Drained, Typed
        <4>. QED
          BY <1>2, <4>1 DEF Next, WorkerStep, MainStep, Admit, Accept, Take, Hang, Quit,
               StopAccepting, ConnsDrained, PoolDrained, Elapse, Poll, Watch, Sigkill, Restart,
               vars, Alive
      <3>. QED
        BY <3>1, <3>2
    <2>. QED
      BY <2>1 DEF Bounded
  <1>. QED
    BY <1>1, <1>2

\* The daemon's counters stay within the number of its threads, the attempts
\* at a text within their bound and the hot polls within theirs; the bounds
\* rest on SlotAccounting and CountersExact.
THEOREM DaemonTypeCorrect == Spec => []TypeOK
  <1>1. Init => Bounded
    <2>1. MAX_JOBS \in Nat
      BY FS_CardinalityType, DaemonAssumption DEF MAX_JOBS
    <2>. QED
      BY <2>1, DaemonAssumption DEF Init, Bounded
  <1>2. /\ Typed /\ Typed' /\ Owned /\ Drained /\ Bounded /\ Accounted' /\ CountersExact'
        /\ [Next]_vars
        => Bounded'
    <2>. SUFFICES ASSUME Typed, Typed', Owned, Drained, Bounded, Accounted', CountersExact',
                         [Next]_vars
                  PROVE  Bounded'
      OBVIOUS
    <2>1. MAX_JOBS' = MAX_JOBS
      BY DEF MAX_JOBS
    <2>. QED
      BY <2>1, CountersStep, TriesStep, PollStep DEF Bounded
  <1>3. Typed /\ Bounded => TypeOK
    <2>. SUFFICES ASSUME Typed, Bounded PROVE TypeOK
      OBVIOUS
    <2>1. tries \in [Workers -> 0..MaxTries]
      BY DaemonAssumption DEF Typed, Bounded
    <2>2. hotPolls \in 0..IdleHotPolls /\ streak \in 0..IdleHotPolls
      BY DaemonAssumption DEF Typed, Bounded
    <2>. QED
      BY <2>1, <2>2 DEF Typed, Bounded, TypeOK, Conns
  <1>. QED
    BY <1>1, <1>2, <1>3, Correspondence, Accounting, CountersTrue, PTL DEF Spec
=============================================================================
