------------------------- MODULE TranslationProofs -------------------------
(***************************************************************************)
(* Proofs about Translation, for any number of jobs, clients, GPU workers  *)
(* and blocks, and any faults.                                             *)
(***************************************************************************)
EXTENDS Translation, FiniteSetTheorems, TLAPS

ClientStates == [pc : {"off", "ping", "send", "wait", "lost", "direct"},
                 job : Jobs, stop : BOOLEAN]
WorkStates == [pc : {"idle", "model", "gate", "read", "blocks", "reply", "hung"},
               from : Clients \cup {Nobody}, live : BOOLEAN, job : Jobs,
               cmd : {"none", "translate", "ensure"},
               text : Nat, todo : 0..Blocks]

\* The parts of the type, for the proofs.
LEMMA Parts ==
    TypeOK <=>
      /\ input \in [Jobs -> Nat] /\ output \in [Jobs -> Nat]
      /\ exit \in [Jobs -> {"none", "ok", "failed"}] /\ left \subseteq Jobs
      /\ client \in [Clients -> ClientStates]
      /\ daemon \in {"down", "up", "drain", "kill"}
      /\ conns \subseteq Requests
      /\ work \in [Workers -> WorkStates]
      /\ sem \in [{"npu", "gpu"} -> Nat]
      /\ npuDown \in BOOLEAN /\ engine \in BOOLEAN /\ hot \in BOOLEAN
      /\ used \in [Events -> Nat]
  BY DEF TypeOK, ClientStates, WorkStates

LEMMA NextParts ==
    TypeOK' <=>
      /\ input' \in [Jobs -> Nat] /\ output' \in [Jobs -> Nat]
      /\ exit' \in [Jobs -> {"none", "ok", "failed"}] /\ left' \subseteq Jobs
      /\ client' \in [Clients -> ClientStates]
      /\ daemon' \in {"down", "up", "drain", "kill"}
      /\ conns' \subseteq Requests
      /\ work' \in [Workers -> WorkStates]
      /\ sem' \in [{"npu", "gpu"} -> Nat]
      /\ npuDown' \in BOOLEAN /\ engine' \in BOOLEAN /\ hot' \in BOOLEAN
      /\ used' \in [Events -> Nat]
  BY DEF TypeOK, ClientStates, WorkStates

LEMMA SomeJob == (CHOOSE j \in Jobs : TRUE) \in Jobs
  BY TranslationAssumption

LEMMA IdleShape ==
    /\ Idle \in WorkStates
    /\ Idle.pc = "idle" /\ Idle.from = Nobody /\ Idle.live = FALSE /\ Idle.cmd = "none"
  BY SomeJob, TranslationAssumption DEF Idle, WorkStates

-----------------------------------------------------------------------------
(* What the helpers do to the client they are about.                       *)

LEMMA GotoEffect ==
    ASSUME TypeOK, NEW c \in Clients,
           NEW pc \in {"off", "ping", "send", "wait", "lost", "direct"}, Goto(c, pc)
    PROVE  /\ client' \in [Clients -> ClientStates]
           /\ client'[c].pc = pc /\ client'[c].job = client[c].job /\ client'[c].stop = client[c].stop
           /\ \A d \in Clients \ {c} : client'[d] = client[d]
<1>1. client \in [Clients -> ClientStates]
  BY Parts
<1>2. client' = [client EXCEPT ![c] = [client[c] EXCEPT !.pc = pc]]
  BY DEF Goto
<1>3. /\ [client[c] EXCEPT !.pc = pc] \in ClientStates
      /\ [client[c] EXCEPT !.pc = pc].pc = pc
      /\ [client[c] EXCEPT !.pc = pc].job = client[c].job
      /\ [client[c] EXCEPT !.pc = pc].stop = client[c].stop
  BY <1>1 DEF ClientStates
<1>. QED
  BY <1>1, <1>2, <1>3

LEMMA ExitEffect ==
    ASSUME TypeOK, NEW c \in Clients, NEW code \in {"ok", "failed"}, Exit(c, code)
    PROVE  /\ client' \in [Clients -> ClientStates]
           /\ client'[c].pc = "off" /\ client'[c].job = client[c].job /\ ~client'[c].stop
           /\ \A d \in Clients \ {c} : client'[d] = client[d]
           /\ exit' \in [Jobs -> {"none", "ok", "failed"}]
           /\ client[c].stop => exit' = exit
           /\ ~client[c].stop => exit'[client[c].job] = code
           /\ \A j \in Jobs \ {client[c].job} : exit'[j] = exit[j]
<1>1. client \in [Clients -> ClientStates] /\ exit \in [Jobs -> {"none", "ok", "failed"}]
  BY Parts
<1>2. client[c].job \in Jobs
  BY <1>1 DEF ClientStates
<1>3. client' = [client EXCEPT ![c] = Off(client[c].job)]
  BY DEF Exit
<1>4. /\ Off(client[c].job) \in ClientStates
      /\ Off(client[c].job).pc = "off" /\ Off(client[c].job).job = client[c].job
      /\ Off(client[c].job).stop = FALSE
  BY <1>2 DEF Off, ClientStates
<1>5. /\ client' \in [Clients -> ClientStates] /\ client'[c] = Off(client[c].job)
      /\ \A d \in Clients \ {c} : client'[d] = client[d]
  BY <1>1, <1>3, <1>4
<1>6. /\ exit' \in [Jobs -> {"none", "ok", "failed"}]
      /\ client[c].stop => exit' = exit
      /\ ~client[c].stop => exit'[client[c].job] = code
      /\ \A j \in Jobs \ {client[c].job} : exit'[j] = exit[j]
  BY <1>1, <1>2 DEF Exit
<1>. QED
  BY <1>4, <1>5, <1>6

\* The request, or the work made of it, whose answer is sent.
Requested(r) == r.from \in Clients \cup {Nobody} /\ r.live \in BOOLEAN

LEMMA AnswerEffect ==
    ASSUME TypeOK, NEW r, Requested(r), NEW code \in {"ok", "error", "busy"}, Answer(r, code)
    PROVE  \/ /\ r.from = Nobody \/ ~r.live
              /\ UNCHANGED <<client, exit>>
           \/ /\ r.from \in Clients /\ r.live /\ code = "ok"
              /\ Exit(r.from, "ok")
           \/ /\ r.from \in Clients /\ r.live /\ code = "error"
              /\ Exit(r.from, "failed")
           \/ /\ r.from \in Clients /\ r.live /\ code = "busy"
              /\ Goto(r.from, "send") /\ exit' = exit
  BY DEF Answer, Requested

LEMMA AnswerTyped ==
    ASSUME TypeOK, NEW r, Requested(r), NEW code \in {"ok", "error", "busy"}, Answer(r, code)
    PROVE  client' \in [Clients -> ClientStates] /\ exit' \in [Jobs -> {"none", "ok", "failed"}]
<1>1. client \in [Clients -> ClientStates] /\ exit \in [Jobs -> {"none", "ok", "failed"}]
  BY Parts
<1>. QED
  BY <1>1, AnswerEffect, ExitEffect, GotoEffect

LEMMA WorkRequested ==
    ASSUME TypeOK
    PROVE  /\ \A w \in Workers : Requested(work[w]) /\ work[w] \in WorkStates
           /\ \A r \in conns : Requested(r) /\ r \in Requests
<1>1. work \in [Workers -> WorkStates] /\ conns \subseteq Requests
  BY Parts
<1>. QED
  BY <1>1 DEF Requested, WorkStates, Requests

\* What the work of w is after it has taken r.
Taken(r, x) ==
    /\ x \in WorkStates
    /\ x.pc = IF r.cmd = "ensure" THEN "model" ELSE "gate"
    /\ x.from = r.from /\ x.live = r.live /\ x.job = r.job /\ x.cmd = r.cmd

LEMMA TakeEffect ==
    ASSUME TypeOK, NEW w \in Workers, NEW pool \in {"npu", "gpu"}, sem[pool] > 0,
           NEW r \in conns, Take(w, pool, r)
    PROVE  /\ work' \in [Workers -> WorkStates]
           /\ Taken(r, work'[w])
           /\ \A v \in Workers \ {w} : work'[v] = work[v]
           /\ sem' \in [{"npu", "gpu"} -> Nat] /\ sem'[pool] = sem[pool] - 1
           /\ \A p \in {"npu", "gpu"} \ {pool} : sem'[p] = sem[p]
           /\ UNCHANGED <<client, exit>>
<1>1. work \in [Workers -> WorkStates] /\ sem \in [{"npu", "gpu"} -> Nat] /\ r \in Requests
  BY Parts
<1>. DEFINE x == [pc |-> IF r.cmd = "ensure" THEN "model" ELSE "gate", from |-> r.from,
                  live |-> r.live, job |-> r.job, cmd |-> r.cmd, text |-> 0, todo |-> 0]
<1>2. Taken(r, x)
  BY <1>1, TranslationAssumption DEF Taken, WorkStates, Requests
<1>3. work' = [work EXCEPT ![w] = x]
  BY DEF Take
<1>. HIDE DEF x
<1>4. /\ work' \in [Workers -> WorkStates] /\ work'[w] = x
      /\ \A v \in Workers \ {w} : work'[v] = work[v]
  BY <1>1, <1>2, <1>3 DEF Taken
<1>5. /\ sem' \in [{"npu", "gpu"} -> Nat] /\ sem'[pool] = sem[pool] - 1
      /\ \A p \in {"npu", "gpu"} \ {pool} : sem'[p] = sem[p]
      /\ UNCHANGED <<client, exit>>
  BY <1>1 DEF Take
<1>. QED
  BY <1>2, <1>4, <1>5

LEMMA FinishEffect ==
    ASSUME TypeOK, NEW w \in Workers, NEW code, Finish(w, code)
    PROVE  /\ work' \in [Workers -> WorkStates] /\ work'[w] = Idle
           /\ \A v \in Workers \ {w} : work'[v] = work[v]
           /\ sem' \in [{"npu", "gpu"} -> Nat]
           /\ w = NPU => sem'["npu"] = sem["npu"] + 1 /\ sem'["gpu"] = sem["gpu"]
           /\ w # NPU => sem'["gpu"] = sem["gpu"] + 1 /\ sem'["npu"] = sem["npu"]
<1>1. work \in [Workers -> WorkStates] /\ sem \in [{"npu", "gpu"} -> Nat]
  BY Parts
<1>2. work' = [work EXCEPT ![w] = Idle]
  BY DEF Finish
<1>3. /\ work' \in [Workers -> WorkStates] /\ work'[w] = Idle
      /\ \A v \in Workers \ {w} : work'[v] = work[v]
  BY <1>1, <1>2, IdleShape
<1>4. /\ sem' \in [{"npu", "gpu"} -> Nat]
      /\ w = NPU => sem'["npu"] = sem["npu"] + 1 /\ sem'["gpu"] = sem["gpu"]
      /\ w # NPU => sem'["gpu"] = sem["gpu"] + 1 /\ sem'["npu"] = sem["npu"]
  BY <1>1 DEF Finish
<1>. QED
  BY <1>3, <1>4

\* A worker goes on with its request.
MovedOn(w) ==
    /\ work' \in [Workers -> WorkStates]
    /\ work[w].pc \in {"gate", "read", "blocks"}
    /\ work'[w].pc \in {"read", "blocks", "hung", "reply"}
    /\ work'[w].from = work[w].from /\ work'[w].live = work[w].live
    /\ work'[w].job = work[w].job /\ work'[w].cmd = work[w].cmd
    /\ \A v \in Workers \ {w} : work'[v] = work[v]
    /\ UNCHANGED <<input, exit, left, client, conns, sem, daemon, hot>>

LEMMA MoveEffect ==
    ASSUME TypeOK, NEW w \in Workers,
           (Gate(w) /\ ~hot) \/ Read(w) \/ Block(w) \/ Hang(w) \/ Write(w)
    PROVE  MovedOn(w)
<1>1. work \in [Workers -> WorkStates] /\ input \in [Jobs -> Nat]
  BY Parts
<1>2. work[w] \in WorkStates
  BY <1>1
<1>. USE DEF fileVars, envVars
<1>3. CASE Gate(w) /\ ~hot
  <2>1. work' = [work EXCEPT ![w] = [work[w] EXCEPT !.pc = "read"]] /\ work[w].pc = "gate"
    BY <1>3 DEF Gate
  <2>. QED
    BY <1>1, <1>2, <1>3, <2>1 DEF Gate, MovedOn, WorkStates
<1>4. CASE Read(w)
  <2>. DEFINE n == input[work[w].job]
  <2>1. n \in Nat /\ Blocks \in 0..Blocks
    BY <1>1, <1>2, TranslationAssumption DEF WorkStates
  <2>2. work' = [work EXCEPT ![w] = [work[w] EXCEPT !.pc = "blocks", !.text = n, !.todo = Blocks]]
    BY <1>4 DEF Read
  <2>. HIDE DEF n
  <2>. DEFINE y == [pc |-> "blocks", from |-> work[w].from, live |-> work[w].live,
                    job |-> work[w].job, cmd |-> work[w].cmd, text |-> n, todo |-> Blocks]
  <2>. DEFINE a == [work[w] EXCEPT !.pc = "blocks"]
              b == [a EXCEPT !.text = n]
  <2>3. a = [pc |-> "blocks", from |-> work[w].from, live |-> work[w].live, job |-> work[w].job,
             cmd |-> work[w].cmd, text |-> work[w].text, todo |-> work[w].todo]
    BY <1>2 DEF WorkStates
  <2>8. b = [pc |-> "blocks", from |-> work[w].from, live |-> work[w].live, job |-> work[w].job,
             cmd |-> work[w].cmd, text |-> n, todo |-> work[w].todo]
    <3>. HIDE DEF a
    <3>. QED BY <2>3
  <2>9. [b EXCEPT !.todo = Blocks] = y
    <3>. HIDE DEF b
    <3>. QED BY <2>8
  <2>10. [work[w] EXCEPT !.pc = "blocks", !.text = n, !.todo = Blocks] = [b EXCEPT !.todo = Blocks]
    OBVIOUS
  <2>4. [work[w] EXCEPT !.pc = "blocks", !.text = n, !.todo = Blocks] = y
    BY <2>9, <2>10
  <2>5. y \in WorkStates
    BY <1>2, <2>1 DEF WorkStates
  <2>6. /\ y.pc = "blocks" /\ y.from = work[w].from /\ y.live = work[w].live
        /\ y.job = work[w].job /\ y.cmd = work[w].cmd
    OBVIOUS
  <2>7. work[w].pc = "read" /\ UNCHANGED <<input, exit, left, client, conns, sem, daemon, hot>>
    BY <1>4 DEF Read
  <2>. HIDE DEF y
  <2>. QED
    BY <1>1, <2>2, <2>4, <2>5, <2>6, <2>7 DEF MovedOn
<1>5. CASE Block(w)
  <2>1. work' = [work EXCEPT ![w] = [work[w] EXCEPT !.todo = work[w].todo - 1]]
        /\ work[w].pc = "blocks" /\ work[w].todo > 0
    BY <1>5 DEF Block
  <2>2. work[w].todo - 1 \in 0..Blocks
    BY <1>2, <2>1, TranslationAssumption DEF WorkStates
  <2>3. [work[w] EXCEPT !.todo = work[w].todo - 1] \in WorkStates
    BY <1>2, <2>2 DEF WorkStates
  <2>. QED
    BY <1>1, <1>2, <1>5, <2>1, <2>3 DEF Block, MovedOn, WorkStates
<1>6. CASE Hang(w)
  <2>1. work' = [work EXCEPT ![w] = [work[w] EXCEPT !.pc = "hung"]] /\ work[w].pc = "blocks"
    BY <1>6 DEF Hang
  <2>2. /\ [work[w] EXCEPT !.pc = "hung"] \in WorkStates
        /\ [work[w] EXCEPT !.pc = "hung"].pc = "hung"
        /\ [work[w] EXCEPT !.pc = "hung"].from = work[w].from
        /\ [work[w] EXCEPT !.pc = "hung"].live = work[w].live
        /\ [work[w] EXCEPT !.pc = "hung"].job = work[w].job
        /\ [work[w] EXCEPT !.pc = "hung"].cmd = work[w].cmd
    BY <1>2 DEF WorkStates
  <2>3. UNCHANGED <<input, exit, left, client, conns, sem, daemon, hot>>
    BY <1>6 DEF Hang
  <2>. QED
    BY <1>1, <2>1, <2>2, <2>3 DEF MovedOn
<1>7. CASE Write(w)
  <2>1. work' = [work EXCEPT ![w] = [work[w] EXCEPT !.pc = "reply"]] /\ work[w].pc = "blocks"
    BY <1>7 DEF Write
  <2>2. /\ [work[w] EXCEPT !.pc = "reply"] \in WorkStates
        /\ [work[w] EXCEPT !.pc = "reply"].pc = "reply"
        /\ [work[w] EXCEPT !.pc = "reply"].from = work[w].from
        /\ [work[w] EXCEPT !.pc = "reply"].live = work[w].live
        /\ [work[w] EXCEPT !.pc = "reply"].job = work[w].job
        /\ [work[w] EXCEPT !.pc = "reply"].cmd = work[w].cmd
    BY <1>2 DEF WorkStates
  <2>3. UNCHANGED <<input, exit, left, client, conns, sem, daemon, hot>>
    BY <1>7 DEF Write
  <2>. QED
    BY <1>1, <2>1, <2>2, <2>3 DEF MovedOn
<1>. QED
  BY <1>3, <1>4, <1>5, <1>6, <1>7

\* Client c is killed: its connection has nobody at the other end.
Cut(r, c) == [r EXCEPT !.live = r.live /\ r.from # c]

LEMMA CutEffect ==
    ASSUME NEW r, r \in Requests \/ r \in WorkStates, NEW c
    PROVE  /\ r \in Requests => Cut(r, c) \in Requests
           /\ r \in WorkStates => Cut(r, c) \in WorkStates /\ Cut(r, c).pc = r.pc
                                  /\ Cut(r, c).text = r.text
           /\ Cut(r, c).from = r.from /\ Cut(r, c).job = r.job /\ Cut(r, c).cmd = r.cmd
           /\ Cut(r, c).live => r.live /\ r.from # c /\ Cut(r, c) = r
           /\ r.live /\ r.from # c => Cut(r, c) = r
<1>1. (r.live /\ r.from # c) \in BOOLEAN
  OBVIOUS
<1>2. CASE r \in Requests
  BY <1>1, <1>2 DEF Cut, Requests, WorkStates
<1>3. CASE r \in WorkStates
  BY <1>1, <1>3 DEF Cut, WorkStates, Requests
<1>. QED
  BY <1>2, <1>3

LEMMA KillEffect ==
    ASSUME TypeOK, NEW c \in Clients, Kill(c)
    PROVE  /\ client' \in [Clients -> ClientStates]
           /\ client'[c].pc = "off" /\ client'[c].job = client[c].job /\ ~client'[c].stop
           /\ \A d \in Clients \ {c} : client'[d] = client[d]
           /\ conns' \subseteq Requests
           /\ \A r \in conns' : \E s \in conns : r = Cut(s, c)
           /\ \A r \in conns : Cut(r, c) \in conns'
           /\ work' \in [Workers -> WorkStates]
           /\ \A w \in Workers : work'[w] = Cut(work[w], c)
           /\ left' = IF InDaemon(c) THEN left \cup {client[c].job} ELSE left
           /\ UNCHANGED <<input, output, exit, sem>>
<1>1. client \in [Clients -> ClientStates] /\ conns \subseteq Requests
      /\ work \in [Workers -> WorkStates]
  BY Parts
<1>2. client' = [client EXCEPT ![c] = Off(client[c].job)]
      /\ Off(client[c].job) \in ClientStates
      /\ Off(client[c].job).pc = "off" /\ Off(client[c].job).job = client[c].job
      /\ Off(client[c].job).stop = FALSE
  BY <1>1 DEF Kill, Off, ClientStates
<1>3. conns' = {Cut(r, c) : r \in conns}
  BY DEF Kill, Cut
<1>4. work' = [w \in Workers |-> Cut(work[w], c)]
  BY DEF Kill, Cut
<1>5. conns' \subseteq Requests /\ work' \in [Workers -> WorkStates]
  BY <1>1, <1>3, <1>4, CutEffect
<1>6. client' \in [Clients -> ClientStates] /\ client'[c] = Off(client[c].job)
      /\ \A d \in Clients \ {c} : client'[d] = client[d]
  BY <1>1, <1>2
<1>7. left' = (IF InDaemon(c) THEN left \cup {client[c].job} ELSE left)
      /\ UNCHANGED <<input, output, exit, sem>>
  BY DEF Kill, envVars
<1>. QED
  BY <1>2, <1>3, <1>4, <1>5, <1>6, <1>7

\* The daemon is gone, and with it every connection.
LEMMA GoneEffect ==
    ASSUME TypeOK, Gone
    PROVE  /\ client' \in [Clients -> ClientStates]
           /\ \A c \in Clients : /\ client'[c].job = client[c].job /\ client'[c].stop = client[c].stop
                                 /\ client'[c].pc = IF client[c].pc = "wait" THEN "lost" ELSE client[c].pc
           /\ conns' = {} /\ work' = [w \in Workers |-> Idle]
           /\ work' \in [Workers -> WorkStates]
           /\ sem' = [npu |-> 1, gpu |-> Cardinality(Gpu)]
           /\ sem' \in [{"npu", "gpu"} -> Nat]
           /\ daemon' = "down" /\ npuDown' = npuDown
<1>1. client \in [Clients -> ClientStates]
  BY Parts
<1>2. Cardinality(Gpu) \in Nat
  BY FS_CardinalityType, TranslationAssumption
<1>. DEFINE F(c) == IF client[c].pc = "wait" THEN [client[c] EXCEPT !.pc = "lost"] ELSE client[c]
<1>3. \A c \in Clients : F(c) \in ClientStates /\ F(c).job = client[c].job /\ F(c).stop = client[c].stop
                         /\ F(c).pc = IF client[c].pc = "wait" THEN "lost" ELSE client[c].pc
  BY <1>1 DEF ClientStates
<1>4. client' = [c \in Clients |-> F(c)]
  BY DEF Gone
<1>. HIDE DEF F
<1>5. client' \in [Clients -> ClientStates] /\ \A c \in Clients : client'[c] = F(c)
  BY <1>3, <1>4
<1>6. /\ conns' = {} /\ work' = [w \in Workers |-> Idle]
      /\ sem' = [npu |-> 1, gpu |-> Cardinality(Gpu)]
      /\ daemon' = "down" /\ npuDown' = npuDown
  BY DEF Gone
<1>7. work' \in [Workers -> WorkStates] /\ sem' \in [{"npu", "gpu"} -> Nat]
  BY <1>2, <1>6, IdleShape
<1>. QED
  BY <1>3, <1>5, <1>6, <1>7

-----------------------------------------------------------------------------
(* Types                                                                   *)

LEMMA SpendTyped ==
    ASSUME TypeOK, NEW e \in Events, Spend(e)
    PROVE  used' \in [Events -> Nat]
  BY Parts DEF Spend

LEMMA FaultTyped ==
    ASSUME TypeOK, NEW f, Fault(f)
    PROVE  used' \in [Events -> Nat]
  BY SpendTyped DEF Fault, Events

LEMMA ClientStepTyped ==
    ASSUME TypeOK, NEW c \in Clients, ClientStep(c)
    PROVE  TypeOK'
<1>. USE DEF fileVars, daemonVars, envVars
<1>. SUFFICES /\ client' \in [Clients -> ClientStates]
              /\ exit' \in [Jobs -> {"none", "ok", "failed"}]
              /\ conns' \subseteq Requests
              /\ output' \in [Jobs -> Nat]
              /\ daemon' \in {"down", "up", "drain", "kill"} /\ npuDown' \in BOOLEAN
              /\ used' \in [Events -> Nat]
              /\ UNCHANGED <<input, left, work, sem, engine, hot>>
  BY Parts, NextParts
<1>1. TypeOK
  OBVIOUS
<1>2. client \in [Clients -> ClientStates] /\ client[c].job \in Jobs
      /\ exit \in [Jobs -> {"none", "ok", "failed"}] /\ conns \subseteq Requests
      /\ input \in [Jobs -> Nat] /\ output \in [Jobs -> Nat]
      /\ daemon \in {"down", "up", "drain", "kill"} /\ npuDown \in BOOLEAN /\ used \in [Events -> Nat]
  BY Parts DEF ClientStates
<1>3. NoDaemon => used' \in [Events -> Nat]
  BY <1>2, FaultTyped DEF NoDaemon
<1>4. Boot => daemon' \in {"down", "up", "drain", "kill"} /\ npuDown' \in BOOLEAN
              /\ UNCHANGED <<conns, work, sem>>
  BY DEF Boot
<1>5. CASE Ping(c)
  <2>1. Goto(c, "send") \/ Goto(c, "direct")
    BY <1>5 DEF Ping
  <2>2. client' \in [Clients -> ClientStates]
    BY <2>1, GotoEffect
  <2>3. used' \in [Events -> Nat]
    BY <1>2, <1>3, <1>5 DEF Ping
  <2>. QED
    BY <1>2, <1>4, <1>5, <2>2, <2>3 DEF Ping
<1>6. CASE Send(c)
  <2>1. CASE client[c].stop
    <3>1. Exit(c, "failed")
      BY <1>6, <2>1 DEF Send
    <3>. QED
      BY <1>2, <1>6, <2>1, <3>1, ExitEffect DEF Send
  <2>2. CASE ~client[c].stop /\ daemon = "down"
    <3>1. Goto(c, "lost")
      BY <1>6, <2>2 DEF Send
    <3>. QED
      BY <1>2, <1>6, <2>2, <3>1, GotoEffect DEF Send
  <2>3. CASE ~client[c].stop /\ daemon # "down"
    <3>1. Goto(c, "wait") /\ conns' = conns \cup {Request(c, client[c].job, "translate")}
      BY <1>6, <2>3 DEF Send
    <3>2. Request(c, client[c].job, "translate") \in Requests
      BY <1>2 DEF Request, Requests
    <3>. QED
      BY <1>2, <1>6, <2>3, <3>1, <3>2, GotoEffect DEF Send
  <2>. QED
    BY <2>1, <2>2, <2>3
<1>7. CASE Lost(c)
  <2>1. (Goto(c, "send") /\ exit' = exit) \/ Exit(c, "failed")
    BY <1>7 DEF Lost
  <2>2. client' \in [Clients -> ClientStates] /\ exit' \in [Jobs -> {"none", "ok", "failed"}]
    BY <1>2, <2>1, GotoEffect, ExitEffect
  <2>3. used' \in [Events -> Nat]
    BY <1>2, <1>3, <1>7 DEF Lost
  <2>. QED
    BY <1>2, <1>4, <1>7, <2>2, <2>3 DEF Lost
<1>8. CASE Direct(c)
  <2>1. Exit(c, "ok") \/ Exit(c, "failed")
    BY <1>8 DEF Direct
  <2>2. client' \in [Clients -> ClientStates] /\ exit' \in [Jobs -> {"none", "ok", "failed"}]
    BY <2>1, ExitEffect
  <2>3. used' \in [Events -> Nat]
    BY <1>2, <1>8, FaultTyped DEF Direct
  <2>4. output' \in [Jobs -> Nat]
    BY <1>2, <1>8 DEF Direct
  <2>. QED
    BY <1>2, <1>8, <2>2, <2>3, <2>4 DEF Direct
<1>. QED
  BY <1>5, <1>6, <1>7, <1>8 DEF ClientStep

LEMMA WorkerStepTyped ==
    ASSUME TypeOK, NEW w \in Workers, WorkerStep(w) \/ BlockFails(w) \/ Hang(w)
    PROVE  TypeOK'
<1>. USE DEF fileVars, daemonVars, envVars
<1>. SUFFICES /\ client' \in [Clients -> ClientStates]
              /\ exit' \in [Jobs -> {"none", "ok", "failed"}]
              /\ work' \in [Workers -> WorkStates] /\ sem' \in [{"npu", "gpu"} -> Nat]
              /\ output' \in [Jobs -> Nat]
              /\ npuDown' \in BOOLEAN /\ engine' \in BOOLEAN
              /\ used' \in [Events -> Nat]
              /\ UNCHANGED <<input, left, conns, daemon, hot>>
  BY Parts, NextParts
<1>1. /\ client \in [Clients -> ClientStates] /\ exit \in [Jobs -> {"none", "ok", "failed"}]
      /\ work \in [Workers -> WorkStates]
      /\ output \in [Jobs -> Nat] /\ npuDown \in BOOLEAN /\ engine \in BOOLEAN
      /\ used \in [Events -> Nat]
  BY Parts
<1>2. work[w] \in WorkStates /\ Requested(work[w])
  BY WorkRequested
<1>3. ASSUME NEW code \in {"ok", "error"}, Finish(w, code)
      PROVE  /\ client' \in [Clients -> ClientStates]
             /\ exit' \in [Jobs -> {"none", "ok", "failed"}]
             /\ work' \in [Workers -> WorkStates] /\ sem' \in [{"npu", "gpu"} -> Nat]
  <2>1. Answer(work[w], code)
    BY <1>3 DEF Finish
  <2>. QED
    BY <1>2, <1>3, <2>1, AnswerTyped, FinishEffect
<1>4. CASE (Gate(w) /\ ~hot) \/ Read(w) \/ Block(w) \/ Hang(w) \/ Write(w)
  <2>1. MovedOn(w)
    BY <1>4, MoveEffect
  <2>2. sem' \in [{"npu", "gpu"} -> Nat]
    BY <2>1, Parts DEF MovedOn
  <2>3. output' \in [Jobs -> Nat]
    <3>1. CASE Write(w)
      BY <1>1, <1>2, <3>1 DEF Write, WorkStates
    <3>2. CASE ~Write(w)
      BY <1>1, <1>4, <3>2 DEF Gate, Read, Block, Hang
    <3>. QED
      BY <3>1, <3>2
  <2>4. npuDown' \in BOOLEAN /\ engine' \in BOOLEAN /\ used' \in [Events -> Nat]
    <3>1. CASE Block(w)
      BY <1>1, <3>1, FaultTyped DEF Block, UseEngine, UseGpu
    <3>2. CASE ~Block(w)
      BY <1>1, <1>4, <3>2, FaultTyped DEF Gate, Read, Write, Hang
    <3>. QED
      BY <3>1, <3>2
  <2>. QED
    BY <1>1, <2>1, <2>2, <2>3, <2>4 DEF MovedOn
<1>5. CASE Gate(w) /\ hot
  BY <1>1, <1>3, <1>5 DEF Gate
<1>6. CASE EnsureModel(w)
  <2>1. Finish(w, "ok")
    BY <1>6 DEF EnsureModel
  <2>2. npuDown' \in BOOLEAN /\ engine' \in BOOLEAN /\ used' \in [Events -> Nat]
    BY <1>1, <1>6, FaultTyped DEF EnsureModel
  <2>. QED
    BY <1>1, <1>3, <1>6, <2>1, <2>2 DEF EnsureModel
<1>7. CASE Reply(w)
  BY <1>1, <1>3, <1>7 DEF Reply
<1>8. CASE BlockFails(w)
  <2>1. Finish(w, "error")
    BY <1>8 DEF BlockFails
  <2>2. engine' \in BOOLEAN /\ used' \in [Events -> Nat]
    BY <1>1, <1>8, FaultTyped DEF BlockFails
  <2>. QED
    BY <1>1, <1>3, <1>8, <2>1, <2>2 DEF BlockFails
<1>. QED
  BY <1>4, <1>5, <1>6, <1>7, <1>8 DEF WorkerStep

\* Where r goes when it is dispatched.
LEMMA DispatchCases ==
    ASSUME TypeOK, NEW r \in conns, Dispatch(r)
    PROVE  /\ conns' = conns \ {r}
           /\ UNCHANGED <<input, output, left, daemon, npuDown, engine, hot, used>>
           /\ \/ sem["npu"] > 0 /\ Take(NPU, "npu", r)
              \/ sem["gpu"] > 0 /\ r.cmd # "ensure"
                   /\ \E w \in Gpu : work[w].pc = "idle" /\ Take(w, "gpu", r)
              \/ Answer(r, "busy") /\ UNCHANGED <<work, sem>>
  BY DEF Dispatch, envVars

LEMMA DispatchTyped ==
    ASSUME TypeOK, NEW r \in conns, Dispatch(r)
    PROVE  TypeOK'
<1>1. /\ client' \in [Clients -> ClientStates] /\ exit' \in [Jobs -> {"none", "ok", "failed"}]
      /\ work' \in [Workers -> WorkStates] /\ sem' \in [{"npu", "gpu"} -> Nat]
  <2>1. /\ client \in [Clients -> ClientStates] /\ exit \in [Jobs -> {"none", "ok", "failed"}]
        /\ work \in [Workers -> WorkStates] /\ sem \in [{"npu", "gpu"} -> Nat]
    BY Parts
  <2>2. CASE sem["npu"] > 0 /\ Take(NPU, "npu", r)
    BY <2>1, <2>2, TakeEffect DEF Workers
  <2>3. CASE sem["gpu"] > 0 /\ \E w \in Gpu : Take(w, "gpu", r)
    BY <2>1, <2>3, TakeEffect DEF Workers
  <2>4. CASE Answer(r, "busy") /\ UNCHANGED <<work, sem>>
    BY <2>1, <2>4, AnswerTyped, WorkRequested
  <2>. QED
    BY <2>2, <2>3, <2>4, DispatchCases
<1>. QED
  BY <1>1, DispatchCases, Parts, NextParts

LEMMA GoneTyped ==
    ASSUME TypeOK, Gone, UNCHANGED <<fileVars, envVars>>, used' \in [Events -> Nat]
    PROVE  TypeOK'
<1>1. npuDown' \in BOOLEAN /\ conns' \subseteq Requests
  BY GoneEffect, Parts
<1>. QED
  BY <1>1, GoneEffect, Parts, NextParts DEF fileVars, envVars

LEMMA StepTyped ==
    ASSUME TypeOK, [Next]_vars
    PROVE  TypeOK'
<1>. USE DEF fileVars, daemonVars, envVars
<1>1. ASSUME NEW c \in Clients, NEW j \in Jobs, Start(c, j) PROVE TypeOK'
  <2>1. client' \in [Clients -> ClientStates]
    BY <1>1, Parts DEF Start, ClientStates
  <2>2. exit' \in [Jobs -> {"none", "ok", "failed"}] /\ used' \in [Events -> Nat]
    BY <1>1, Parts, SpendTyped DEF Start, Events
  <2>. QED
    BY <1>1, <2>1, <2>2, Parts, NextParts DEF Start
<1>2. ASSUME NEW j \in Jobs, Edit(j) PROVE TypeOK'
  <2>1. exit' \in [Jobs -> {"none", "ok", "failed"}] /\ used' \in [Events -> Nat]
    BY <1>2, Parts, SpendTyped DEF Edit, Events
  <2>2. input' \in [Jobs -> Nat]
    BY <1>2, Parts DEF Edit
  <2>. QED
    BY <1>2, <2>1, <2>2, Parts, NextParts DEF Edit
<1>3. ASSUME NEW c \in Clients, Term(c) PROVE TypeOK'
  <2>1. client \in [Clients -> ClientStates]
    BY Parts
  <2>2. [client[c] EXCEPT !.stop = TRUE] \in ClientStates /\ client[c].job \in Jobs
    BY <2>1 DEF ClientStates
  <2>3. client' = [client EXCEPT ![c] = [client[c] EXCEPT !.stop = TRUE]]
    BY <1>3 DEF Term
  <2>4. client' \in [Clients -> ClientStates]
    BY <2>1, <2>2, <2>3
  <2>5. left' \subseteq Jobs /\ used' \in [Events -> Nat]
    BY <1>3, <2>2, Parts, FaultTyped DEF Term
  <2>. QED
    BY <1>3, <2>4, <2>5, Parts, NextParts DEF Term
<1>4. ASSUME NEW c \in Clients, Kill(c) PROVE TypeOK'
  <2>1. client[c].job \in Jobs
    BY Parts DEF ClientStates
  <2>2. left' \subseteq Jobs /\ used' \in [Events -> Nat]
    BY <1>4, <2>1, Parts, FaultTyped DEF Kill
  <2>3. UNCHANGED <<daemon, npuDown, engine, hot>>
    BY <1>4 DEF Kill
  <2>. QED
    BY <1>4, <2>2, <2>3, KillEffect, Parts, NextParts
<1>5. CASE Prewarm
  <2>1. Request(Nobody, CHOOSE j \in Jobs : TRUE, "ensure") \in Requests
    BY SomeJob DEF Request, Requests
  <2>2. conns' \subseteq Requests /\ used' \in [Events -> Nat]
    BY <1>5, <2>1, Parts, SpendTyped DEF Prewarm, Events
  <2>. QED
    BY <1>5, <2>2, Parts, NextParts DEF Prewarm
<1>6. CASE Quit \/ HangSeen
  BY <1>6, Parts, NextParts, FaultTyped DEF Quit, HangSeen
<1>7. CASE Stopped \/ HangKill
  <2>1. Gone /\ UNCHANGED <<fileVars, envVars>> /\ used' \in [Events -> Nat]
    BY <1>7, Parts DEF Stopped, HangKill
  <2>. QED
    BY <2>1, GoneTyped
<1>8. CASE Crash
  <2>1. Gone /\ UNCHANGED <<fileVars, envVars>> /\ used' \in [Events -> Nat]
    BY <1>8, FaultTyped DEF Crash
  <2>. QED
    BY <2>1, GoneTyped
<1>9. CASE Heat \/ Cool
  <2>1. used' \in [Events -> Nat]
    BY <1>9, Parts, FaultTyped DEF Heat, Cool
  <2>. QED
    BY <1>9, <2>1, Parts, NextParts DEF Heat, Cool
<1>10. CASE UNCHANGED vars
  BY <1>10, Parts, NextParts DEF vars
<1>. QED
  BY <1>1, <1>2, <1>3, <1>4, <1>5, <1>6, <1>7, <1>8, <1>9, <1>10,
     ClientStepTyped, WorkerStepTyped, DispatchTyped DEF Next

LEMMA InitTyped == Init => TypeOK
<1>. SUFFICES ASSUME Init PROVE TypeOK
  OBVIOUS
<1>1. Cardinality(Gpu) \in Nat
  BY FS_CardinalityType, TranslationAssumption
<1>2. sem \in [{"npu", "gpu"} -> Nat]
  BY <1>1 DEF Init
<1>3. client \in [Clients -> ClientStates]
  BY SomeJob DEF Init, Off, ClientStates
<1>4. work \in [Workers -> WorkStates]
  BY IdleShape DEF Init
<1>. QED
  BY <1>2, <1>3, <1>4, Parts DEF Init

\* TypeOK: a worker counts its blocks within the file's, and no pool is ever
\* taken from when it has no slot.
THEOREM TranslationTypeCorrect == Spec => []TypeOK
  BY InitTyped, StepTyped, PTL DEF Spec

-----------------------------------------------------------------------------
(* Slots                                                                   *)

IdleGpu == {w \in Gpu : work[w].pc = "idle"}

LEMMA SlotsParts ==
    /\ SlotsMatch <=> /\ sem["npu"] = IF work[NPU].pc = "idle" THEN 1 ELSE 0
                      /\ sem["gpu"] = Cardinality(IdleGpu)
    /\ SlotsMatch' <=> /\ sem'["npu"] = IF work'[NPU].pc = "idle" THEN 1 ELSE 0
                       /\ sem'["gpu"] = Cardinality(IdleGpu')
  BY DEF SlotsMatch, IdleGpu

LEMMA SlotsQuiet ==
    ASSUME SlotsMatch, sem' = sem,
           \A w \in Workers : work'[w].pc = "idle" <=> work[w].pc = "idle"
    PROVE  SlotsMatch'
<1>1. IdleGpu' = IdleGpu /\ (work'[NPU].pc = "idle" <=> work[NPU].pc = "idle")
  BY DEF IdleGpu, Workers
<1>. QED
  BY <1>1, SlotsParts

LEMMA FinishSlots ==
    ASSUME TypeOK, SlotsMatch, NEW w \in Workers, work[w].pc # "idle", NEW code, Finish(w, code)
    PROVE  SlotsMatch'
<1>1. CASE w = NPU
  <2>1. IdleGpu' = IdleGpu /\ work'[NPU].pc = "idle"
    BY <1>1, FinishEffect, IdleShape, TranslationAssumption DEF IdleGpu, Workers
  <2>2. sem'["npu"] = sem["npu"] + 1 /\ sem'["gpu"] = sem["gpu"]
    BY <1>1, FinishEffect
  <2>. QED
    BY <1>1, <2>1, <2>2, SlotsParts
<1>2. CASE w # NPU
  <2>1. w \in Gpu /\ w \notin IdleGpu /\ IdleGpu' = IdleGpu \cup {w} /\ work'[NPU] = work[NPU]
    BY <1>2, FinishEffect, IdleShape, TranslationAssumption DEF IdleGpu, Workers
  <2>2. sem'["gpu"] = sem["gpu"] + 1 /\ sem'["npu"] = sem["npu"]
    BY <1>2, FinishEffect
  <2>3. Cardinality(IdleGpu') = Cardinality(IdleGpu) + 1
    <3>1. IsFiniteSet(IdleGpu)
      BY FS_Subset, TranslationAssumption DEF IdleGpu
    <3>. QED
      BY <2>1, <3>1, FS_AddElement
  <2>. QED
    BY <2>1, <2>2, <2>3, SlotsParts
<1>. QED
  BY <1>1, <1>2

LEMMA DispatchSlots ==
    ASSUME TypeOK, SlotsMatch, NEW r \in conns, Dispatch(r)
    PROVE  SlotsMatch'
<1>1. CASE sem["npu"] > 0 /\ Take(NPU, "npu", r)
  <2>1. Taken(r, work'[NPU]) /\ \A v \in Workers \ {NPU} : work'[v] = work[v]
    BY <1>1, TakeEffect DEF Workers
  <2>2. IdleGpu' = IdleGpu /\ work'[NPU].pc # "idle"
    BY <2>1, TranslationAssumption DEF IdleGpu, Workers, Taken
  <2>3. sem'["npu"] = sem["npu"] - 1 /\ sem'["gpu"] = sem["gpu"]
    BY <1>1, TakeEffect DEF Workers
  <2>4. sem["npu"] = 1
    BY <1>1 DEF SlotsMatch
  <2>. QED
    BY <2>2, <2>3, <2>4, SlotsParts
<1>2. ASSUME NEW w \in Gpu, sem["gpu"] > 0, work[w].pc = "idle", Take(w, "gpu", r)
      PROVE  SlotsMatch'
  <2>1. Taken(r, work'[w]) /\ \A v \in Workers \ {w} : work'[v] = work[v]
    BY <1>2, TakeEffect DEF Workers
  <2>2. w \in IdleGpu /\ IdleGpu' = IdleGpu \ {w} /\ work'[NPU] = work[NPU]
    BY <1>2, <2>1, TranslationAssumption DEF IdleGpu, Workers, Taken
  <2>3. sem'["gpu"] = sem["gpu"] - 1 /\ sem'["npu"] = sem["npu"]
    BY <1>2, TakeEffect DEF Workers
  <2>4. Cardinality(IdleGpu') = Cardinality(IdleGpu) - 1
    <3>1. IsFiniteSet(IdleGpu)
      BY FS_Subset, TranslationAssumption DEF IdleGpu
    <3>. QED
      BY <2>2, <3>1, FS_RemoveElement
  <2>. QED
    BY <2>2, <2>3, <2>4, SlotsParts
<1>3. CASE UNCHANGED <<work, sem>>
  BY <1>3, SlotsQuiet
<1>. QED
  BY <1>1, <1>2, <1>3, DispatchCases

LEMMA GoneSlots ==
    ASSUME TypeOK, Gone
    PROVE  SlotsMatch'
<1>1. IdleGpu' = Gpu /\ work'[NPU].pc = "idle"
  BY GoneEffect, IdleShape DEF IdleGpu, Workers
<1>. QED
  BY <1>1, GoneEffect, SlotsParts

LEMMA StepSlots ==
    ASSUME TypeOK, SlotsMatch, [Next]_vars
    PROVE  SlotsMatch'
<1>. USE DEF daemonVars
<1>1. ASSUME NEW w \in Workers, WorkerStep(w) \/ BlockFails(w) \/ Hang(w) PROVE SlotsMatch'
  <2>1. CASE (Gate(w) /\ ~hot) \/ Read(w) \/ Block(w) \/ Hang(w) \/ Write(w)
    <3>1. MovedOn(w)
      BY <2>1, MoveEffect
    <3>. QED
      BY <3>1, SlotsQuiet DEF MovedOn
  <2>2. CASE (Gate(w) /\ hot) \/ EnsureModel(w) \/ Reply(w) \/ BlockFails(w)
    <3>1. work[w].pc # "idle" /\ \E code \in {"ok", "error"} : Finish(w, code)
      BY <2>2 DEF Gate, EnsureModel, Reply, BlockFails
    <3>. QED
      BY <3>1, FinishSlots
  <2>. QED
    BY <1>1, <2>1, <2>2 DEF WorkerStep
<1>2. ASSUME NEW c \in Clients, Kill(c) PROVE SlotsMatch'
  <2>1. \A w \in Workers : work'[w].pc = work[w].pc
    BY <1>2, KillEffect, CutEffect, WorkRequested
  <2>. QED
    BY <1>2, <2>1, KillEffect, SlotsQuiet
<1>3. ASSUME NEW c \in Clients, ClientStep(c) PROVE SlotsMatch'
  <2>1. UNCHANGED <<work, sem>>
    BY <1>3 DEF ClientStep, Ping, Send, Lost, Direct, Boot
  <2>. QED
    BY <2>1, SlotsQuiet
<1>4. CASE Stopped \/ Crash \/ HangKill
  BY <1>4, GoneSlots DEF Stopped, Crash, HangKill
<1>5. CASE Prewarm \/ Quit \/ HangSeen \/ Heat \/ Cool \/ UNCHANGED vars
  <2>1. UNCHANGED <<work, sem>>
    BY <1>5 DEF Prewarm, Quit, HangSeen, Heat, Cool, vars
  <2>. QED
    BY <2>1, SlotsQuiet
<1>6. ASSUME NEW c \in Clients, NEW j \in Jobs, Start(c, j) PROVE SlotsMatch'
  <2>1. UNCHANGED <<work, sem>>
    BY <1>6 DEF Start
  <2>. QED
    BY <2>1, SlotsQuiet
<1>7. ASSUME NEW j \in Jobs, Edit(j) PROVE SlotsMatch'
  <2>1. UNCHANGED <<work, sem>>
    BY <1>7 DEF Edit
  <2>. QED
    BY <2>1, SlotsQuiet
<1>8. ASSUME NEW c \in Clients, Term(c) PROVE SlotsMatch'
  <2>1. UNCHANGED <<work, sem>>
    BY <1>8 DEF Term
  <2>. QED
    BY <2>1, SlotsQuiet
<1>. QED
  BY <1>1, <1>2, <1>3, <1>4, <1>5, <1>6, <1>7, <1>8, DispatchSlots DEF Next

LEMMA InitSlots == Init => SlotsMatch
<1>. SUFFICES ASSUME Init PROVE SlotsMatch
  OBVIOUS
<1>1. IdleGpu = Gpu /\ work[NPU].pc = "idle"
  BY IdleShape DEF Init, IdleGpu, Workers
<1>. QED
  BY <1>1, SlotsParts DEF Init

\* SlotsMatch: on every path out of a request its slot goes back to the pool
\* it came from, once, and a pool that has a slot has a worker.
THEOREM PoolsBalanced == Spec => []SlotsMatch
  BY TranslationTypeCorrect, InitSlots, StepSlots, PTL DEF Spec

-----------------------------------------------------------------------------
(* Waiting clients                                                         *)

\* Prewarm requests have no client, and an idle worker has no request.
Shapes ==
    /\ \A r \in conns : r.cmd = "ensure" <=> r.from = Nobody
    /\ \A w \in Workers :
         /\ work[w].pc = "idle" <=> work[w].cmd = "none"
         /\ work[w].pc = "model" <=> work[w].cmd = "ensure"
         /\ work[w].cmd = "ensure" => work[w].from = Nobody
         /\ work[w].cmd = "none" => ~work[w].live

\* Client c waits exactly when its request is somewhere, and then in one
\* place only.
Waiter(c) ==
    /\ client[c].pc = "wait" => InDaemon(c)
    /\ \A r \in conns : Mine(r, c) => client[c].pc = "wait" /\ client[c].job = r.job
    /\ \A w \in Workers : Mine(work[w], c) => client[c].pc = "wait" /\ client[c].job = work[w].job
    /\ \A r, s \in conns : Mine(r, c) /\ Mine(s, c) => r = s
    /\ \A v, w \in Workers : Mine(work[v], c) /\ Mine(work[w], c) => v = w
    /\ \A r \in conns, w \in Workers : ~(Mine(r, c) /\ Mine(work[w], c))

Waits == \A c \in Clients : Waiter(c)

\* Nothing happens to the request of c, or it is gone and c no longer waits.
SamePlaces(c) ==
    /\ client'[c].pc = "wait" <=> client[c].pc = "wait"
    /\ client[c].pc = "wait" => client'[c].job = client[c].job
    /\ \A r \in conns \cup conns' : Mine(r, c) => (r \in conns <=> r \in conns')
    /\ \A w \in Workers : /\ Mine(work'[w], c) <=> Mine(work[w], c)
                          /\ Mine(work[w], c) => work'[w].job = work[w].job

NoPlace(c) ==
    /\ client'[c].pc # "wait"
    /\ \A r \in conns' : ~Mine(r, c)
    /\ \A w \in Workers : ~Mine(work'[w], c)

LEMMA WaiterStep ==
    ASSUME NEW c \in Clients, Waiter(c), SamePlaces(c) \/ NoPlace(c)
    PROVE  Waiter(c)'
<1>1. CASE NoPlace(c)
  BY <1>1, Zenon DEF Waiter, NoPlace, Mine
<1>2. CASE SamePlaces(c)
  <2>1. client'[c].pc = "wait" => InDaemon(c)'
    BY <1>2, Zenon DEF Waiter, SamePlaces, InDaemon
  <2>2. \A r \in conns' : Mine(r, c) => client'[c].pc = "wait" /\ client'[c].job = r.job
    BY <1>2 DEF Waiter, SamePlaces
  <2>3. \A w \in Workers : Mine(work'[w], c) => client'[c].pc = "wait" /\ client'[c].job = work'[w].job
    BY <1>2 DEF Waiter, SamePlaces
  <2>4. \A r, s \in conns' : Mine(r, c) /\ Mine(s, c) => r = s
    BY <1>2 DEF Waiter, SamePlaces
  <2>5. /\ \A v, w \in Workers : Mine(work'[v], c) /\ Mine(work'[w], c) => v = w
        /\ \A r \in conns', w \in Workers : ~(Mine(r, c) /\ Mine(work'[w], c))
    BY <1>2 DEF Waiter, SamePlaces
  <2>6. \A r \in conns', w \in Workers : Mine(r, c)' <=> Mine(r, c)
    BY DEF Mine
  <2>. QED
    BY <2>1, <2>2, <2>3, <2>4, <2>5 DEF Waiter, Mine
<1>. QED
  BY <1>1, <1>2

\* Steps that leave all requests where they are.
LEMMA QuietWaits ==
    ASSUME Waits,
           \A c \in Clients : /\ client'[c].pc = "wait" <=> client[c].pc = "wait"
                              /\ client[c].pc = "wait" => client'[c].job = client[c].job,
           \A r \in conns \cup conns' : r.from # Nobody => (r \in conns <=> r \in conns'),
           \A w \in Workers : /\ work'[w].from = work[w].from /\ work'[w].live = work[w].live
                              /\ work'[w].job = work[w].job
    PROVE  Waits'
<1>. SUFFICES ASSUME NEW c \in Clients PROVE Waiter(c)'
  BY DEF Waits
<1>1. c # Nobody
  BY TranslationAssumption
<1>2. SamePlaces(c)
  BY <1>1 DEF SamePlaces, Mine
<1>. QED
  BY <1>2, WaiterStep DEF Waits

\* The request r, or that of worker w, is answered.
LEMMA AnswerWaits ==
    ASSUME TypeOK, NEW r, Requested(r), NEW code \in {"ok", "error", "busy"}, Answer(r, code)
    PROVE  /\ \A c \in Clients : ~Mine(r, c) => client'[c] = client[c]
           /\ \A c \in Clients : Mine(r, c) => client'[c].pc \in {"off", "send"}
<1>. DEFINE Effect(d, pc) == client'[d].pc = pc /\ \A c \in Clients \ {d} : client'[c] = client[c]
<1>1. CASE (r.from = Nobody \/ ~r.live) /\ UNCHANGED <<client, exit>>
  BY <1>1, TranslationAssumption DEF Mine
<1>2. CASE r.from \in Clients /\ r.live /\ (Exit(r.from, "ok") \/ Exit(r.from, "failed"))
  <2>1. Effect(r.from, "off")
    BY <1>2, ExitEffect
  <2>2. \A c \in Clients : Mine(r, c) <=> c = r.from
    BY <1>2, Zenon DEF Mine
  <2>. QED
    BY <2>1, <2>2
<1>3. CASE r.from \in Clients /\ r.live /\ Goto(r.from, "send")
  <2>1. Effect(r.from, "send")
    BY <1>3, GotoEffect
  <2>2. \A c \in Clients : Mine(r, c) <=> c = r.from
    BY <1>3, Zenon DEF Mine
  <2>. QED
    BY <2>1, <2>2
<1>. QED
  BY <1>1, <1>2, <1>3, AnswerEffect

LEMMA FinishWaits ==
    ASSUME TypeOK, Waits, NEW w \in Workers, NEW code \in {"ok", "error"}, Finish(w, code),
           conns' = conns
    PROVE  Waits'
<1>. SUFFICES ASSUME NEW c \in Clients PROVE Waiter(c)'
  BY DEF Waits
<1>1. Requested(work[w]) /\ Answer(work[w], code)
  BY WorkRequested DEF Finish
<1>2. work'[w] = Idle /\ \A v \in Workers \ {w} : work'[v] = work[v]
  BY FinishEffect
<1>3. ~Mine(Idle, c)
  BY IdleShape, Zenon DEF Mine
<1>4. Waiter(c)
  BY DEF Waits
<1>5. CASE Mine(work[w], c)
  <2>1. client'[c].pc # "wait"
    BY <1>1, <1>5, AnswerWaits
  <2>2. (\A r \in conns' : ~Mine(r, c)) /\ (\A v \in Workers : ~Mine(work'[v], c))
    <3>1. \A r \in conns' : ~Mine(r, c)
      BY <1>4, <1>5 DEF Waiter
    <3>2. ASSUME NEW v \in Workers PROVE ~Mine(work'[v], c)
      <4>1. CASE v = w
        BY <4>1, <1>2, <1>3
      <4>2. CASE v # w
        <5>1. work'[v] = work[v] /\ ~Mine(work[v], c)
          BY <4>2, <1>2, <1>4, <1>5 DEF Waiter
        <5>. QED
          BY <5>1
      <4>. QED
        BY <4>1, <4>2
    <3>. QED
      BY <3>1, <3>2
  <2>. QED
    BY <1>4, <2>1, <2>2, WaiterStep DEF NoPlace
<1>6. CASE ~Mine(work[w], c)
  <2>1. client'[c] = client[c]
    BY <1>1, <1>6, AnswerWaits
  <2>2. \A v \in Workers : /\ Mine(work'[v], c) <=> Mine(work[v], c)
                           /\ Mine(work[v], c) => work'[v].job = work[v].job
    <3>. TAKE v \in Workers
    <3>1. CASE v = w
      BY <3>1, <1>2, <1>3, <1>6
    <3>2. CASE v # w
      <4>1. work'[v] = work[v]
        BY <3>2, <1>2
      <4>. QED
        BY <4>1
    <3>. QED
      BY <3>1, <3>2
  <2>. QED
    BY <1>4, <2>1, <2>2, WaiterStep DEF SamePlaces
<1>. QED
  BY <1>5, <1>6

\* A request that a worker takes is in its hands and no longer in conns.
LEMMA TakenWaits ==
    ASSUME Waits, NEW r \in conns, NEW w \in Workers, ~work[w].live,
           Taken(r, work'[w]), \A v \in Workers \ {w} : work'[v] = work[v],
           conns' = conns \ {r}, client' = client
    PROVE  Waits'
<1>. SUFFICES ASSUME NEW c \in Clients PROVE Waiter(c)'
  BY DEF Waits
<1>1. Waiter(c)
  BY DEF Waits
<1>2. ~Mine(work[w], c)
  BY Zenon DEF Mine
<1>3. (Mine(work'[w], c) <=> Mine(r, c)) /\ work'[w].job = r.job
  BY DEF Taken, Mine
<1>4. \A v \in Workers : v # w => work'[v] = work[v]
  OBVIOUS
<1>5. CASE Mine(r, c)
  <2>1. \A s \in conns' : ~Mine(s, c)
    BY <1>1, <1>5 DEF Waiter
  <2>2. \A v \in Workers : v # w => ~Mine(work'[v], c)
    BY <1>1, <1>4, <1>5 DEF Waiter
  <2>3. client'[c].pc = "wait" /\ client'[c].job = work'[w].job
    BY <1>1, <1>3, <1>5 DEF Waiter
  <2>4. InDaemon(c)'
    BY <1>3, <1>5 DEF InDaemon, Mine
  <2>5. /\ \A v \in Workers : Mine(work'[v], c) => client'[c].pc = "wait" /\ client'[c].job = work'[v].job
        /\ \A u, v \in Workers : Mine(work'[u], c) /\ Mine(work'[v], c) => u = v
    BY <2>2, <2>3
  <2>. QED
    BY <2>1, <2>4, <2>5 DEF Waiter, Mine
<1>6. CASE ~Mine(r, c)
  <2>1. \A v \in Workers : /\ Mine(work'[v], c) <=> Mine(work[v], c)
                           /\ Mine(work[v], c) => work'[v].job = work[v].job
    <3>. TAKE v \in Workers
    <3>1. CASE v = w
      BY <3>1, <1>2, <1>3, <1>6
    <3>2. CASE v # w
      <4>1. work'[v] = work[v]
        BY <3>2, <1>4
      <4>. QED
        BY <4>1
    <3>. QED
      BY <3>1, <3>2
  <2>2. \A s \in conns \cup conns' : Mine(s, c) => (s \in conns <=> s \in conns')
    BY <1>6
  <2>. QED
    BY <1>1, <2>1, <2>2, WaiterStep DEF SamePlaces
<1>. QED
  BY <1>5, <1>6

LEMMA DispatchWaits ==
    ASSUME TypeOK, SlotsMatch, Shapes, Waits, NEW r \in conns, Dispatch(r)
    PROVE  Waits'
<1>1. \A w \in Workers : work[w].pc = "idle" => ~work[w].live
  BY DEF Shapes
<1>2. CASE sem["npu"] > 0 /\ Take(NPU, "npu", r)
  <2>1. work[NPU].pc = "idle"
    BY <1>2 DEF SlotsMatch
  <2>. QED
    BY <1>1, <1>2, <2>1, TakeEffect, TakenWaits, DispatchCases DEF Workers
<1>3. ASSUME NEW w \in Gpu, sem["gpu"] > 0, work[w].pc = "idle", Take(w, "gpu", r)
      PROVE  Waits'
  BY <1>1, <1>3, TakeEffect, TakenWaits, DispatchCases DEF Workers
<1>4. CASE Answer(r, "busy") /\ UNCHANGED <<work, sem>>
  <2>. SUFFICES ASSUME NEW c \in Clients PROVE Waiter(c)'
    BY DEF Waits
  <2>1. Waiter(c) /\ Requested(r) /\ conns' = conns \ {r}
    BY WorkRequested, DispatchCases DEF Waits
  <2>2. CASE Mine(r, c)
    <3>1. client'[c].pc # "wait"
      BY <1>4, <2>1, <2>2, AnswerWaits
    <3>2. (\A s \in conns' : ~Mine(s, c)) /\ (\A v \in Workers : ~Mine(work'[v], c))
      BY <1>4, <2>1, <2>2 DEF Waiter
    <3>. QED
      BY <2>1, <3>1, <3>2, WaiterStep DEF NoPlace
  <2>3. CASE ~Mine(r, c)
    <3>1. client'[c] = client[c]
      BY <1>4, <2>1, <2>3, AnswerWaits
    <3>2. \A s \in conns \cup conns' : Mine(s, c) => (s \in conns <=> s \in conns')
      BY <2>1, <2>3
    <3>. QED
      BY <1>4, <2>1, <3>1, <3>2, WaiterStep DEF SamePlaces
  <2>. QED
    BY <2>2, <2>3
<1>. QED
  BY <1>2, <1>3, <1>4, DispatchCases

\* A request is sent: c had none before.
LEMMA SendWaits ==
    ASSUME TypeOK, Waits, NEW c \in Clients, client[c].pc = "send", Goto(c, "wait"),
           conns' = conns \cup {Request(c, client[c].job, "translate")}, work' = work
    PROVE  Waits'
<1>. SUFFICES ASSUME NEW d \in Clients PROVE Waiter(d)'
  BY DEF Waits
<1>. DEFINE q == Request(c, client[c].job, "translate")
<1>1. /\ client'[c].pc = "wait" /\ client'[c].job = client[c].job
      /\ \A b \in Clients \ {c} : client'[b] = client[b]
  BY GotoEffect
<1>2. (Mine(q, d) <=> d = c) /\ q.job = client[c].job
  BY DEF Request, Mine
<1>3. Waiter(d)
  BY DEF Waits
<1>. HIDE DEF q
<1>4. CASE d = c
  <2>1. (\A r \in conns : ~Mine(r, c)) /\ (\A w \in Workers : ~Mine(work'[w], c))
    BY <1>3, <1>4 DEF Waiter
  <2>2. InDaemon(c)'
    BY <1>2, <1>4 DEF InDaemon, Mine, q
  <2>3. /\ \A r \in conns' : Mine(r, c) => client'[c].pc = "wait" /\ client'[c].job = r.job
        /\ \A r, s \in conns' : Mine(r, c) /\ Mine(s, c) => r = s
    BY <1>1, <1>2, <2>1 DEF q
  <2>. QED
    BY <1>4, <2>1, <2>2, <2>3 DEF Waiter, Mine
<1>5. CASE d # c
  <2>1. client'[d] = client[d]
    BY <1>1, <1>5
  <2>2. \A r \in conns \cup conns' : Mine(r, d) => (r \in conns <=> r \in conns')
    BY <1>2, <1>5 DEF q
  <2>. QED
    BY <1>3, <2>1, <2>2, WaiterStep DEF SamePlaces
<1>. QED
  BY <1>4, <1>5

LEMMA KillWaits ==
    ASSUME TypeOK, Waits, NEW c \in Clients, Kill(c)
    PROVE  Waits'
<1>. SUFFICES ASSUME NEW d \in Clients PROVE Waiter(d)'
  BY DEF Waits
<1>1. Waiter(d)
  BY DEF Waits
<1>2. \A r \in conns : (Mine(Cut(r, c), d) <=> Mine(r, d) /\ d # c) /\ (Mine(r, d) /\ d # c => Cut(r, c) = r)
  BY WorkRequested, CutEffect DEF Mine
<1>3. \A w \in Workers : /\ Mine(Cut(work[w], c), d) <=> Mine(work[w], d) /\ d # c
                         /\ Cut(work[w], c).job = work[w].job
  BY WorkRequested, CutEffect DEF Mine
<1>4. CASE d = c
  <2>1. client'[d].pc # "wait"
    BY <1>4, KillEffect
  <2>2. (\A r \in conns' : ~Mine(r, d)) /\ (\A w \in Workers : ~Mine(work'[w], d))
    BY <1>2, <1>3, <1>4, KillEffect
  <2>. QED
    BY <1>1, <2>1, <2>2, WaiterStep DEF NoPlace
<1>5. CASE d # c
  <2>1. client'[d] = client[d]
    BY <1>5, KillEffect
  <2>2. ASSUME NEW r \in conns \cup conns', Mine(r, d) PROVE r \in conns <=> r \in conns'
    <3>1. CASE r \in conns
      BY <1>2, <1>5, <2>2, <3>1, KillEffect
    <3>2. CASE r \in conns'
      <4>1. PICK s \in conns : r = Cut(s, c)
        BY <3>2, KillEffect
      <4>. QED
        BY <1>2, <1>5, <2>2, <3>2, <4>1
    <3>. QED
      BY <3>1, <3>2
  <2>3. \A w \in Workers : /\ Mine(work'[w], d) <=> Mine(work[w], d)
                           /\ Mine(work[w], d) => work'[w].job = work[w].job
    BY <1>3, <1>5, KillEffect
  <2>. QED
    BY <1>1, <2>1, <2>2, <2>3, WaiterStep DEF SamePlaces
<1>. QED
  BY <1>4, <1>5

LEMMA GoneWaits ==
    ASSUME TypeOK, Waits, Gone
    PROVE  Waits'
<1>. SUFFICES ASSUME NEW c \in Clients PROVE Waiter(c)'
  BY DEF Waits
<1>1. client'[c].pc # "wait" /\ conns' = {} /\ \A w \in Workers : work'[w] = Idle
  BY GoneEffect
<1>2. ~Mine(Idle, c)
  BY IdleShape, Zenon DEF Mine
<1>. QED
  BY <1>1, <1>2, WaiterStep DEF Waits, NoPlace

LEMMA WorkerWaits ==
    ASSUME TypeOK, Waits, NEW w \in Workers, WorkerStep(w) \/ BlockFails(w) \/ Hang(w)
    PROVE  Waits'
<1>1. CASE (Gate(w) /\ ~hot) \/ Read(w) \/ Block(w) \/ Hang(w) \/ Write(w)
  <2>1. MovedOn(w)
    BY <1>1, MoveEffect
  <2>2. \A v \in Workers : /\ work'[v].from = work[v].from /\ work'[v].live = work[v].live
                           /\ work'[v].job = work[v].job
    BY <2>1 DEF MovedOn
  <2>3. client' = client /\ conns' = conns
    BY <2>1 DEF MovedOn
  <2>. QED
    BY <2>2, <2>3, QuietWaits
<1>2. CASE (Gate(w) /\ hot) \/ EnsureModel(w) \/ Reply(w) \/ BlockFails(w)
  <2>1. conns' = conns /\ \E code \in {"ok", "error"} : Finish(w, code)
    BY <1>2 DEF Gate, EnsureModel, Reply, BlockFails
  <2>. QED
    BY <2>1, FinishWaits
<1>. QED
  BY <1>1, <1>2 DEF WorkerStep

LEMMA ClientWaits ==
    ASSUME TypeOK, Waits, NEW c \in Clients, ClientStep(c)
    PROVE  Waits'
<1>1. CASE Send(c) /\ ~client[c].stop /\ daemon # "down"
  <2>1. work' = work
    BY <1>1 DEF Send
  <2>. QED
    BY <1>1, <2>1, SendWaits DEF Send
<1>2. CASE ~(Send(c) /\ ~client[c].stop /\ daemon # "down")
  <2>1. work' = work /\ conns' = conns
    BY <1>2 DEF ClientStep, Ping, Send, Lost, Direct, Boot, daemonVars
  <2>2. client[c].pc # "wait"
    BY DEF ClientStep, Ping, Send, Lost, Direct
  <2>3. \/ Goto(c, "send") \/ Goto(c, "direct") \/ Goto(c, "lost")
        \/ Exit(c, "ok") \/ Exit(c, "failed")
    BY <1>2 DEF ClientStep, Ping, Send, Lost, Direct
  <2>4. client'[c].pc # "wait" /\ \A d \in Clients \ {c} : client'[d] = client[d]
    BY <2>3, GotoEffect, ExitEffect
  <2>. QED
    BY <2>1, <2>2, <2>4, QuietWaits
<1>. QED
  BY <1>1, <1>2

LEMMA StepWaits ==
    ASSUME TypeOK, SlotsMatch, Shapes, Waits, [Next]_vars
    PROVE  Waits'
<1>. USE DEF fileVars, daemonVars, envVars
<1>1. ASSUME NEW c \in Clients, NEW j \in Jobs, Start(c, j) PROVE Waits'
  <2>1. client[c].pc = "off" /\ client'[c].pc = "ping"
        /\ \A d \in Clients \ {c} : client'[d] = client[d]
    BY <1>1, Parts DEF Start, ClientStates
  <2>2. work' = work /\ conns' = conns
    BY <1>1 DEF Start
  <2>. QED
    BY <2>1, <2>2, QuietWaits
<1>2. ASSUME NEW c \in Clients, Term(c) PROVE Waits'
  <2>1. /\ client'[c].pc = client[c].pc /\ client'[c].job = client[c].job
        /\ \A d \in Clients \ {c} : client'[d] = client[d]
    BY <1>2, Parts DEF Term, ClientStates
  <2>2. work' = work /\ conns' = conns
    BY <1>2 DEF Term
  <2>. QED
    BY <2>1, <2>2, QuietWaits
<1>3. CASE Prewarm
  <2>1. /\ conns' = conns \cup {Request(Nobody, CHOOSE j \in Jobs : TRUE, "ensure")}
        /\ work' = work /\ client' = client
    BY <1>3 DEF Prewarm
  <2>2. Request(Nobody, CHOOSE j \in Jobs : TRUE, "ensure").from = Nobody
    BY DEF Request
  <2>3. \A r \in conns \cup conns' : r.from # Nobody => (r \in conns <=> r \in conns')
    BY <2>1, <2>2
  <2>. QED
    BY <2>1, <2>3, QuietWaits
<1>4. CASE Stopped \/ Crash \/ HangKill
  BY <1>4, GoneWaits DEF Stopped, Crash, HangKill
<1>5. CASE (\E j \in Jobs : Edit(j)) \/ Quit \/ HangSeen \/ Heat \/ Cool \/ UNCHANGED vars
  <2>1. UNCHANGED <<work, conns, client>>
    BY <1>5 DEF Edit, Quit, HangSeen, Heat, Cool, vars
  <2>. QED
    BY <2>1, QuietWaits
<1>. QED
  BY <1>1, <1>2, <1>3, <1>4, <1>5, WorkerWaits, ClientWaits, DispatchWaits, KillWaits DEF Next

\* The shapes of the work, and those of the requests, after a step.
WorkShape(x) ==
    /\ x.pc = "idle" <=> x.cmd = "none"
    /\ x.pc = "model" <=> x.cmd = "ensure"
    /\ x.cmd = "ensure" => x.from = Nobody
    /\ x.cmd = "none" => ~x.live

LEMMA ShapesParts ==
    /\ Shapes <=> /\ \A r \in conns : r.cmd = "ensure" <=> r.from = Nobody
                  /\ \A w \in Workers : WorkShape(work[w])
    /\ Shapes' <=> /\ \A r \in conns' : r.cmd = "ensure" <=> r.from = Nobody
                   /\ \A w \in Workers : WorkShape(work'[w])
  BY DEF Shapes, WorkShape

LEMMA IdleWorkShape == WorkShape(Idle)
  BY IdleShape DEF WorkShape

LEMMA StepShapes ==
    ASSUME TypeOK, Shapes, [Next]_vars
    PROVE  Shapes'
<1>. USE DEF fileVars, daemonVars, envVars
<1>1. ASSUME NEW w \in Workers, WorkerStep(w) \/ BlockFails(w) \/ Hang(w) PROVE Shapes'
  <2>1. CASE (Gate(w) /\ ~hot) \/ Read(w) \/ Block(w) \/ Hang(w) \/ Write(w)
    <3>1. MovedOn(w)
      BY <2>1, MoveEffect
    <3>2. WorkShape(work'[w])
      BY <3>1, ShapesParts DEF MovedOn, WorkShape
    <3>. QED
      BY <3>1, <3>2, ShapesParts DEF MovedOn
  <2>2. CASE (Gate(w) /\ hot) \/ EnsureModel(w) \/ Reply(w) \/ BlockFails(w)
    <3>1. conns' = conns /\ \E code \in {"ok", "error"} : Finish(w, code)
      BY <2>2 DEF Gate, EnsureModel, Reply, BlockFails
    <3>2. work'[w] = Idle /\ \A v \in Workers \ {w} : work'[v] = work[v]
      BY <3>1, FinishEffect
    <3>. QED
      BY <3>1, <3>2, ShapesParts, IdleWorkShape
  <2>. QED
    BY <1>1, <2>1, <2>2 DEF WorkerStep
<1>2. ASSUME NEW c \in Clients, ClientStep(c) PROVE Shapes'
  <2>1. c # Nobody /\ work' = work
    BY <1>2, TranslationAssumption DEF ClientStep, Ping, Send, Lost, Direct, Boot
  <2>2. conns' = conns \/ conns' = conns \cup {Request(c, client[c].job, "translate")}
    BY <1>2 DEF ClientStep, Ping, Send, Lost, Direct, Boot
  <2>. QED
    BY <2>1, <2>2, ShapesParts DEF Request
<1>3. ASSUME NEW r \in conns, Dispatch(r) PROVE Shapes'
  <2>1. ASSUME NEW w \in Workers, NEW pool \in {"npu", "gpu"}, sem[pool] > 0, Take(w, pool, r)
        PROVE  \A v \in Workers : WorkShape(work'[v])
    <3>1. Taken(r, work'[w]) /\ \A v \in Workers \ {w} : work'[v] = work[v]
      BY <2>1, TakeEffect
    <3>2. r \in Requests /\ (r.cmd = "ensure" <=> r.from = Nobody)
      BY WorkRequested, ShapesParts
    <3>3. WorkShape(work'[w])
      BY <3>1, <3>2 DEF Taken, WorkShape, Requests
    <3>. QED
      BY <3>1, <3>3, ShapesParts
  <2>2. CASE UNCHANGED work
    BY <1>3, <2>2, DispatchCases, ShapesParts
  <2>. QED
    BY <1>3, <2>1, <2>2, DispatchCases, ShapesParts DEF Workers
<1>4. ASSUME NEW c \in Clients, Kill(c) PROVE Shapes'
  <2>1. \A w \in Workers : WorkShape(work'[w])
    <3>. TAKE w \in Workers
    <3>1. /\ work'[w].pc = work[w].pc /\ work'[w].from = work[w].from /\ work'[w].cmd = work[w].cmd
          /\ work'[w].live => work[w].live
      BY <1>4, KillEffect, CutEffect, WorkRequested
    <3>2. WorkShape(work[w])
      BY ShapesParts
    <3>. QED
      BY <3>1, <3>2 DEF WorkShape
  <2>2. \A r \in conns' : r.cmd = "ensure" <=> r.from = Nobody
    BY <1>4, KillEffect, CutEffect, WorkRequested, ShapesParts
  <2>. QED
    BY <2>1, <2>2, ShapesParts
<1>5. CASE Stopped \/ Crash \/ HangKill
  <2>1. conns' = {} /\ \A w \in Workers : work'[w] = Idle
    BY <1>5, GoneEffect DEF Stopped, Crash, HangKill
  <2>. QED
    BY <2>1, ShapesParts, IdleWorkShape
<1>6. CASE Prewarm
  BY <1>6, ShapesParts DEF Prewarm, Request
<1>7. CASE Quit \/ HangSeen \/ Heat \/ Cool \/ UNCHANGED vars
  <2>1. UNCHANGED <<work, conns>>
    BY <1>7 DEF Quit, HangSeen, Heat, Cool, vars
  <2>. QED
    BY <2>1, ShapesParts
<1>8. ASSUME NEW c \in Clients, NEW j \in Jobs, Start(c, j) PROVE Shapes'
  <2>1. UNCHANGED <<work, conns>>
    BY <1>8 DEF Start
  <2>. QED
    BY <2>1, ShapesParts
<1>9. ASSUME NEW j \in Jobs, Edit(j) PROVE Shapes'
  <2>1. UNCHANGED <<work, conns>>
    BY <1>9 DEF Edit
  <2>. QED
    BY <2>1, ShapesParts
<1>10. ASSUME NEW c \in Clients, Term(c) PROVE Shapes'
  <2>1. UNCHANGED <<work, conns>>
    BY <1>10 DEF Term
  <2>. QED
    BY <2>1, ShapesParts
<1>. QED
  BY <1>1, <1>2, <1>3, <1>4, <1>5, <1>6, <1>7, <1>8, <1>9, <1>10 DEF Next

LEMMA InitWaits == Init => Shapes /\ Waits
<1>. SUFFICES ASSUME Init PROVE Shapes /\ Waits
  OBVIOUS
<1>1. conns = {} /\ \A w \in Workers : work[w] = Idle
  BY DEF Init
<1>2. \A c \in Clients : client[c].pc # "wait" /\ ~Mine(Idle, c)
  <2>1. \A c \in Clients : client[c].pc = "off"
    BY DEF Init, Off
  <2>2. \A c \in Clients : ~Mine(Idle, c)
    BY IdleShape, Zenon DEF Mine
  <2>. QED
    BY <2>1, <2>2
<1>3. Shapes
  BY <1>1, ShapesParts, IdleWorkShape
<1>4. Waits
  BY <1>1, <1>2 DEF Waits, Waiter
<1>. QED
  BY <1>3, <1>4

\* The invariant counted: one place for a client that waits, else none.
LEMMA WaiterCounted ==
    ASSUME NEW c \in Clients, Waiter(c)
    PROVE  Cardinality({r \in conns : Mine(r, c)}) + Cardinality({w \in Workers : Mine(work[w], c)})
             = IF client[c].pc = "wait" THEN 1 ELSE 0
<1>. DEFINE R == {r \in conns : Mine(r, c)}
            W == {w \in Workers : Mine(work[w], c)}
<1>0. Cardinality({}) = 0
  BY FS_EmptySet
<1>1. ASSUME client[c].pc # "wait"
      PROVE  Cardinality(R) + Cardinality(W) = 0
  <2>2. (\A r \in conns : ~Mine(r, c)) /\ (\A w \in Workers : ~Mine(work[w], c))
    BY <1>1 DEF Waiter
  <2>1. R = {} /\ W = {}
    BY <2>2
  <2>. HIDE DEF R, W
  <2>. QED
    BY <1>0, <1>1, <2>1
<1>2. ASSUME client[c].pc = "wait", NEW r \in conns, Mine(r, c)
      PROVE  Cardinality(R) + Cardinality(W) = 1
  <2>3. (\A s \in conns : Mine(s, c) => s = r) /\ (\A w \in Workers : ~Mine(work[w], c))
    BY <1>2 DEF Waiter
  <2>1. R = {r} /\ W = {}
    BY <1>2, <2>3
  <2>2. Cardinality({r}) = 1
    BY FS_Singleton
  <2>. HIDE DEF R, W
  <2>. QED
    BY <1>0, <2>1, <2>2
<1>3. ASSUME client[c].pc = "wait", NEW w \in Workers, Mine(work[w], c)
      PROVE  Cardinality(R) + Cardinality(W) = 1
  <2>3. (\A r \in conns : ~Mine(r, c)) /\ (\A v \in Workers : Mine(work[v], c) => v = w)
    BY <1>3 DEF Waiter
  <2>1. R = {} /\ W = {w}
    BY <1>3, <2>3
  <2>2. Cardinality({w}) = 1
    BY FS_Singleton
  <2>. HIDE DEF R, W
  <2>. QED
    BY <1>0, <2>1, <2>2
<1>4. client[c].pc = "wait" => (\E r \in conns : Mine(r, c)) \/ (\E w \in Workers : Mine(work[w], c))
  BY DEF Waiter, InDaemon
<1>. QED
  BY <1>1, <1>2, <1>3, <1>4

\* WaitersServed: whatever is killed, crashes, drains or is refused, a client
\* that waits without a timeout has its request in exactly one place of a
\* daemon that lives.
THEOREM WaitersKept == Spec => []WaitersServed
<1>1. Waits => WaitersServed
  BY WaiterCounted DEF Waits, WaitersServed
<1>. QED
  BY <1>1, TranslationTypeCorrect, PoolsBalanced, InitWaits, StepShapes, StepWaits, PTL DEF Spec

-----------------------------------------------------------------------------
(* The output file                                                         *)

\* c goes on with its work and has not been told to stop.
Active(c) == client[c].pc # "off" /\ ~client[c].stop

\* The job of a client that goes on is nobody else's.
Sole ==
    \A c, d \in Clients :
      Active(c) /\ Active(d) /\ client[c].job = client[d].job => c = d

\* A job that has ended well has no client that goes on.
Ended == \A j \in Jobs : exit[j] = "ok" => \A c \in Clients : client[c].job = j => ~Active(c)

\* A request of a job that no client was stopped for is one of a client that
\* goes on.
KnownAt(x) ==
    x.cmd = "translate" /\ x.job \notin left =>
        x.live /\ x.from \in Clients /\ ~client[x.from].stop

Known == (\A r \in conns : KnownAt(r)) /\ (\A w \in Workers : KnownAt(work[w]))

\* What worker w has read is still the input, what it has written the output.
TextAt(w) ==
    work[w].job \notin left =>
        /\ work[w].pc \in {"blocks", "hung"} => work[w].text = input[work[w].job]
        /\ work[w].pc = "reply" => output[work[w].job] = input[work[w].job]

Text == \A w \in Workers : TextAt(w)

Fresh == Sole /\ Ended /\ Known /\ Text /\ OutputFresh

\* Who works for a job that no client was stopped for: one worker, for the
\* client of the job that goes on.
LEMMA WorkFor ==
    ASSUME TypeOK, Shapes, Waits, Known, NEW w \in Workers,
           work[w].cmd = "translate", work[w].job \notin left
    PROVE  /\ work[w].from \in Clients /\ Mine(work[w], work[w].from)
           /\ Active(work[w].from) /\ client[work[w].from].job = work[w].job
<1>1. /\ work[w].live /\ work[w].from \in Clients /\ ~client[work[w].from].stop
  BY DEF Known, KnownAt
<1>2. Mine(work[w], work[w].from)
  BY <1>1, Zenon DEF Mine
<1>3. client[work[w].from].pc = "wait" /\ client[work[w].from].job = work[w].job
  BY <1>1, <1>2 DEF Waits, Waiter
<1>. QED
  BY <1>1, <1>2, <1>3 DEF Active

LEMMA OneWorker ==
    ASSUME TypeOK, Shapes, Waits, Known, Sole, NEW v \in Workers, NEW w \in Workers,
           work[v].cmd = "translate", work[w].cmd = "translate",
           work[v].job = work[w].job, work[w].job \notin left
    PROVE  v = w
<1>1. /\ work[w].from \in Clients /\ Mine(work[w], work[w].from)
      /\ Active(work[w].from) /\ client[work[w].from].job = work[w].job
  BY WorkFor
<1>2. /\ work[v].from \in Clients /\ Mine(work[v], work[v].from)
      /\ Active(work[v].from) /\ client[work[v].from].job = work[v].job
  BY WorkFor
<1>3. work[v].from = work[w].from
  BY <1>1, <1>2 DEF Sole
<1>. QED
  BY <1>1, <1>2, <1>3 DEF Waits, Waiter

\* Work that has a text, or has written it, is a translation.
LEMMA TextShape ==
    ASSUME TypeOK, Shapes, NEW w \in Workers, work[w].pc \in {"gate", "read", "blocks", "hung", "reply"}
    PROVE  work[w].cmd = "translate"
<1>1. work[w] \in WorkStates
  BY WorkRequested
<1>. QED
  BY <1>1 DEF Shapes, WorkStates

\* Steps in which no client begins and no job ends well.
LEMMA CalmClients ==
    ASSUME Sole, Ended,
           \A c \in Clients : client'[c].job = client[c].job /\ (Active(c)' => Active(c)),
           \A j \in Jobs : exit'[j] = "ok" => exit[j] = "ok"
    PROVE  Sole' /\ Ended'
<1>1. Sole'
  BY DEF Sole
<1>2. Ended'
  BY DEF Ended
<1>. QED
  BY <1>1, <1>2

LEMMA CalmFiles ==
    ASSUME OutputFresh, UNCHANGED <<input, output>>, left \subseteq left',
           \A j \in Jobs : exit'[j] = "ok" => exit[j] = "ok"
    PROVE  OutputFresh'
  BY DEF OutputFresh

LEMMA CalmText ==
    ASSUME Text, UNCHANGED <<input, output>>, left \subseteq left',
           \A w \in Workers : \/ work'[w] = work[w]
                              \/ work'[w].pc \in {"idle", "gate", "read", "model"}
    PROVE  Text'
<1>. SUFFICES ASSUME NEW w \in Workers PROVE TextAt(w)'
  BY DEF Text
<1>1. CASE work'[w] = work[w]
  BY <1>1 DEF Text, TextAt
<1>2. CASE work'[w].pc \in {"idle", "gate", "read", "model"}
  BY <1>2 DEF TextAt
<1>. QED
  BY <1>1, <1>2

\* Requests stay known when nobody is told to stop.
LEMMA CalmKnown ==
    ASSUME Known, left \subseteq left',
           \A c \in Clients : client'[c].stop => client[c].stop,
           \A r \in conns' : r \in conns \/ r.cmd # "translate",
           \A w \in Workers : \/ /\ work'[w].cmd = work[w].cmd /\ work'[w].job = work[w].job
                                 /\ work'[w].from = work[w].from /\ work'[w].live = work[w].live
                              \/ work'[w].cmd # "translate"
    PROVE  Known'
<1>1. ASSUME NEW r \in conns' PROVE KnownAt(r)'
  BY <1>1 DEF Known, KnownAt
<1>2. ASSUME NEW w \in Workers PROVE KnownAt(work[w])'
  BY <1>2 DEF Known, KnownAt
<1>. QED
  BY <1>1, <1>2 DEF Known

\* A worker answers.  It says ok only after it has written the output, or to
\* a prewarm request.
LEMMA FinishFresh ==
    ASSUME TypeOK, Shapes, Waits, Fresh, NEW w \in Workers, NEW code \in {"ok", "error"},
           Finish(w, code), work[w].pc # "idle",
           code = "ok" => work[w].pc \in {"reply", "model"},
           UNCHANGED <<input, output, left, conns>>
    PROVE  Fresh'
<1>1. work'[w] = Idle /\ \A v \in Workers \ {w} : work'[v] = work[v]
  BY FinishEffect
<1>2. Requested(work[w]) /\ Answer(work[w], code)
  BY WorkRequested DEF Finish
<1>3. Text'
  BY <1>1, IdleShape, CalmText DEF Fresh
<1>4. CASE UNCHANGED <<client, exit>>
  <2>1. Sole' /\ Ended'
    BY <1>4, CalmClients DEF Active, Fresh
  <2>2. OutputFresh'
    BY <1>4, CalmFiles DEF Fresh
  <2>3. Known'
    BY <1>1, <1>4, IdleShape, CalmKnown DEF Fresh
  <2>. QED
    BY <1>3, <2>1, <2>2, <2>3 DEF Fresh
<1>5. ASSUME NEW c \in Clients, c = work[w].from, work[w].live,
             \/ code = "ok" /\ Exit(c, "ok")
             \/ code = "error" /\ Exit(c, "failed")
      PROVE  Fresh'
  <2>1. PICK x \in {"ok", "failed"} : Exit(c, x) /\ (x = "ok" => code = "ok")
    BY <1>5
  <2>2. /\ client'[c].pc = "off" /\ client'[c].job = client[c].job /\ ~client'[c].stop
        /\ \A d \in Clients \ {c} : client'[d] = client[d]
        /\ client[c].stop => exit' = exit
        /\ ~client[c].stop => exit'[client[c].job] = x
        /\ \A j \in Jobs \ {client[c].job} : exit'[j] = exit[j]
    BY <2>1, ExitEffect
  <2>3. Mine(work[w], c)
    BY <1>5, Zenon DEF Mine
  <2>4. client[c].pc = "wait" /\ client[c].job = work[w].job
    BY <2>3 DEF Waits, Waiter
  <2>5. Known'
    <3>1. \A d \in Clients : client'[d].stop => client[d].stop
      BY <2>2
    <3>. QED
      BY <1>1, <3>1, IdleShape, CalmKnown DEF Fresh
  <2>6. \A d \in Clients : client'[d].job = client[d].job /\ (Active(d)' => Active(d) /\ d # c)
    BY <2>2 DEF Active
  <2>7. Sole'
    BY <2>6 DEF Fresh, Sole
  <2>8. ASSUME NEW j \in Jobs, exit'[j] = "ok", exit[j] # "ok"
        PROVE  /\ x = "ok" /\ j = work[w].job /\ Active(c) /\ client[c].job = j
    BY <2>2, <2>4, <2>8 DEF Active
  <2>9. Ended'
    <3>. SUFFICES ASSUME NEW j \in Jobs, exit'[j] = "ok", NEW d \in Clients, client'[d].job = j
                  PROVE  ~Active(d)'
      BY DEF Ended
    <3>1. CASE exit[j] = "ok"
      BY <2>6, <3>1 DEF Fresh, Ended
    <3>2. CASE exit[j] # "ok"
      BY <2>6, <2>8, <3>2 DEF Fresh, Sole
    <3>. QED
      BY <3>1, <3>2
  <2>10. OutputFresh'
    <3>. SUFFICES ASSUME NEW j \in Jobs, j \notin left, exit'[j] = "ok"
                  PROVE  output[j] = input[j]
      BY DEF OutputFresh
    <3>1. CASE exit[j] = "ok"
      BY <3>1 DEF Fresh, OutputFresh
    <3>2. CASE exit[j] # "ok"
      <4>1. j = work[w].job /\ work[w].pc \in {"reply", "model"}
        BY <1>5, <2>1, <2>8, <3>2
      <4>2. work[w].pc # "model"
        BY <1>5, TranslationAssumption DEF Shapes
      <4>. QED
        BY <4>1, <4>2 DEF Fresh, Text, TextAt
    <3>. QED
      BY <3>1, <3>2
  <2>. QED
    BY <1>3, <2>5, <2>7, <2>9, <2>10 DEF Fresh
<1>. QED
  BY <1>2, <1>4, <1>5, AnswerEffect

\* A worker goes on with its file.
LEMMA MoveFresh ==
    ASSUME TypeOK, Shapes, Waits, Fresh, NEW w \in Workers,
           (Gate(w) /\ ~hot) \/ Read(w) \/ Block(w) \/ Hang(w) \/ Write(w)
    PROVE  Fresh'
<1>1. MovedOn(w)
  BY MoveEffect
<1>2. work \in [Workers -> WorkStates] /\ output \in [Jobs -> Nat] /\ work[w] \in WorkStates
  BY Parts
<1>3. work[w].cmd = "translate" /\ work[w].job \in Jobs
  BY <1>1, <1>2, TextShape DEF MovedOn, WorkStates
<1>4. Sole' /\ Ended' /\ Known'
  <2>1. Sole' /\ Ended'
    BY <1>1, CalmClients DEF MovedOn, Active, Fresh
  <2>2. Known'
    BY <1>1, CalmKnown DEF MovedOn, Fresh
  <2>. QED
    BY <2>1, <2>2
<1>5. CASE ~Write(w)
  <2>1. output' = output
    BY <1>5 DEF Gate, Read, Block, Hang, fileVars
  <2>2. OutputFresh'
    BY <1>1, <2>1, CalmFiles DEF MovedOn, Fresh
  <2>3. ASSUME NEW v \in Workers PROVE TextAt(v)'
    <3>1. CASE v # w
      BY <1>1, <2>1, <3>1 DEF MovedOn, Fresh, Text, TextAt
    <3>2. CASE v = w /\ Gate(w)
      <4>1. work'[w].pc = "read"
        BY <1>2, <1>5, <3>2 DEF Gate, Read, Block, Hang, Finish, WorkStates
      <4>. QED
        BY <3>2, <4>1 DEF TextAt
    <3>3. CASE v = w /\ Read(w)
      <4>1. work'[w].pc = "blocks" /\ work'[w].text = input[work[w].job]
        BY <1>2, <3>3 DEF Read, WorkStates
      <4>. QED
        BY <1>1, <3>3, <4>1 DEF TextAt, MovedOn
    <3>4. CASE v = w /\ (Block(w) \/ Hang(w))
      <4>1. /\ work[w].pc = "blocks" /\ work'[w].pc \in {"blocks", "hung"}
            /\ work'[w].text = work[w].text
        BY <1>2, <3>4 DEF Block, Hang, WorkStates
      <4>. QED
        BY <1>1, <2>1, <3>4, <4>1 DEF Fresh, Text, TextAt, MovedOn
    <3>. QED
      BY <1>5, <3>1, <3>2, <3>3, <3>4
  <2>. QED
    BY <1>4, <2>2, <2>3 DEF Fresh, Text
<1>6. CASE Write(w)
  <2>. DEFINE k == work[w].job
  <2>1. /\ work[w].pc = "blocks" /\ work'[w].pc = "reply"
        /\ output'[k] = work[w].text
        /\ \A j \in Jobs \ {k} : output'[j] = output[j]
    BY <1>2, <1>3, <1>6 DEF Write, WorkStates
  <2>2. k \notin left => output'[k] = input[k]
    BY <2>1 DEF Fresh, Text, TextAt
  <2>3. k \notin left => exit[k] # "ok"
    BY <1>3, WorkFor DEF Fresh, Ended
  <2>4. OutputFresh'
    BY <1>1, <2>1, <2>3 DEF Fresh, OutputFresh, MovedOn
  <2>5. ASSUME NEW v \in Workers PROVE TextAt(v)'
    <3>1. CASE v = w
      BY <1>1, <2>1, <2>2, <3>1 DEF TextAt, MovedOn
    <3>2. CASE v # w /\ (work[v].pc # "reply" \/ work[v].job # k)
      <4>1. work'[v] = work[v] /\ work[v].job \in Jobs
        BY <1>1, <1>2, <3>2 DEF MovedOn, WorkStates
      <4>. QED
        BY <1>1, <2>1, <3>2, <4>1 DEF Fresh, Text, TextAt, MovedOn
    <3>3. CASE v # w /\ work[v].pc = "reply" /\ work[v].job = k
      <4>1. k \in left
        BY <1>3, <3>3, OneWorker, TextShape DEF Fresh
      <4>. QED
        BY <1>1, <3>3, <4>1 DEF TextAt, MovedOn
    <3>. QED
      BY <3>1, <3>2, <3>3
  <2>. QED
    BY <1>4, <2>4, <2>5 DEF Fresh, Text
<1>. QED
  BY <1>5, <1>6

LEMMA ClientFresh ==
    ASSUME TypeOK, Shapes, Waits, Fresh, NEW c \in Clients, ClientStep(c)
    PROVE  Fresh'
<1>1. work' = work /\ left' = left /\ input' = input
  BY DEF ClientStep, Ping, Send, Lost, Direct, Boot, fileVars, daemonVars
<1>2. /\ client[c].pc \in {"ping", "send", "lost", "direct"}
      /\ client[c].job \in Jobs /\ output \in [Jobs -> Nat]
  BY Parts DEF ClientStep, Ping, Send, Lost, Direct, ClientStates
<1>3. Text' \/ output' # output
  BY <1>1, CalmText DEF Fresh
<1>4. CASE \E pc \in {"send", "direct", "lost", "wait"} :
             Goto(c, pc) /\ UNCHANGED <<exit, output>>
  <2>1. /\ client'[c].pc # "off" /\ client'[c].job = client[c].job
        /\ client'[c].stop = client[c].stop
        /\ \A d \in Clients \ {c} : client'[d] = client[d]
    BY <1>4, GotoEffect
  <2>2. \A d \in Clients : /\ client'[d].job = client[d].job /\ client'[d].stop = client[d].stop
                           /\ Active(d)' => Active(d)
    BY <1>2, <2>1 DEF Active
  <2>3. Sole' /\ Ended'
    BY <1>4, <2>2, CalmClients DEF Fresh
  <2>4. OutputFresh'
    BY <1>1, <1>4, CalmFiles DEF Fresh
  <2>5. Known'
    <3>1. CASE Send(c) /\ ~client[c].stop /\ daemon # "down"
      <4>1. PICK q : q = Request(c, client[c].job, "translate") /\ conns' = conns \cup {q}
        BY <3>1 DEF Send
      <4>2. KnownAt(q)'
        <5>1. ~client'[c].stop
          BY <2>1, <3>1
        <5>2. q.live /\ q.from = c
          BY <4>1 DEF Request
        <5>. QED
          BY <5>1, <5>2 DEF KnownAt
      <4>3. \A r \in conns : KnownAt(r)'
        BY <1>1, <2>2 DEF Fresh, Known, KnownAt
      <4>4. \A w \in Workers : KnownAt(work[w])'
        BY <1>1, <2>2 DEF Fresh, Known, KnownAt
      <4>. QED
        BY <4>1, <4>2, <4>3, <4>4 DEF Known
    <3>2. CASE ~(Send(c) /\ ~client[c].stop /\ daemon # "down")
      <4>1. conns' = conns
        BY <3>2 DEF ClientStep, Ping, Send, Lost, Direct, Boot, daemonVars
      <4>. QED
        BY <1>1, <2>2, <4>1, CalmKnown DEF Fresh
    <3>. QED
      BY <3>1, <3>2
  <2>. QED
    BY <1>3, <1>4, <2>3, <2>4, <2>5 DEF Fresh
<1>5. CASE Exit(c, "failed") /\ UNCHANGED <<conns, output>>
  <2>1. /\ client'[c].pc = "off" /\ client'[c].job = client[c].job /\ ~client'[c].stop
        /\ \A d \in Clients \ {c} : client'[d] = client[d]
        /\ client[c].stop => exit' = exit
        /\ ~client[c].stop => exit'[client[c].job] = "failed"
        /\ \A j \in Jobs \ {client[c].job} : exit'[j] = exit[j]
    BY <1>5, ExitEffect
  <2>2. \A d \in Clients : /\ client'[d].job = client[d].job /\ (client'[d].stop => client[d].stop)
                           /\ Active(d)' => Active(d)
    BY <1>2, <2>1 DEF Active
  <2>3. \A j \in Jobs : exit'[j] = "ok" => exit[j] = "ok"
    BY <2>1
  <2>4. Sole' /\ Ended'
    BY <2>2, <2>3, CalmClients DEF Fresh
  <2>5. OutputFresh'
    BY <1>1, <1>5, <2>3, CalmFiles DEF Fresh
  <2>6. Known'
    BY <1>1, <1>5, <2>2, CalmKnown DEF Fresh
  <2>. QED
    BY <1>3, <1>5, <2>4, <2>5, <2>6 DEF Fresh
<1>6. CASE Direct(c) /\ ~client[c].stop /\ Exit(c, "ok")
           /\ output' = [output EXCEPT ![client[c].job] = input[client[c].job]]
  <2>. DEFINE k == client[c].job
  <2>1. /\ client'[c].pc = "off" /\ client'[c].job = k /\ ~client'[c].stop
        /\ \A d \in Clients \ {c} : client'[d] = client[d]
        /\ exit'[k] = "ok"
        /\ \A j \in Jobs \ {k} : exit'[j] = exit[j]
    BY <1>6, ExitEffect
  <2>2. \A d \in Clients : /\ client'[d].job = client[d].job /\ (client'[d].stop => client[d].stop)
                           /\ Active(d)' => Active(d) /\ d # c
    BY <1>2, <2>1 DEF Active
  <2>3. Sole'
    BY <2>2 DEF Fresh, Sole
  <2>4. Active(c)
    BY <1>2, <1>6 DEF Active
  <2>5. Ended'
    <3>. SUFFICES ASSUME NEW j \in Jobs, exit'[j] = "ok", NEW d \in Clients, client'[d].job = j
                  PROVE  ~Active(d)'
      BY DEF Ended
    <3>1. CASE j = k
      BY <2>2, <2>4, <3>1 DEF Fresh, Sole
    <3>2. CASE j # k
      BY <2>1, <2>2, <3>2 DEF Fresh, Ended
    <3>. QED
      BY <3>1, <3>2
  <2>6. output'[k] = input[k] /\ \A j \in Jobs \ {k} : output'[j] = output[j]
    BY <1>2, <1>6
  <2>7. OutputFresh'
    BY <1>1, <2>1, <2>6 DEF Fresh, OutputFresh
  <2>8. Text'
    <3>. SUFFICES ASSUME NEW w \in Workers PROVE TextAt(w)'
      BY DEF Text
    <3>1. work[w].job \in Jobs
      BY WorkRequested DEF WorkStates
    <3>. QED
      BY <1>1, <2>6, <3>1 DEF Fresh, Text, TextAt
  <2>9. conns' = conns
    BY <1>6 DEF Direct, daemonVars
  <2>10. Known'
    BY <1>1, <2>2, <2>9, CalmKnown DEF Fresh
  <2>. QED
    BY <2>3, <2>5, <2>7, <2>8, <2>10 DEF Fresh
<1>7. CASE Ping(c)
  BY <1>4, <1>7 DEF Ping, fileVars
<1>8. CASE Send(c)
  BY <1>4, <1>5, <1>8 DEF Send
<1>9. CASE Lost(c)
  BY <1>4, <1>5, <1>9 DEF Lost, Boot, daemonVars
<1>10. CASE Direct(c)
  BY <1>5, <1>6, <1>10 DEF Direct, daemonVars
<1>. QED
  BY <1>7, <1>8, <1>9, <1>10 DEF ClientStep

LEMMA DispatchFresh ==
    ASSUME TypeOK, Waits, Fresh, NEW r \in conns, Dispatch(r)
    PROVE  Fresh'
<1>1. conns' = conns \ {r} /\ UNCHANGED <<input, output, left>> /\ r \in Requests /\ Requested(r)
  BY DispatchCases, WorkRequested
<1>2. ASSUME NEW w \in Workers, NEW pool \in {"npu", "gpu"}, sem[pool] > 0, Take(w, pool, r)
      PROVE  Fresh'
  <2>1. /\ Taken(r, work'[w]) /\ (\A v \in Workers \ {w} : work'[v] = work[v])
        /\ UNCHANGED <<client, exit>>
    BY <1>2, TakeEffect
  <2>2. Sole' /\ Ended' /\ OutputFresh'
    BY <1>1, <2>1, CalmClients, CalmFiles DEF Active, Fresh
  <2>3. Text'
    BY <1>1, <2>1, CalmText DEF Taken, Fresh
  <2>4. KnownAt(work[w])'
    BY <1>1, <2>1 DEF Taken, Fresh, Known, KnownAt
  <2>5. \A v \in Workers \ {w} : KnownAt(work[v])'
    BY <1>1, <2>1 DEF Fresh, Known, KnownAt
  <2>6. \A s \in conns' : KnownAt(s)'
    BY <1>1, <2>1 DEF Fresh, Known, KnownAt
  <2>. QED
    BY <2>2, <2>3, <2>4, <2>5, <2>6 DEF Fresh, Known
<1>3. CASE Answer(r, "busy") /\ UNCHANGED <<work, sem>>
  <2>1. exit' = exit /\ \A c \in Clients : /\ client'[c].job = client[c].job
                                           /\ client'[c].stop = client[c].stop
                                           /\ Active(c)' => Active(c)
    <3>1. CASE UNCHANGED <<client, exit>>
      BY <3>1 DEF Active
    <3>2. CASE r.from \in Clients /\ r.live /\ Goto(r.from, "send") /\ exit' = exit
      <4>2. Mine(r, r.from)
        BY <3>2, Zenon DEF Mine
      <4>3. client[r.from].pc = "wait"
        BY <3>2, <4>2 DEF Waits, Waiter
      <4>1. /\ client'[r.from].pc = "send" /\ client'[r.from].job = client[r.from].job
            /\ client'[r.from].stop = client[r.from].stop
            /\ \A c \in Clients \ {r.from} : client'[c] = client[c]
        BY <3>2, GotoEffect
      <4>. QED
        BY <3>2, <4>1, <4>3 DEF Active
    <3>. QED
      BY <1>1, <1>3, <3>1, <3>2, AnswerEffect
  <2>2. Sole' /\ Ended' /\ OutputFresh'
    BY <1>1, <2>1, CalmClients, CalmFiles DEF Fresh
  <2>3. Text'
    BY <1>1, <1>3, CalmText DEF Fresh
  <2>4. Known'
    BY <1>1, <1>3, <2>1, CalmKnown DEF Fresh
  <2>. QED
    BY <2>2, <2>3, <2>4 DEF Fresh
<1>. QED
  BY <1>2, <1>3, DispatchCases DEF Workers

\* A client is stopped: its job is one whose output is no longer promised if
\* the daemon has its request.
LEMMA StopFresh ==
    ASSUME TypeOK, Waits, Fresh, NEW c \in Clients, Term(c) \/ Kill(c)
    PROVE  Fresh'
<1>1. /\ client[c].pc # "off" /\ UNCHANGED <<input, output, exit>>
      /\ left' = IF InDaemon(c) THEN left \cup {client[c].job} ELSE left
  BY DEF Term, Kill
<1>2. /\ \A d \in Clients : client'[d].job = client[d].job /\ (Active(d)' => Active(d))
      /\ \A d \in Clients \ {c} : client'[d] = client[d]
  <2>1. CASE Term(c)
    BY <1>1, <2>1, Parts DEF Term, Active, ClientStates
  <2>2. CASE Kill(c)
    BY <2>2, KillEffect DEF Active
  <2>. QED
    BY <2>1, <2>2
<1>3. Sole' /\ Ended' /\ OutputFresh'
  BY <1>1, <1>2, CalmClients, CalmFiles DEF Fresh
<1>4. \A r \in conns : Mine(r, c) => r.job \in left'
  BY <1>1 DEF Waits, Waiter, InDaemon
<1>5. \A w \in Workers : Mine(work[w], c) => work[w].job \in left'
  BY <1>1 DEF Waits, Waiter, InDaemon
<1>6. ASSUME NEW x, NEW y, KnownAt(x), Mine(x, c) => x.job \in left',
             y.from = x.from, y.job = x.job, y.cmd = x.cmd, x.live /\ x.from # c => y.live
      PROVE  KnownAt(y)'
  <2>1. CASE x.cmd = "translate" /\ x.job \notin left'
    <3>1. x.live /\ x.from \in Clients /\ ~client[x.from].stop
      BY <1>1, <1>6, <2>1 DEF KnownAt
    <3>2. x.from # c
      BY <1>6, <2>1, <3>1, Zenon DEF Mine
    <3>. QED
      BY <1>2, <1>6, <3>1, <3>2 DEF KnownAt
  <2>. QED
    BY <1>6, <2>1 DEF KnownAt
<1>7. CASE Term(c)
  <2>1. UNCHANGED <<conns, work>>
    BY <1>7 DEF Term, daemonVars
  <2>2. \A r \in conns' : KnownAt(r)'
    BY <1>4, <1>6, <2>1 DEF Fresh, Known
  <2>3. \A w \in Workers : KnownAt(work[w])'
    BY <1>5, <1>6, <2>1 DEF Fresh, Known
  <2>4. Text'
    BY <1>1, <2>1, CalmText DEF Fresh
  <2>. QED
    BY <1>3, <2>2, <2>3, <2>4 DEF Fresh, Known
<1>8. CASE Kill(c)
  <2>1. ASSUME NEW r \in conns' PROVE KnownAt(r)'
    <3>1. PICK s \in conns : r = Cut(s, c)
      BY <1>8, KillEffect
    <3>2. /\ r.from = s.from /\ r.job = s.job /\ r.cmd = s.cmd
          /\ s.live /\ s.from # c => r.live
      BY <3>1, CutEffect, WorkRequested
    <3>. QED
      BY <1>4, <1>6, <3>2 DEF Fresh, Known
  <2>2. ASSUME NEW w \in Workers
        PROVE  /\ work'[w].from = work[w].from /\ work'[w].job = work[w].job
               /\ work'[w].cmd = work[w].cmd /\ work'[w].pc = work[w].pc
               /\ work'[w].text = work[w].text
               /\ work[w].live /\ work[w].from # c => work'[w].live
    BY <1>8, KillEffect, CutEffect, WorkRequested
  <2>3. \A w \in Workers : KnownAt(work[w])'
    <3>. TAKE w \in Workers
    <3>1. PICK y : y = work'[w]
      OBVIOUS
    <3>2. KnownAt(y)'
      BY <1>5, <1>6, <2>2, <3>1 DEF Fresh, Known
    <3>. QED
      BY <3>1, <3>2 DEF KnownAt
  <2>4. \A w \in Workers : TextAt(w)'
    BY <1>1, <2>2 DEF Fresh, Text, TextAt
  <2>. QED
    BY <1>3, <2>1, <2>3, <2>4 DEF Fresh, Known, Text
<1>. QED
  BY <1>7, <1>8

LEMMA StartFresh ==
    ASSUME TypeOK, Waits, Fresh, NEW c \in Clients, NEW j \in Jobs, Start(c, j)
    PROVE  Fresh'
<1>1. /\ client[c].pc = "off" /\ client'[c].pc = "ping" /\ client'[c].job = j /\ ~client'[c].stop
      /\ \A d \in Clients \ {c} : client'[d] = client[d]
      /\ \A d \in Clients : client[d].job = j => ~Active(d)
  BY Parts DEF Start, ClientStates, Active
<1>2. /\ exit'[j] = "none" /\ \A k \in Jobs \ {j} : exit'[k] = exit[k]
      /\ UNCHANGED <<input, output, left, conns, work>>
  BY Parts DEF Start, daemonVars
<1>3. Sole'
  BY <1>1 DEF Fresh, Sole, Active
<1>4. Ended'
  BY <1>1, <1>2 DEF Fresh, Ended, Active
<1>5. OutputFresh'
  BY <1>2, CalmFiles DEF Fresh
<1>6. Known'
  <2>1. \A d \in Clients : client'[d].stop => client[d].stop
    BY <1>1
  <2>. QED
    BY <1>2, <2>1, CalmKnown DEF Fresh
<1>7. Text'
  BY <1>2, CalmText DEF Fresh
<1>. QED
  BY <1>3, <1>4, <1>5, <1>6, <1>7 DEF Fresh

\* Nobody edits the text of a job that a client is translating.
LEMMA EditFresh ==
    ASSUME TypeOK, Shapes, Waits, Fresh, NEW j \in Jobs, Edit(j)
    PROVE  Fresh'
<1>1. /\ \A c \in Clients : client[c].job = j => ~Active(c)
      /\ UNCHANGED <<output, left, client, conns, work>>
      /\ exit'[j] = "none" /\ \A k \in Jobs \ {j} : exit'[k] = exit[k] /\ input'[k] = input[k]
  BY Parts DEF Edit, Active, daemonVars
<1>2. \A k \in Jobs : exit'[k] = "ok" => exit[k] = "ok"
  BY <1>1
<1>3. Sole' /\ Ended'
  BY <1>1, <1>2, CalmClients DEF Fresh, Active
<1>4. OutputFresh'
  BY <1>1 DEF Fresh, OutputFresh
<1>5. Known'
  BY <1>1, CalmKnown DEF Fresh
<1>6. ASSUME NEW w \in Workers PROVE TextAt(w)'
  <2>1. CASE work[w].job # j
    <3>1. work[w].job \in Jobs
      BY WorkRequested DEF WorkStates
    <3>. QED
      BY <1>1, <2>1, <3>1 DEF Fresh, Text, TextAt
  <2>2. CASE work[w].job = j /\ work[w].pc \in {"blocks", "hung", "reply"}
    <3>1. j \in left
      BY <1>1, <2>2, WorkFor, TextShape DEF Fresh
    <3>. QED
      BY <1>1, <2>2, <3>1 DEF TextAt
  <2>. QED
    BY <1>1, <2>1, <2>2 DEF TextAt
<1>. QED
  BY <1>3, <1>4, <1>5, <1>6 DEF Fresh, Text

LEMMA GoneFresh ==
    ASSUME TypeOK, Fresh, Gone, UNCHANGED fileVars
    PROVE  Fresh'
<1>1. /\ \A c \in Clients : /\ client'[c].job = client[c].job /\ client'[c].stop = client[c].stop
                            /\ Active(c)' => Active(c)
      /\ conns' = {} /\ \A w \in Workers : work'[w] = Idle
  BY GoneEffect DEF Active
<1>2. UNCHANGED <<input, output, exit, left>>
  BY DEF fileVars
<1>3. Sole' /\ Ended' /\ OutputFresh'
  BY <1>1, <1>2, CalmClients, CalmFiles DEF Fresh
<1>4. Known' /\ Text'
  BY <1>1, <1>2, CalmKnown, CalmText, IdleShape DEF Fresh
<1>. QED
  BY <1>3, <1>4 DEF Fresh

LEMMA StepFresh ==
    ASSUME TypeOK, Shapes, Waits, Fresh, [Next]_vars
    PROVE  Fresh'
<1>. USE DEF fileVars, daemonVars, envVars
<1>1. ASSUME NEW w \in Workers, WorkerStep(w) \/ BlockFails(w) \/ Hang(w) PROVE Fresh'
  <2>1. CASE (Gate(w) /\ ~hot) \/ Read(w) \/ Block(w) \/ Hang(w) \/ Write(w)
    BY <2>1, MoveFresh
  <2>2. CASE (Gate(w) /\ hot) \/ BlockFails(w)
    BY <2>2, FinishFresh DEF Gate, BlockFails
  <2>3. CASE EnsureModel(w) \/ Reply(w)
    BY <2>3, FinishFresh DEF EnsureModel, Reply
  <2>. QED
    BY <1>1, <2>1, <2>2, <2>3 DEF WorkerStep
<1>2. CASE Stopped \/ Crash \/ HangKill
  BY <1>2, GoneFresh DEF Stopped, Crash, HangKill
<1>3. CASE Prewarm \/ Quit \/ HangSeen \/ Heat \/ Cool \/ UNCHANGED vars
  <2>1. UNCHANGED <<input, output, exit, left, client, work>>
    BY <1>3 DEF Prewarm, Quit, HangSeen, Heat, Cool, vars
  <2>2. \A r \in conns' : r \in conns \/ r.cmd # "translate"
    BY <1>3 DEF Prewarm, Quit, HangSeen, Heat, Cool, vars, Request
  <2>3. Sole' /\ Ended' /\ OutputFresh'
    BY <2>1, CalmClients, CalmFiles DEF Fresh, Active
  <2>4. Known' /\ Text'
    BY <2>1, <2>2, CalmKnown, CalmText DEF Fresh
  <2>. QED
    BY <2>3, <2>4 DEF Fresh
<1>. QED
  BY <1>1, <1>2, <1>3, StartFresh, EditFresh, StopFresh, ClientFresh, DispatchFresh DEF Next

LEMMA InitFresh == Init => Fresh
<1>. SUFFICES ASSUME Init PROVE Fresh
  OBVIOUS
<1>1. /\ \A c \in Clients : ~Active(c)
      /\ \A j \in Jobs : exit[j] # "ok"
      /\ conns = {} /\ \A w \in Workers : work[w] = Idle
  BY DEF Init, Off, Active
<1>2. Sole /\ Ended /\ OutputFresh
  BY <1>1 DEF Sole, Ended, OutputFresh
<1>3. Known /\ Text
  BY <1>1, IdleShape DEF Known, KnownAt, Text, TextAt
<1>. QED
  BY <1>2, <1>3 DEF Fresh

\* OutputFresh: when the latest client of a job has ended well, the output
\* file translates the input as it is, whatever was retried, refused, lost
\* or crashed, for a job none of whose clients was stopped half-way.
THEOREM OutputIsFresh == Spec => []OutputFresh
<1>1. Fresh => OutputFresh
  BY DEF Fresh
<1>. QED
  BY <1>1, TranslationTypeCorrect, PoolsBalanced, InitWaits, InitFresh, StepShapes, StepWaits,
     StepFresh, PTL DEF Spec

=============================================================================
