------------------------- MODULE DaemonSocketProofs -------------------------
(***************************************************************************)
(* Proofs about DaemonSocket, for any number of daemons and clients, any   *)
(* queue length and any number of quits and crashes.                       *)
(***************************************************************************)
EXTENDS DaemonSocket, TLAPS

ClientPCs == {"idle", "ping", "pinging", "launch", "poll", "polling",
              "send", "sent", "work", "served", "failed"}
ClientStates == [pc : ClientPCs, at : Daemons \cup {None}]

\* Closing the connections of d leaves the queues and clients in their sets.
LEMMA HangupTyped ==
    ASSUME TypeOK, NEW d \in Daemons, Hangup(d)
    PROVE  queue' \in [Daemons -> 0..Backlog] /\ client' \in [Clients -> ClientStates]
<1>1. queue' \in [Daemons -> 0..Backlog]
  BY SocketAssumption DEF TypeOK, Hangup
<1>2. ASSUME NEW c \in Clients
      PROVE  (IF client[c].at # d THEN client[c]
              ELSE [pc |-> CASE client[c].pc = "pinging" -> "launch"
                             [] client[c].pc = "polling" -> "poll"
                             [] OTHER -> "ping", at |-> None]) \in ClientStates
  <2>1. client[c] \in ClientStates
    BY DEF TypeOK, ClientStates, ClientPCs
  <2>. QED
    BY <2>1 DEF ClientStates, ClientPCs
<1>. QED
  BY <1>1, <1>2 DEF Hangup

\* A client that gets a new connection enters a queue that has room.
LEMMA ConnectTyped ==
    ASSUME TypeOK, NEW c \in Clients, NEW from, NEW to \in ClientPCs, Connect(c, from, to)
    PROVE  queue' \in [Daemons -> 0..Backlog] /\ client' \in [Clients -> ClientStates]
<1>1. Reached \in Daemons /\ queue[Reached] < Backlog
  BY DEF Connect, Room, Reached, TypeOK
<1>2. queue[Reached] + 1 \in 0..Backlog
  BY <1>1, SocketAssumption DEF TypeOK
<1>3. [pc |-> to, at |-> Reached] \in ClientStates
  BY <1>1 DEF ClientStates
<1>. QED
  BY <1>1, <1>2, <1>3 DEF Connect, TypeOK, ClientStates, ClientPCs

\* A client that only changes its place stays a client.
LEMMA GotoTyped ==
    ASSUME TypeOK, NEW c \in Clients, NEW from, NEW to \in ClientPCs, Goto(c, from, to)
    PROVE  client' \in [Clients -> ClientStates]
<1>1. client[c] \in ClientStates /\ client \in [Clients -> ClientStates]
  BY DEF TypeOK, ClientStates, ClientPCs
<1>2. [client[c] EXCEPT !.pc = to] \in ClientStates
  BY <1>1 DEF ClientStates
<1>3. client' = [client EXCEPT ![c] = [client[c] EXCEPT !.pc = to]]
  BY DEF Goto
<1>. QED
  BY <1>1, <1>2, <1>3

\* The parts of the type, for the proof.
LEMMA Parts ==
    TypeOK <=> /\ path \in Daemons \cup {None}
               /\ proc \in [Daemons -> Starting \cup {"serve", "drain", "closed", "off"}]
               /\ queue \in [Daemons -> 0..Backlog]
               /\ client \in [Clients -> ClientStates]
               /\ used \in [{"quit", "crash"} -> Nat]
BY DEF TypeOK, ClientStates, ClientPCs

LEMMA DaemonStepTyped ==
    ASSUME TypeOK, NEW d \in Daemons, DaemonStep(d)
    PROVE  TypeOK'
<1>. USE DEF Step, Starting
<1>1. CASE Exists(d) \/ Listen(d)
  BY <1>1 DEF Exists, Listen, TypeOK
<1>2. CASE Probe(d)
  <2>1. CASE Room
    <3>1. Reached \in Daemons /\ queue[Reached] < Backlog
      BY <2>1 DEF Room, Reached, TypeOK
    <3>2. queue[Reached] + 1 \in 0..Backlog
      BY <3>1, SocketAssumption DEF TypeOK
    <3>3. queue' \in [Daemons -> 0..Backlog]
      BY <1>2, <2>1, <3>1, <3>2 DEF Probe, TypeOK
    <3>. QED
      BY <1>2, <3>3 DEF Probe, TypeOK
  <2>2. CASE ~Room
    BY <1>2, <2>2 DEF Probe, TypeOK
  <2>. QED
    BY <2>1, <2>2
<1>3. CASE Unlink(d) \/ Bind(d) \/ Remove(d)
  BY <1>3 DEF Unlink, Bind, Remove, TypeOK
<1>4. CASE Accept(d)
  <2>1. queue' \in [Daemons -> 0..Backlog]
    BY <1>4, SocketAssumption DEF Accept, TypeOK
  <2>2. ASSUME NEW c \in Clients
        PROVE  (IF client[c].at # d THEN client[c]
                ELSE CASE client[c].pc \in {"pinging", "polling"} -> [pc |-> "send", at |-> None]
                       [] client[c].pc = "sent" -> [client[c] EXCEPT !.pc = "work"]
                       [] OTHER -> client[c]) \in ClientStates
    <3>1. client[c] \in ClientStates
      BY Parts
    <3>2. [client[c] EXCEPT !.pc = "work"] \in ClientStates
      BY <3>1 DEF ClientStates, ClientPCs
    <3>3. [pc |-> "send", at |-> None] \in ClientStates
      BY DEF ClientStates, ClientPCs
    <3>. QED
      BY <3>1, <3>2, <3>3
  <2>3. client' \in [Clients -> ClientStates]
    BY <1>4, <2>2 DEF Accept
  <2>. QED
    BY <1>4, <2>1, <2>3 DEF Accept, TypeOK, ClientStates, ClientPCs
<1>5. CASE Close(d)
  <2>1. proc' \in [Daemons -> Starting \cup {"serve", "drain", "closed", "off"}]
    BY <1>5 DEF Close, TypeOK
  <2>2. queue' \in [Daemons -> 0..Backlog] /\ client' \in [Clients -> ClientStates]
    BY <1>5, HangupTyped DEF Close
  <2>. QED
    BY <1>5, <2>1, <2>2 DEF Close, TypeOK, ClientStates, ClientPCs
<1>. QED
  BY <1>1, <1>2, <1>3, <1>4, <1>5 DEF DaemonStep

LEMMA ClientStepTyped ==
    ASSUME TypeOK, NEW c \in Clients, Need(c) \/ ClientStep(c) \/ Expire(c)
    PROVE  TypeOK'
<1>. DEFINE ClientOK == client' \in [Clients -> ClientStates]
            QueueOK  == queue' \in [Daemons -> 0..Backlog]
            ProcOK   == proc' \in [Daemons -> Starting \cup {"serve", "drain", "closed", "off"}]
<1>. SUFFICES ClientOK /\ QueueOK /\ ProcOK /\ UNCHANGED <<path, used>>
  <2>1. ASSUME ClientOK, QueueOK, ProcOK, UNCHANGED <<path, used>> PROVE TypeOK'
    BY <2>1 DEF TypeOK, ClientStates, ClientPCs
  <2>. QED
    BY <2>1
<1>1. UNCHANGED <<path, used>>
  BY DEF Need, ClientStep, Ping, Launch, Poll, Timeout, Send, Done, Retry, Expire
<1>2. ProcOK
  <2>1. CASE Launch(c)
    BY <2>1 DEF Launch, Step, Starting, TypeOK
  <2>2. CASE ~Launch(c)
    <3>1. UNCHANGED proc
      BY <2>2 DEF Need, ClientStep, Ping, Poll, Timeout, Send, Done, Retry, Expire
    <3>. QED
      BY <3>1 DEF TypeOK
  <2>. QED
    BY <2>1, <2>2
<1>. USE DEF ClientPCs
<1>3. CASE Ping(c)
  <2>1. CASE Connect(c, "ping", "pinging")
    BY <2>1, <1>1, <1>2, ConnectTyped
  <2>2. CASE Goto(c, "ping", "launch") /\ UNCHANGED queue
    BY <2>2, <1>1, <1>2, GotoTyped DEF TypeOK
  <2>. QED
    BY <1>3, <2>1, <2>2 DEF Ping
<1>4. CASE Send(c)
  <2>1. CASE Connect(c, "send", "sent")
    BY <2>1, <1>1, <1>2, ConnectTyped
  <2>2. CASE Goto(c, "send", "ping") /\ UNCHANGED queue
    BY <2>2, <1>1, <1>2, GotoTyped DEF TypeOK
  <2>. QED
    BY <1>4, <2>1, <2>2 DEF Send
<1>5. CASE Poll(c)
  BY <1>5, <1>1, <1>2, ConnectTyped DEF Poll
<1>6. CASE Launch(c)
  <2>1. UNCHANGED queue
    BY <1>6 DEF Launch
  <2>2. CASE Goto(c, "launch", "poll")
    BY <2>1, <2>2, <1>1, <1>2, GotoTyped DEF TypeOK
  <2>3. CASE Goto(c, "launch", "failed")
    BY <2>1, <2>3, <1>1, <1>2, GotoTyped DEF TypeOK
  <2>. QED
    BY <1>6, <2>2, <2>3 DEF Launch
<1>7. CASE Need(c)
  BY <1>7, <1>1, <1>2, GotoTyped DEF Need, TypeOK
<1>8. CASE Retry(c)
  BY <1>8, <1>1, <1>2, GotoTyped DEF Retry, TypeOK
<1>9. CASE Expire(c)
  BY <1>9, <1>1, <1>2, GotoTyped DEF Expire, TypeOK
<1>10. CASE Done(c)
  <2>1. [pc |-> "served", at |-> None] \in ClientStates
    BY DEF ClientStates
  <2>2. ClientOK
    BY <1>10, <2>1, Parts DEF Done
  <2>. QED
    BY <1>10, <2>2, <1>1, <1>2 DEF Done, TypeOK
<1>11. CASE Timeout(c)
  <2>1. [pc |-> IF client[c].pc = "pinging" THEN "launch" ELSE "poll", at |-> None] \in ClientStates
    BY DEF ClientStates
  <2>2. ClientOK
    BY <1>11, <2>1, Parts DEF Timeout
  <2>. QED
    BY <1>11, <2>2, <1>1, <1>2 DEF Timeout, TypeOK
<1>. QED
  BY <1>3, <1>4, <1>5, <1>6, <1>7, <1>8, <1>9, <1>10, <1>11 DEF ClientStep

\* Events are counted.
LEMMA SpendTyped ==
    ASSUME TypeOK, NEW e \in {"quit", "crash"}, Spend(e)
    PROVE  used' \in [{"quit", "crash"} -> Nat] /\ used'[e] # used[e]
<1>1. used[e] \in Nat
  BY DEF TypeOK
<1>. QED
  BY <1>1 DEF TypeOK, Spend

LEMMA StepTyped ==
    ASSUME TypeOK, [Next]_vars
    PROVE  TypeOK'
<1>1. ASSUME NEW d \in Daemons, Quit(d) PROVE TypeOK'
  <2>1. proc' \in [Daemons -> Starting \cup {"serve", "drain", "closed", "off"}]
    BY <1>1 DEF Quit, Step, Starting, TypeOK
  <2>. QED
    BY <1>1, <2>1, SpendTyped DEF Quit, TypeOK
<1>2. ASSUME NEW d \in Daemons, Crash(d) PROVE TypeOK'
  <2>1. proc' \in [Daemons -> Starting \cup {"serve", "drain", "closed", "off"}]
    BY <1>2 DEF Crash, Starting, TypeOK
  <2>2. queue' \in [Daemons -> 0..Backlog] /\ client' \in [Clients -> ClientStates]
    BY <1>2, HangupTyped DEF Crash
  <2>3. used' \in [{"quit", "crash"} -> Nat]
    BY <1>2, SpendTyped DEF Crash
  <2>. QED
    BY <1>2, <2>1, <2>2, <2>3 DEF Crash, TypeOK, ClientStates, ClientPCs
<1>3. CASE UNCHANGED vars
  BY <1>3 DEF vars, TypeOK
<1>. QED
  BY <1>1, <1>2, <1>3, DaemonStepTyped, ClientStepTyped DEF Next

\* TypeOK: no queue of a socket ever exceeds the backlog given to listen(),
\* over all connects, probes and pings that timed out.
THEOREM SocketTypeCorrect == Spec => []TypeOK
<1>1. Init => TypeOK
  <2>1. [pc |-> "idle", at |-> None] \in ClientStates
    BY DEF ClientStates, ClientPCs
  <2>. QED
    BY <2>1, SocketAssumption DEF Init, TypeOK, Starting, ClientStates, ClientPCs
<1>. QED
  BY <1>1, StepTyped, PTL DEF Spec

\* Every action that takes a client out of "work" answers it, or is a crash:
\* the guard of Close, that the pools are empty, is what this rests on.
LEMMA StepFinishes ==
    ASSUME TypeOK, Next, NEW c \in Clients,
           client[c].pc = "work", client'[c].pc # "work"
    PROVE  client'[c].pc = "served" \/ used'["crash"] # used["crash"]
<1>1. ASSUME NEW d \in Daemons, Crash(d) PROVE used'["crash"] # used["crash"]
  BY <1>1, SpendTyped DEF Crash
<1>2. ASSUME NEW d \in Daemons, DaemonStep(d) PROVE FALSE
  <2>1. CASE Accept(d)
    BY <2>1 DEF Accept
  <2>2. CASE Close(d)
    BY <2>2 DEF Close, Hangup
  <2>3. CASE ~Accept(d) /\ ~Close(d)
    BY <1>2, <2>3 DEF DaemonStep, Exists, Probe, Unlink, Bind, Listen, Remove
  <2>. QED
    BY <2>1, <2>2, <2>3
<1>3. ASSUME NEW d \in Daemons, Quit(d) PROVE FALSE
  BY <1>3 DEF Quit
<1>4. ASSUME NEW b \in Clients, Need(b) \/ ClientStep(b) \/ Expire(b)
      PROVE  client'[c].pc = "served"
  <2>1. CASE Done(b)
    BY <2>1 DEF Done, TypeOK
  <2>2. CASE ~Done(b)
    <3>1. b # c
      BY <1>4, <2>2 DEF Need, ClientStep, Ping, Launch, Poll, Timeout, Send, Retry, Expire, Goto, Connect
    <3>2. client'[c] = client[c]
      BY <1>4, <2>2, <3>1 DEF Need, ClientStep, Ping, Launch, Poll, Timeout, Send, Retry, Expire,
                              Goto, Connect, TypeOK
    <3>. QED
      BY <3>2
  <2>. QED
    BY <2>1, <2>2
<1>. QED
  BY <1>1, <1>2, <1>3, <1>4 DEF Next

\* AcceptedFinished: a request that some daemon has accepted is answered by
\* it, whatever quits, other daemons and the socket file do; only a crash
\* loses it.
THEOREM AcceptedAnswered == Spec => AcceptedFinished
<1>1. TypeOK /\ [Next]_vars =>
        [\A c \in Clients :
           (client[c].pc = "work" /\ client'[c].pc # "work") =>
              client'[c].pc = "served" \/ used'["crash"] # used["crash"]]_vars
  BY StepFinishes
<1>. QED
  BY <1>1, SocketTypeCorrect, PTL DEF Spec, AcceptedFinished
=============================================================================
