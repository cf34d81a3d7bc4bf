---------------------------- MODULE DaemonSocket ----------------------------
(***************************************************************************)
(* How clients and daemons find one another.  The TTS, translate and OCR   *)
(* daemons share one protocol: a daemon that starts looks for the socket   *)
(* file, asks whoever listens there, removes the file if nobody does, and  *)
(* binds its own; when it is told to stop it finishes what it has accepted *)
(* and removes the file again.  A client pings; without an answer it       *)
(* starts a daemon and pings until it is there or 120 s have passed.       *)
(*                                                                         *)
(* A connection is accepted by the kernel as soon as the socket listens    *)
(* and its queue has room, whether or not the daemon will ever look at it. *)
(* A ping that times out stays in the queue.                               *)
(***************************************************************************)
EXTENDS Naturals, FiniteSets

CONSTANTS Daemons,  \* process ids of the daemon
          Clients,
          Backlog,  \* connections the queue of a socket holds
          Limit,    \* how often daemons are told to "quit", and "crash"
          None

ASSUME SocketAssumption ==
    /\ Backlog \in Nat \ {0}
    /\ Limit \in [{"quit", "crash"} -> Nat]
    /\ None \notin Daemons

VARIABLES
    path,   \* whose socket the file names, or None
    proc,   \* proc[d]: where the daemon process is
    queue,  \* queue[d]: connections nobody has accepted yet
    client, \* client[c]: where it is, and the daemon it is connected to
    used    \* quits and crashes so far

vars == <<path, proc, queue, client, used>>

Spend(e) == used[e] < Limit[e] /\ used' = [used EXCEPT ![e] = @ + 1]

\* A process is starting, listening, or has closed its socket.
Starting == {"exists", "probe", "unlink", "bind", "listen"}
Listening(d) == proc[d] \in {"serve", "drain"}

\* connect: to the daemon behind the file.
Reached == IF path # None /\ Listening(path) THEN path ELSE None
Room == Reached # None /\ queue[Reached] < Backlog

\* connect fails: nobody listens, or the queue is full and stays so.  That of
\* a daemon that accepts has room again before any timeout.
Refused == Reached # None => (~Room /\ proc[Reached] = "drain")

Step(d, from, to) == proc[d] = from /\ proc' = [proc EXCEPT ![d] = to]

\* d is gone: its connections are closed.
Hangup(d) ==
    /\ queue' = [queue EXCEPT ![d] = 0]
    /\ client' = [c \in Clients |->
         IF client[c].at # d THEN client[c]
         ELSE [pc |-> CASE client[c].pc = "pinging" -> "launch"
                        [] client[c].pc = "polling" -> "poll"
                        [] OTHER -> "ping", at |-> None]]

-----------------------------------------------------------------------------
(* main of the daemons                                                     *)

\* DAEMON_SOCK.exists().
Exists(d) ==
    /\ Step(d, "exists", IF path = None THEN "bind" ELSE "probe")
    /\ UNCHANGED <<path, queue, client, used>>

\* Mutant of Probe: a file is taken for a running daemon.
ProbeFile(d) ==
    /\ Step(d, "probe", IF path # None THEN "off" ELSE "unlink")
    /\ UNCHANGED <<path, queue, client, used>>

\* The probe: whoever lets us connect is taken for a running daemon.
Probe(d) ==
    /\ Room \/ Refused
    /\ Step(d, "probe", IF Room THEN "off" ELSE "unlink")
    /\ queue' = IF Room THEN [queue EXCEPT ![Reached] = @ + 1] ELSE queue
    /\ UNCHANGED <<path, client, used>>

\* DAEMON_SOCK.unlink(): the process dies of an exception when the file is
\* not there any more.
Unlink(d) ==
    /\ Step(d, "unlink", IF path = None THEN "off" ELSE "bind")
    /\ path' = None
    /\ UNCHANGED <<queue, client, used>>

\* bind, after torch has been imported; it fails when the file exists.
Bind(d) ==
    /\ Step(d, "bind", IF path = None THEN "listen" ELSE "off")
    /\ path' = IF path = None THEN d ELSE path
    /\ UNCHANGED <<queue, client, used>>

Listen(d) ==
    /\ Step(d, "listen", "serve")
    /\ UNCHANGED <<path, queue, client, used>>

\* The accept loop: pings are answered, jobs begin.
Accept(d) ==
    /\ proc[d] = "serve" /\ queue[d] > 0
    /\ queue' = [queue EXCEPT ![d] = 0]
    /\ client' = [c \in Clients |->
         IF client[c].at # d THEN client[c]
         ELSE CASE client[c].pc \in {"pinging", "polling"} -> [pc |-> "send", at |-> None]
                [] client[c].pc = "sent" -> [client[c] EXCEPT !.pc = "work"]
                [] OTHER -> client[c]]
    /\ UNCHANGED <<path, proc, used>>

\* A job is done and answered.
Done(c) ==
    /\ client[c].pc = "work"
    /\ client' = [client EXCEPT ![c] = [pc |-> "served", at |-> None]]
    /\ UNCHANGED <<path, proc, queue, used>>

\* SIGTERM, a shutdown request or a watchdog: the accept loop ends.
Quit(d) ==
    /\ Spend("quit")
    /\ Step(d, "serve", "drain")
    /\ UNCHANGED <<path, queue, client>>

\* Mutant of Close: the pools are not waited for.
CloseNow(d) ==
    /\ Step(d, "drain", "closed")
    /\ Hangup(d)
    /\ UNCHANGED <<path, used>>

\* The pools are empty: close the socket.
Close(d) ==
    /\ \A c \in Clients : client[c].at = d => client[c].pc # "work"
    /\ Step(d, "drain", "closed")
    /\ Hangup(d)
    /\ UNCHANGED <<path, used>>

\* And remove the file, whosever it is by now.
Remove(d) ==
    /\ Step(d, "closed", "off")
    /\ path' = None
    /\ UNCHANGED <<queue, client, used>>

Crash(d) ==
    /\ proc[d] # "off" /\ Spend("crash")
    /\ proc' = [proc EXCEPT ![d] = "off"]
    /\ Hangup(d)
    /\ UNCHANGED path

-----------------------------------------------------------------------------
(* _request, ping and ensure_daemon of the clients, and daemon_prewarm.py  *)

Goto(c, from, to) == client[c].pc = from /\ client' = [client EXCEPT ![c].pc = to]

\* Mutant of Connect: the queue has no bound.
ConnectAny(c, from, to) ==
    /\ client[c].pc = from /\ Reached # None
    /\ client' = [client EXCEPT ![c] = [pc |-> to, at |-> Reached]]
    /\ queue' = [queue EXCEPT ![Reached] = @ + 1]

\* The client's step from, over a new connection.
Connect(c, from, to) ==
    /\ client[c].pc = from /\ Room
    /\ client' = [client EXCEPT ![c] = [pc |-> to, at |-> Reached]]
    /\ queue' = [queue EXCEPT ![Reached] = @ + 1]

\* A job needs the daemon: main, or prewarm_for_job.
Need(c) == Goto(c, "idle", "ping") /\ UNCHANGED <<path, proc, queue, used>>

\* ensure_daemon pings once before it starts anything.
Ping(c) ==
    /\ \/ Connect(c, "ping", "pinging")
       \/ Refused /\ Goto(c, "ping", "launch") /\ UNCHANGED queue
    /\ UNCHANGED <<path, proc, used>>

\* Popen of the daemon, which fails when there are too many processes.
Launch(c) ==
    /\ \/ /\ Goto(c, "launch", "poll")
          /\ \E d \in Daemons : Step(d, "off", "exists")
       \/ /\ Goto(c, "launch", "failed")
          /\ \A d \in Daemons : proc[d] # "off"
          /\ UNCHANGED proc
    /\ UNCHANGED <<path, queue, used>>

Poll(c) == Connect(c, "poll", "polling") /\ UNCHANGED <<path, proc, used>>

\* A daemon that does not accept does not answer within the 3 s of a ping.
Timeout(c) ==
    /\ client[c].pc \in {"pinging", "polling"} /\ proc[client[c].at] = "drain"
    /\ client' = [client EXCEPT ![c] =
         [pc |-> IF @.pc = "pinging" THEN "launch" ELSE "poll", at |-> None]]
    /\ UNCHANGED <<path, proc, queue, used>>

\* 120 s are over.  A daemon that is starting makes it in that time, and one
\* that serves answers.
Expire(c) ==
    /\ Goto(c, "poll", "failed")
    /\ Reached # None => proc[Reached] = "drain"
    /\ \A d \in Daemons : proc[d] \notin Starting
    /\ UNCHANGED <<path, proc, queue, used>>

\* The request itself; without a daemon ensure_daemon is called again.
Send(c) ==
    /\ \/ Connect(c, "send", "sent")
       \/ Refused /\ Goto(c, "send", "ping") /\ UNCHANGED queue
    /\ UNCHANGED <<path, proc, used>>

\* The job has failed and is submitted again.
Retry(c) == Goto(c, "failed", "ping") /\ UNCHANGED <<path, proc, queue, used>>

-----------------------------------------------------------------------------
Init ==
    /\ path = None
    /\ proc = [d \in Daemons |-> "off"]
    /\ queue = [d \in Daemons |-> 0]
    /\ client = [c \in Clients |-> [pc |-> "idle", at |-> None]]
    /\ used = [quit |-> 0, crash |-> 0]

DaemonStep(d) ==
    \/ Exists(d) \/ Probe(d) \/ Unlink(d) \/ Bind(d) \/ Listen(d)
    \/ Accept(d) \/ Close(d) \/ Remove(d)

ClientStep(c) == Ping(c) \/ Launch(c) \/ Poll(c) \/ Timeout(c) \/ Send(c) \/ Done(c) \/ Retry(c)

Next ==
    \/ \E d \in Daemons : DaemonStep(d) \/ Quit(d) \/ Crash(d)
    \/ \E c \in Clients : Need(c) \/ ClientStep(c) \/ Expire(c)

Spec == Init /\ [][Next]_vars

\* Processes go on; jobs end, by themselves or by the hang guard; time passes.
Fairness ==
    /\ \A d \in Daemons : WF_vars(DaemonStep(d))
    /\ \A c \in Clients : WF_vars(ClientStep(c)) /\ SF_vars(Expire(c))

FairSpec == Spec /\ Fairness

-----------------------------------------------------------------------------
(* Properties                                                              *)

\* The queues keep to listen()'s bound and every connection has an end.
TypeOK ==
    /\ path \in Daemons \cup {None}
    /\ proc \in [Daemons -> Starting \cup {"serve", "drain", "closed", "off"}]
    /\ queue \in [Daemons -> 0..Backlog]
    /\ client \in [Clients -> [pc : {"idle", "ping", "pinging", "launch", "poll", "polling",
                                     "send", "sent", "work", "served", "failed"},
                               at : Daemons \cup {None}]]
    /\ used \in [{"quit", "crash"} -> Nat]

\* A job a daemon has accepted is answered, also while the daemon shuts down
\* and others take its place; only a crash loses it.
AcceptedFinished ==
    [][\A c \in Clients :
         (client[c].pc = "work" /\ client'[c].pc # "work") =>
            client'[c].pc = "served" \/ used'["crash"] # used["crash"]]_vars

\* Clients start daemons on demand: once daemons stop going away, whoever
\* needs one is served in the end, whatever files and half-dead daemons the
\* earlier ones have left.
EventuallyServed == \A c \in Clients : (client[c].pc = "ping") ~> (client[c].pc = "served")

\* "already running, exiting": there is one daemon.
OneDaemon == Cardinality({d \in Daemons : Listening(d)}) <= 1

\* ensure_daemon: "Attach to a running daemon or launch one": it does not
\* fail because the daemon is being stopped.
NeverRefused == \A c \in Clients : client[c].pc # "failed"

\* No process removes the file of a daemon that serves.
FileKept == [][(path # None /\ proc[path] = "serve" /\ proc'[path] = "serve") => path' = path]_vars
=============================================================================
