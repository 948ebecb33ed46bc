---------------------------- MODULE PlainServer ----------------------------
(* The echo server without TLS (example-6) in its two implementations,
   ServerLinux.cpp with WorkerLinux.cpp and ServerWin.cpp with WorkerWin.cpp.
   They follow one outline; what differs is how sockets are closed and
   forgotten.  The bytes that are echoed are the subject of EchoSession: here a
   worker serves until it is stopped or its connection ends. *)
EXTENDS Descriptors, Sequences

CONSTANTS
    Callers,        \* threads that call the public methods
    NoOne,          \* mutexPublicMethods is not held
    Platforms,      \* implementations to consider
    Backlog,        \* the second argument of listen()
    StepsMayFail,   \* whether socket calls may report an error
    CloseMayFail    \* whether closing a socket may report an error

ASSUME PlainAssumption ==
    /\ NoOne \notin Callers
    /\ Platforms \subseteq {"linux", "windows"}
    /\ Backlog \in Nat
    /\ StepsMayFail \in BOOLEAN /\ CloseMayFail \in BOOLEAN

VARIABLES
    platform,       \* the implementation in use; never changes
    desc,           \* sockets of the process
    peer,           \* of each connection: "away", "here" or "gone"
    backlog,        \* connections waiting in the listening socket
    pc,             \* control point of each caller
    mutex,          \* the caller inside a public method, or NoOne
    server,         \* fields of the Server object
    run,            \* control point of Server::run, and its clientSocket
    workers,        \* the vector of run(), consumed when it stops them
    worker          \* fields and control point of the Worker of a connection

vars == <<platform, desc, peer, backlog, pc, mutex, server, run, workers, worker>>

ServerType == [enabled : BOOLEAN, running : BOOLEAN, joinable : BOOLEAN,
               listenSocket : MaybeFd]
RunPcs == {"none", "loop", "ready", "accept", "accepted", "begin", "stop", "join",
           "finished"}
RunType == [at : RunPcs, clientSocket : MaybeFd]
WorkerType == [at : {"none", "serve", "close", "finished", "joined"},
               enabled : BOOLEAN, running : BOOLEAN, clientSocket : MaybeFd]
CallerPcs == {"idle", "socket", "listen", "start", "join"}

Init ==
    /\ platform \in Platforms
    /\ desc = [f \in Fds |-> Free]
    /\ peer = [c \in Conns |-> "away"]
    /\ backlog = {}
    /\ pc = [t \in Callers |-> "idle"]
    /\ mutex = NoOne
    /\ server = [enabled |-> FALSE, running |-> FALSE, joinable |-> FALSE,
                 listenSocket |-> NoFd]
    /\ run = [at |-> "none", clientSocket |-> NoFd]
    /\ workers = <<>>
    /\ worker = [c \in Conns |-> [at |-> "none", enabled |-> FALSE,
                                  running |-> FALSE, clientSocket |-> NoFd]]

Goto(t, at) == pc' = [pc EXCEPT ![t] = at]
Return(t) == Goto(t, "idle") /\ mutex' = NoOne

\* Linux hands out the lowest free number, Windows any free handle.
NewSocket(f) == f \in FreeFds(desc) /\ (platform = "linux" => f \in LowestFree(desc))

\* Server::closeSocket really closes something.  The Linux test lets a valid
\* socket pass, the Windows test returns early for exactly those.
ClosesListenSocket == platform = "linux" /\ server.listenSocket # NoFd

\* What Server::closeSocket does to the system: connections nobody accepted
\* are reset with the listening socket ...
CloseListenSocket ==
    IF ClosesListenSocket
    THEN /\ desc' = Release(desc, server.listenSocket)
         /\ backlog' = {}
         /\ peer' = [c \in Conns |-> IF c \in backlog THEN "gone" ELSE peer[c]]
    ELSE UNCHANGED <<desc, backlog, peer>>

\* ... and the number it leaves in listenSocket.
AfterClose == IF ClosesListenSocket THEN NoFd ELSE server.listenSocket
-----------------------------------------------------------------------------
(* Server::open and Server::close under mutexPublicMethods. *)

Open(t) ==
    /\ pc[t] = "idle" /\ mutex = NoOne /\ ~server.enabled
    /\ mutex' = t /\ Goto(t, "socket")
    /\ UNCHANGED <<platform, desc, peer, backlog, server, run, workers, worker>>

\* The number of an earlier socket, if any, is overwritten.
OpenSocket(t) ==
    /\ pc[t] = "socket"
    /\ \/ \E f \in Fds :
             /\ NewSocket(f)
             /\ desc' = Install(desc, f, Unbound)
             /\ server' = [server EXCEPT !.listenSocket = f]
             /\ Goto(t, "listen") /\ UNCHANGED mutex
       \/ /\ FreeFds(desc) = {} \/ StepsMayFail
          /\ server' = [server EXCEPT !.listenSocket = NoFd]
          /\ Return(t) /\ UNCHANGED desc
    /\ UNCHANGED <<platform, peer, backlog, run, workers, worker>>

\* bind() fails on Windows while another socket listens on the port; the Linux
\* code sets SO_REUSEPORT.
PortTaken == platform = "windows" /\ \E f \in Fds : desc[f] = Listening

\* Mutant of OpenListen: a failure returns without closeSocket().
OpenListenNoCleanup(t) ==
    /\ pc[t] = "listen"
    /\ \/ /\ ~PortTaken
          /\ desc' = Install(desc, server.listenSocket, Listening)
          /\ Goto(t, "start") /\ UNCHANGED mutex
       \/ /\ PortTaken \/ StepsMayFail
          /\ Return(t) /\ UNCHANGED desc
    /\ UNCHANGED <<platform, peer, backlog, server, run, workers, worker>>

\* Socket options, non-blocking mode, bind and listen.
OpenListen(t) ==
    /\ pc[t] = "listen"
    /\ \/ /\ ~PortTaken
          /\ desc' = Install(desc, server.listenSocket, Listening)
          /\ Goto(t, "start") /\ UNCHANGED <<mutex, server, peer, backlog>>
       \/ /\ PortTaken \/ StepsMayFail
          /\ CloseListenSocket
          /\ server' = [server EXCEPT !.listenSocket = AfterClose]
          /\ Return(t)
    /\ UNCHANGED <<platform, run, workers, worker>>

OpenStart(t) ==
    /\ pc[t] = "start"
    /\ server' = [server EXCEPT !.enabled = TRUE, !.running = TRUE, !.joinable = TRUE]
    /\ run' = [run EXCEPT !.at = "loop"]
    /\ Return(t)
    /\ UNCHANGED <<platform, desc, peer, backlog, workers, worker>>

\* Mutant of Close: the listening socket is closed before the join.
CloseDisposesFirst(t) ==
    /\ pc[t] = "idle" /\ mutex = NoOne /\ server.enabled
    /\ CloseListenSocket
    /\ server' = [server EXCEPT !.enabled = FALSE, !.listenSocket = AfterClose]
    /\ mutex' = t /\ Goto(t, "join")
    /\ UNCHANGED <<platform, run, workers, worker>>

\* The flag is cleared; the mutex stays held during the join.
Close(t) ==
    /\ pc[t] = "idle" /\ mutex = NoOne /\ server.enabled
    /\ server' = [server EXCEPT !.enabled = FALSE]
    /\ mutex' = t /\ Goto(t, "join")
    /\ UNCHANGED <<platform, desc, peer, backlog, run, workers, worker>>

\* Mutant of CloseJoined: close() does not wait for the thread.
CloseUnjoined(t) ==
    /\ pc[t] = "join"
    /\ server' = [server EXCEPT !.running = FALSE]
    /\ Return(t)
    /\ UNCHANGED <<platform, desc, peer, backlog, run, workers, worker>>

\* The rest of close(), once the thread has finished.
CloseJoined(t) ==
    /\ pc[t] = "join" /\ run.at = "finished"
    /\ run' = [run EXCEPT !.at = "none"]
    /\ CloseListenSocket
    /\ server' = [server EXCEPT !.joinable = FALSE, !.running = FALSE,
                                !.listenSocket = AfterClose]
    /\ Return(t)
    /\ UNCHANGED <<platform, workers, worker>>
-----------------------------------------------------------------------------
(* Server::run. *)

Move(from, to) ==
    /\ run.at = from /\ run' = [run EXCEPT !.at = to]
    /\ UNCHANGED <<platform, desc, peer, backlog, pc, mutex, server, workers, worker>>

\* while (enabled) around select(), whose timeout only repeats the loop.
LeaveLoop == (~server.enabled \/ StepsMayFail) /\ Move("loop", "stop")
SelectReady == server.enabled /\ backlog # {} /\ Move("loop", "ready")

\* enabled is looked at when select() is over, and again after accept().  What
\* follows is another step, so that close() may clear it in between.
StopsBeforeAccept == ~server.enabled /\ Move("ready", "stop")
GoesToAccept == server.enabled /\ Move("ready", "accept")

AcceptFails ==
    /\ FreeFds(desc) = {} \/ StepsMayFail
    /\ Move("accept", "loop")

Accept(c) ==
    /\ run.at = "accept" /\ c \in backlog
    /\ backlog' = backlog \ {c}
    /\ \E f \in Fds :
          /\ NewSocket(f)
          /\ desc' = Install(desc, f, c)
          /\ run' = [at |-> "accepted", clientSocket |-> f]
    /\ UNCHANGED <<platform, peer, pc, mutex, server, workers, worker>>

\* The break and the continue that forget the accepted socket.
Abandon(from, to) ==
    /\ run.at = from
    /\ run' = [at |-> to, clientSocket |-> NoFd]
    /\ UNCHANGED <<platform, desc, peer, backlog, pc, mutex, server, workers, worker>>

StopsAfterAccept == ~server.enabled /\ Abandon("accepted", "stop")
GoesToBegin == server.enabled /\ Move("accepted", "begin")
NonBlockingFails == StepsMayFail /\ Abandon("begin", "loop")

\* new Worker(clientSocket), push_back and start().
StartWorker(c) ==
    /\ run.at = "begin" /\ desc[run.clientSocket] = c
    /\ worker' = [worker EXCEPT ![c] = [at |-> "serve", enabled |-> TRUE,
                     running |-> TRUE, clientSocket |-> run.clientSocket]]
    /\ workers' = Append(workers, c)
    /\ run' = [at |-> "loop", clientSocket |-> NoFd]
    /\ UNCHANGED <<platform, desc, peer, backlog, pc, mutex, server>>

\* Worker::close of each worker in turn, up to the join ...
StopWorker ==
    /\ run.at = "stop" /\ workers # <<>>
    /\ worker' = [worker EXCEPT ![Head(workers)].enabled = FALSE]
    /\ run' = [run EXCEPT !.at = "join"]
    /\ UNCHANGED <<platform, desc, peer, backlog, pc, mutex, server, workers>>

\* ... and after it: the socket is closed unless run() has forgotten it.
JoinWorker ==
    /\ run.at = "join"
    /\ LET c == Head(workers) IN
       /\ worker[c].at = "finished"
       /\ desc' = Release(desc, worker[c].clientSocket)
       /\ worker' = [worker EXCEPT ![c].at = "joined", ![c].running = FALSE,
                                   ![c].clientSocket = NoFd]
    /\ workers' = Tail(workers)
    /\ run' = [run EXCEPT !.at = "stop"]
    /\ UNCHANGED <<platform, peer, backlog, pc, mutex, server>>

FinishRun ==
    /\ run.at = "stop" /\ workers = <<>>
    /\ CloseListenSocket
    /\ server' = [server EXCEPT !.running = FALSE, !.listenSocket = AfterClose]
    /\ run' = [run EXCEPT !.at = "finished"]
    /\ UNCHANGED <<platform, pc, mutex, workers, worker>>
-----------------------------------------------------------------------------
(* Worker::run. *)

\* Mutant of WorkerStops: readString and write do not look at enabled.
WorkerStopsAtEof(c) ==
    /\ worker[c].at = "serve"
    /\ peer[c] = "gone"
    /\ worker' = [worker EXCEPT ![c].at = "close"]
    /\ UNCHANGED <<platform, desc, peer, backlog, pc, mutex, server, run, workers>>

\* readString and write poll enabled whenever the socket makes them wait, and
\* readString reports the end of the connection; both end run()'s loop.
WorkerStops(c) ==
    /\ worker[c].at = "serve"
    /\ ~worker[c].enabled \/ peer[c] = "gone" \/ desc[worker[c].clientSocket] # c
    /\ worker' = [worker EXCEPT ![c].at = "close"]
    /\ UNCHANGED <<platform, desc, peer, backlog, pc, mutex, server, run, workers>>

\* Mutant of ForgetsSocket: a failure keeps the number on Windows as on Linux.
ForgetsIfClosed(closed) == closed

\* The end of run() forgets its socket: on Linux if closing it succeeded, on
\* Windows in any case.
ForgetsSocket(closed) == closed \/ platform = "windows"

WorkerCloses(c) ==
    /\ worker[c].at = "close"
    /\ desc' = Release(desc, worker[c].clientSocket)
    /\ \E closed \in BOOLEAN :
          /\ closed \/ CloseMayFail
          /\ worker' = [worker EXCEPT ![c].at = "finished", ![c].running = FALSE,
                           ![c].clientSocket = IF ForgetsSocket(closed) THEN NoFd ELSE @]
    /\ UNCHANGED <<platform, peer, backlog, pc, mutex, server, run, workers>>
-----------------------------------------------------------------------------
Connect(c) ==
    /\ peer[c] = "away" /\ \E f \in Fds : desc[f] = Listening
    /\ Cardinality(backlog) < Backlog
    /\ peer' = [peer EXCEPT ![c] = "here"]
    /\ backlog' = backlog \cup {c}
    /\ UNCHANGED <<platform, desc, pc, mutex, server, run, workers, worker>>

Leave(c) ==
    /\ peer[c] = "here"
    /\ peer' = [peer EXCEPT ![c] = "gone"]
    /\ UNCHANGED <<platform, desc, backlog, pc, mutex, server, run, workers, worker>>

InsideCall(t) == OpenSocket(t) \/ OpenListen(t) \/ OpenStart(t) \/ CloseJoined(t)

ServerThread ==
    \/ LeaveLoop \/ SelectReady \/ StopsBeforeAccept \/ GoesToAccept \/ AcceptFails
    \/ StopsAfterAccept \/ GoesToBegin \/ NonBlockingFails
    \/ StopWorker \/ JoinWorker \/ FinishRun
    \/ \E c \in Conns : Accept(c) \/ StartWorker(c)

WorkerThread(c) == WorkerStops(c) \/ WorkerCloses(c)

Next ==
    \/ \E t \in Callers : Open(t) \/ Close(t) \/ InsideCall(t)
    \/ ServerThread
    \/ \E c \in Conns : WorkerThread(c) \/ Connect(c) \/ Leave(c)

Spec == Init /\ [][Next]_vars

\* Every thread of the program that can step eventually does; peers and callers
\* promise nothing.
Fairness ==
    /\ \A t \in Callers : WF_vars(InsideCall(t))
    /\ WF_vars(ServerThread)
    /\ \A c \in Conns : WF_vars(WorkerThread(c))

LiveSpec == Spec /\ Fairness
-----------------------------------------------------------------------------
\* The type of every variable.
TypeOK ==
    /\ platform \in Platforms
    /\ desc \in Tables
    /\ peer \in [Conns -> {"away", "here", "gone"}]
    /\ backlog \in SUBSET Conns
    /\ pc \in [Callers -> CallerPcs]
    /\ mutex \in Callers \cup {NoOne}
    /\ server \in ServerType
    /\ run \in RunType
    /\ workers \in Seq(Conns)
    /\ worker \in [Conns -> WorkerType]

\* Assigning a std::thread that is still joinable terminates the program: no
\* thread and no worker of an earlier session is left when open() starts one.
StartsAlone ==
    \A t \in Callers : pc[t] = "start" =>
        /\ ~server.joinable /\ run.at = "none"
        /\ \A c \in Conns : worker[c].at \in {"none", "joined"}

\* The socket run() selects on is the listening one, on both platforms, until
\* run() itself closes it.
RunListens ==
    run.at \notin {"none", "finished"} =>
        server.listenSocket \in Fds /\ desc[server.listenSocket] = Listening

\* On Linux an earlier listening socket never stands in the way of bind(), and
\* whatever step of open() failed, no socket of it is left.
PortIsFree ==
    platform = "linux" =>
        /\ \A t \in Callers : pc[t] \in {"socket", "listen"} =>
              \A f \in Fds : desc[f] # Listening
        /\ mutex = NoOne => \A f \in Fds : desc[f] # Unbound

\* The life of the server as its callers and clients see it.
Life == INSTANCE ServerLife WITH
    life <- IF server.enabled THEN "open"
            ELSE IF \E t \in Callers : pc[t] = "join" THEN "closing" ELSE "closed",
    served <- {c \in Conns : worker[c].at \in {"serve", "close"}},
    ended <- {c \in Conns : worker[c].at \in {"finished", "joined"}}

\* On both platforms, whatever fails, the server opens, serves and closes as
\* ServerLife says, although the Windows server goes on listening.
LivesAsPromised == Life!Spec

\* On Windows a connection's socket is closed only by its own worker, even if
\* closing reports errors and handles are reused; on Linux this needs ::close
\* to succeed.
ReleasedByOwner ==
    [][platform = "windows" \/ ~CloseMayFail =>
          \A f \in Fds, c \in Conns :
             desc[f] = c /\ desc'[f] # c =>
                worker[c].at = "close" /\ worker'[c].at = "finished"]_vars

\* close() returns although peers may stay connected and silent: without TLS
\* nothing between select() and the worker waits for a peer.
CloseReturns == \A t \in Callers : pc[t] = "join" ~> pc[t] = "idle"

\* "Close the socket and sets the socket member to an invalid value."
\* (Server.h:71): a server that has been closed listens no more.
ClosedListensNoMore ==
    mutex = NoOne /\ ~server.enabled => \A f \in Fds : desc[f] # Listening
=============================================================================
