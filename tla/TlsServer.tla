----------------------------- MODULE TlsServer -----------------------------
(* The TLS echo server (example-8, ServerLinux.cpp): callers of the public
   methods, the server thread that accepts connections, and one worker thread
   per connection (module TlsWorker), over one descriptor table. *)
EXTENDS TlsWorker, Sequences

CONSTANTS
    Callers,        \* threads that call the public methods
    NoOne,          \* mutexPublicMethods is not held
    Setters,        \* the callers that also change the file names
    Names,          \* file names for key and certificate
    Backlog,        \* the second argument of listen()
    StepsMayFail    \* whether system and OpenSSL calls may report an error

ASSUME ServerAssumption ==
    /\ NoOne \notin Callers
    /\ Setters \subseteq Callers
    /\ Names # {}
    /\ Backlog \in Nat
    /\ StepsMayFail \in BOOLEAN

VARIABLES
    pc,             \* control point of each caller
    mutex,          \* the caller inside a public method, or NoOne
    enabled,        \* Server::enabled
    running,        \* Server::running
    listenSocket,   \* Server::listenSocket
    joinable,       \* serverThread.joinable()
    context,        \* file names tlsContextPtr was configured from, <<>> if null
    fileNames,      \* <<keyFileName, certFileName>>
    srvPc,          \* control point of Server::run ("none": no thread)
    clientSocket,   \* the descriptor run() is bringing into service
    workers,        \* the vector of run(), consumed when it stops them
    backlog         \* connections waiting in the listening socket

serverVars == <<pc, mutex, enabled, running, listenSocket, joinable, context,
                fileNames, srvPc, clientSocket, workers, backlog>>
vars == <<desc, peer, unread, workerVars, serverVars>>

InOpen == {"context", "socket", "listen", "start"}
Inside == InOpen \cup {"join"}
CallerPcs == Inside \cup {"idle", "setKey", "setCert"}
ServerPcs == {"none", "loop", "select", "ready", "accept", "accepted", "begin",
              "handshake", "stop", "join", "finished"}

Init ==
    /\ WorkerInit
    /\ pc = [t \in Callers |-> "idle"]
    /\ mutex = NoOne
    /\ enabled = FALSE /\ running = FALSE
    /\ listenSocket = NoFd
    /\ joinable = FALSE
    /\ context = <<>>
    /\ fileNames \in Names \X Names
    /\ srvPc = "none"
    /\ clientSocket = NoFd
    /\ workers = <<>>
    /\ backlog = {}

\* The pc of thread t moves and nothing else does in the caller.
Goto(t, at) == pc' = [pc EXCEPT ![t] = at]
Return(t) == Goto(t, "idle") /\ mutex' = NoOne

\* Server::closeSocket: the kernel resets the connections nobody accepted.
CloseListenSocket ==
    /\ listenSocket' = NoFd
    /\ desc' = Release(desc, listenSocket)
    /\ backlog' = IF listenSocket = NoFd THEN backlog ELSE {}
    /\ peer' = IF listenSocket = NoFd THEN peer
               ELSE [c \in Conns |-> IF c \in backlog THEN "gone" ELSE peer[c]]

IsOpen == enabled \/ running
-----------------------------------------------------------------------------
(* Server::open, step by step under mutexPublicMethods. *)

Open(t) ==
    /\ pc[t] = "idle" /\ mutex = NoOne
    /\ ~enabled
    /\ mutex' = t /\ Goto(t, "context")
    /\ UNCHANGED <<desc, peer, unread, workerVars, enabled, running,
                   listenSocket, joinable, context, fileNames, srvPc,
                   clientSocket, workers, backlog>>

\* createTlsContextServer, configureTlsContext, createSocketAddress.  The new
\* context replaces the old one even when configuring it fails.
OpenContext(t) ==
    /\ pc[t] = "context"
    /\ \/ context' = fileNames /\ Goto(t, "socket") /\ UNCHANGED mutex
       \/ StepsMayFail /\ context' \in {<<>>, fileNames} /\ Return(t)
    /\ UNCHANGED <<desc, peer, unread, workerVars, enabled, running,
                   listenSocket, joinable, fileNames, srvPc, clientSocket,
                   workers, backlog>>

OpenSocket(t) ==
    /\ pc[t] = "socket"
    /\ \/ /\ listenSocket' \in LowestFree(desc)
          /\ desc' = Install(desc, listenSocket', Unbound)
          /\ Goto(t, "listen") /\ UNCHANGED mutex
       \/ /\ FreeFds(desc) = {} \/ StepsMayFail
          /\ listenSocket' = NoFd
          /\ Return(t) /\ UNCHANGED desc
    /\ UNCHANGED <<peer, unread, workerVars, enabled, running, joinable,
                   context, fileNames, srvPc, clientSocket, workers, backlog>>

\* Mutant of OpenListen: the error path does not close the socket.
OpenListenNoCleanup(t) ==
    /\ pc[t] = "listen"
    /\ \/ /\ desc' = Install(desc, listenSocket, Listening)
          /\ Goto(t, "start") /\ UNCHANGED mutex
       \/ StepsMayFail /\ Return(t) /\ UNCHANGED desc
    /\ UNCHANGED <<peer, unread, workerVars, enabled, running, listenSocket,
                   joinable, context, fileNames, srvPc, clientSocket, workers,
                   backlog>>

\* Socket options, non-blocking mode, bind and listen.
OpenListen(t) ==
    /\ pc[t] = "listen"
    /\ \/ /\ desc' = Install(desc, listenSocket, Listening)
          /\ Goto(t, "start")
          /\ UNCHANGED <<mutex, listenSocket, peer, backlog>>
       \/ StepsMayFail /\ CloseListenSocket /\ Return(t)
    /\ UNCHANGED <<unread, workerVars, enabled, running, joinable, context,
                   fileNames, srvPc, clientSocket, workers>>

\* The flags are set, then the thread is assigned to serverThread.
OpenStart(t) ==
    /\ pc[t] = "start"
    /\ enabled' = TRUE /\ running' = TRUE
    /\ joinable' = TRUE /\ srvPc' = "loop"
    /\ Return(t)
    /\ UNCHANGED <<desc, peer, unread, workerVars, listenSocket, context,
                   fileNames, clientSocket, workers, backlog>>
-----------------------------------------------------------------------------
(* Server::close and the setters. *)

\* Mutant of Close: the context is disposed before the join.
CloseDisposesFirst(t) ==
    /\ pc[t] = "idle" /\ mutex = NoOne
    /\ enabled
    /\ enabled' = FALSE /\ context' = <<>>
    /\ mutex' = t /\ Goto(t, "join")
    /\ UNCHANGED <<desc, peer, unread, workerVars, running, listenSocket,
                   joinable, fileNames, srvPc, clientSocket, workers, backlog>>

Close(t) ==
    /\ pc[t] = "idle" /\ mutex = NoOne
    /\ enabled
    /\ enabled' = FALSE
    /\ mutex' = t /\ Goto(t, "join")
    /\ UNCHANGED <<desc, peer, unread, workerVars, running, listenSocket,
                   joinable, context, fileNames, srvPc, clientSocket, workers,
                   backlog>>

\* Mutant of CloseJoined: close() does not join the server thread.
CloseUnjoined(t) ==
    /\ pc[t] = "join"
    /\ context' = <<>>
    /\ running' = FALSE
    /\ Return(t)
    /\ UNCHANGED <<desc, peer, unread, workerVars, enabled, listenSocket,
                   joinable, fileNames, srvPc, clientSocket, workers, backlog>>

\* join() returns when the thread has finished; the rest of close().
CloseJoined(t) ==
    /\ pc[t] = "join"
    /\ joinable => srvPc = "finished"
    /\ joinable' = FALSE /\ srvPc' = "none"
    /\ CloseListenSocket
    /\ context' = <<>>
    /\ running' = FALSE
    /\ Return(t)
    /\ UNCHANGED <<unread, workerVars, enabled, fileNames, clientSocket,
                   workers>>

\* Mutant of CheckName: the setters do not ask isOpen().
CheckNothing(t) ==
    /\ t \in Setters
    /\ pc[t] = "idle"
    /\ \E at \in {"setKey", "setCert"} : Goto(t, at)
    /\ UNCHANGED <<desc, peer, unread, workerVars, mutex, enabled, running,
                   listenSocket, joinable, context, fileNames, srvPc,
                   clientSocket, workers, backlog>>

\* The two halves of setKeyFileName and setCertFileName: isOpen() takes and
\* releases the mutex, the assignment is not under it.
CheckName(t) ==
    /\ t \in Setters
    /\ pc[t] = "idle" /\ mutex = NoOne
    /\ ~IsOpen
    /\ \E at \in {"setKey", "setCert"} : Goto(t, at)
    /\ UNCHANGED <<desc, peer, unread, workerVars, mutex, enabled, running,
                   listenSocket, joinable, context, fileNames, srvPc,
                   clientSocket, workers, backlog>>

AssignName(t) ==
    /\ \E n \in Names :
          \/ pc[t] = "setKey" /\ fileNames' = <<n, fileNames[2]>>
          \/ pc[t] = "setCert" /\ fileNames' = <<fileNames[1], n>>
    /\ Goto(t, "idle")
    /\ UNCHANGED <<desc, peer, unread, workerVars, mutex, enabled, running,
                   listenSocket, joinable, context, srvPc, clientSocket,
                   workers, backlog>>
-----------------------------------------------------------------------------
(* Server::run. *)

\* A step of the server thread that only moves its control point.
Move(from, to) ==
    /\ srvPc = from /\ srvPc' = to
    /\ UNCHANGED <<desc, peer, unread, workerVars, pc, mutex, enabled, running,
                   listenSocket, joinable, context, fileNames, clientSocket,
                   workers, backlog>>

CheckEnabled == IF enabled THEN Move("loop", "select") ELSE Move("loop", "stop")

SelectTimeout == Move("select", "loop")
SelectFails == StepsMayFail /\ Move("select", "stop")
SelectReady == backlog # {} /\ Move("select", "ready")

\* enabled is looked at when select() is over, and again after accept().  What
\* follows is another step, so that close() may clear it in between.
StopsBeforeAccept == ~enabled /\ Move("ready", "stop")
GoesToAccept == enabled /\ Move("ready", "accept")

Accept(c) ==
    /\ srvPc = "accept"
    /\ c \in backlog
    /\ backlog' = backlog \ {c}
    /\ clientSocket' \in LowestFree(desc)
    /\ desc' = Install(desc, clientSocket', c)
    /\ srvPc' = "accepted"
    /\ UNCHANGED <<peer, unread, workerVars, pc, mutex, enabled, running,
                   listenSocket, joinable, context, fileNames, workers>>

\* No descriptor left, or accept() reports an error.
AcceptFails ==
    /\ FreeFds(desc) = {} \/ StepsMayFail
    /\ Move("accept", "loop")

\* The break and the continue that forget the accepted descriptor.
Abandon(from, to) ==
    /\ srvPc = from /\ srvPc' = to
    /\ clientSocket' = NoFd
    /\ UNCHANGED <<desc, peer, unread, workerVars, pc, mutex, enabled, running,
                   listenSocket, joinable, context, fileNames, workers, backlog>>

StopsAfterAccept == ~enabled /\ Abandon("accepted", "stop")
GoesToBegin == enabled /\ Move("accepted", "begin")
NonBlockingFails == StepsMayFail /\ Abandon("begin", "loop")

\* The socket is non-blocking and has a TLS session: acceptTls enters its loop.
BeginHandshake == Move("begin", "handshake")

\* SSL_accept succeeds: the connection gets a worker.  acceptTls does not look
\* at enabled, and with a silent peer it retries SSL_ERROR_WANT_READ.
HandshakeDone(c) ==
    /\ srvPc = "handshake" /\ desc[clientSocket] = c
    /\ peer[c] = "greeted"
    /\ StartWorker(c, clientSocket)
    /\ workers' = Append(workers, c)
    /\ clientSocket' = NoFd
    /\ srvPc' = "loop"
    /\ UNCHANGED <<desc, peer, unread, pc, mutex, enabled, running,
                   listenSocket, joinable, context, fileNames, backlog>>

\* Mutant of HandshakeFails: the descriptor is forgotten without being closed.
HandshakeFailsUnclosed(c) ==
    /\ srvPc \in {"begin", "handshake"} /\ desc[clientSocket] = c
    /\ StepsMayFail \/ (srvPc = "handshake" /\ peer[c] \in {"garbage", "gone"})
    /\ clientSocket' = NoFd
    /\ srvPc' = "loop"
    /\ UNCHANGED <<desc, peer, unread, workerVars, pc, mutex, enabled, running,
                   listenSocket, joinable, context, fileNames, workers, backlog>>

\* acceptTls returns no session: SSL_set_fd or SSL_accept failed.
HandshakeFails(c) ==
    /\ srvPc \in {"begin", "handshake"} /\ desc[clientSocket] = c
    /\ StepsMayFail \/ (srvPc = "handshake" /\ peer[c] \in {"garbage", "gone"})
    /\ desc' = Release(desc, clientSocket)
    /\ clientSocket' = NoFd
    /\ srvPc' = "loop"
    /\ UNCHANGED <<peer, unread, workerVars, pc, mutex, enabled, running,
                   listenSocket, joinable, context, fileNames, workers, backlog>>

\* worker->close() for each worker in turn: signal it, wait for it, reap it.
StopWorker ==
    /\ srvPc = "stop" /\ workers # <<>>
    /\ SignalWorker(Head(workers))
    /\ srvPc' = "join"
    /\ UNCHANGED <<peer, unread, pc, mutex, enabled, running, listenSocket,
                   joinable, context, fileNames, clientSocket, workers, backlog>>

JoinWorker ==
    /\ srvPc = "join"
    /\ ReapWorker(Head(workers))
    /\ workers' = Tail(workers)
    /\ srvPc' = "stop"
    /\ UNCHANGED <<peer, unread, pc, mutex, enabled, running, listenSocket,
                   joinable, context, fileNames, clientSocket, backlog>>

FinishRun ==
    /\ srvPc = "stop" /\ workers = <<>>
    /\ CloseListenSocket
    /\ running' = FALSE
    /\ srvPc' = "finished"
    /\ UNCHANGED <<unread, workerVars, pc, mutex, enabled, joinable, context,
                   fileNames, clientSocket, workers>>
-----------------------------------------------------------------------------
(* The peers: TCP connections and the TLS bytes they send. *)

Connect(c) ==
    /\ peer[c] = "away"
    /\ \E f \in Fds : desc[f] = Listening
    /\ Cardinality(backlog) < Backlog
    /\ peer' = [peer EXCEPT ![c] = "silent"]
    /\ backlog' = backlog \cup {c}
    /\ UNCHANGED <<desc, unread, workerVars, pc, mutex, enabled, running,
                   listenSocket, joinable, context, fileNames, srvPc,
                   clientSocket, workers>>

PeerMoves(c, from, to) ==
    /\ peer[c] \in from
    /\ peer' = [peer EXCEPT ![c] = to]
    /\ UNCHANGED <<desc, unread, workerVars, serverVars>>

Greet(c) == PeerMoves(c, {"silent"}, "greeted")
SendGarbage(c) == PeerMoves(c, {"silent"}, "garbage")
Leave(c) == PeerMoves(c, {"silent", "greeted", "garbage"}, "gone")

\* A message on an established session.
Send(c) ==
    /\ peer[c] = "greeted" /\ wPc[c] # "none"
    /\ ~unread[c] /\ Carrier(c) = c
    /\ unread' = [unread EXCEPT ![c] = TRUE]
    /\ UNCHANGED <<desc, peer, workerVars, serverVars>>
-----------------------------------------------------------------------------
InsideCall(t) ==
    \/ OpenContext(t) \/ OpenSocket(t) \/ OpenListen(t) \/ OpenStart(t)
    \/ CloseJoined(t) \/ AssignName(t)

Caller(t) == Open(t) \/ Close(t) \/ CheckName(t) \/ InsideCall(t)

ServerThread ==
    \/ CheckEnabled
    \/ SelectTimeout \/ SelectFails \/ SelectReady
    \/ StopsBeforeAccept \/ GoesToAccept \/ AcceptFails
    \/ StopsAfterAccept \/ GoesToBegin \/ NonBlockingFails \/ BeginHandshake
    \/ StopWorker \/ JoinWorker \/ FinishRun
    \/ \E c \in Conns : Accept(c) \/ HandshakeDone(c) \/ HandshakeFails(c)

Worker(c) == WorkerThread(c) /\ UNCHANGED serverVars

Peer(c) == Connect(c) \/ Greet(c) \/ SendGarbage(c) \/ Leave(c) \/ Send(c)

Next ==
    \/ \E t \in Callers : Caller(t)
    \/ ServerThread
    \/ \E c \in Conns : Worker(c) \/ Peer(c)

Spec == Init /\ [][Next]_vars

\* SSL_accept waits for a peer that has connected and said nothing yet.
SilentHandshake ==
    srvPc = "handshake" /\ \E c \in Conns : desc[clientSocket] = c /\ peer[c] = "silent"

\* The threads of the program are scheduled; peers promise nothing, so that
\* nothing brings the handshake of a silent one to an end.
Fairness ==
    /\ \A t \in Callers : WF_vars(InsideCall(t))
    /\ WF_vars(ServerThread /\ ~SilentHandshake)
    /\ \A c \in Conns : WF_vars(WorkerProgress(c) /\ UNCHANGED serverVars)

LiveSpec == Spec /\ Fairness
-----------------------------------------------------------------------------
(* Properties. *)

\* The type of every variable; server and worker state together.
TypeOK ==
    /\ WorkerTypeOK
    /\ pc \in [Callers -> CallerPcs]
    /\ mutex \in Callers \cup {NoOne}
    /\ enabled \in BOOLEAN /\ running \in BOOLEAN /\ joinable \in BOOLEAN
    /\ listenSocket \in MaybeFd
    /\ context \in {<<>>} \cup (Names \X Names)
    /\ fileNames \in Names \X Names
    /\ srvPc \in ServerPcs
    /\ clientSocket \in MaybeFd
    /\ workers \in Seq(Conns)
    /\ backlog \in SUBSET Conns

\* Assigning a std::thread that is still joinable calls std::terminate: when
\* open() is about to start the thread, the one of the last session is gone.
OneServerThread == \A t \in Callers : pc[t] = "start" => ~joinable /\ srvPc = "none"

\* While run() executes, close() has not yet taken away the context, the
\* listening socket or its number, although it cleared enabled long ago and
\* run() reads them without a lock.
RunOwnsResources ==
    srvPc \notin {"none", "finished"} =>
        /\ context # <<>>
        /\ listenSocket \in Fds /\ desc[listenSocket] = Listening

\* Once the server is disabled and nobody is inside a public method, it is
\* closed as isOpen() says, no thread of it is left and every resource of the
\* workers it started is released: close() returned only after all that.
Quiescent ==
    mutex = NoOne /\ ~enabled =>
        /\ ~IsOpen /\ srvPc = "none" /\ ~joinable
        /\ listenSocket = NoFd /\ \A f \in Fds : desc[f] \notin {Unbound, Listening}
        /\ workers = <<>>
        /\ \A c \in Conns :
              /\ wPc[c] \in {"none", "joined"}
              /\ ~wRunning[c] /\ wSock[c] = NoFd /\ sslFd[c] = NoFd

\* The life of the server as its callers and clients see it.
Life == INSTANCE ServerLife WITH
    life <- IF enabled THEN "open"
            ELSE IF \E t \in Callers : pc[t] = "join" THEN "closing" ELSE "closed",
    served <- {c \in Conns : wPc[c] \in {"read", "reading", "write", "close"}},
    ended <- {c \in Conns : wPc[c] \in {"finished", "joined"}}

\* However calls, threads and connections interleave and whatever fails, the
\* server opens, serves and closes as ServerLife says: close() returns when no
\* connection is served any more, and none is served after that.
LivesAsPromised == Life!Spec

\* A descriptor that carries a connection and that nobody will close any more.
Lost(f) ==
    /\ desc[f] \in Conns /\ clientSocket # f
    /\ \A c \in Conns : wSock[c] # f

\* The only way to lose a connection's descriptor is the break or continue
\* between accept() and the handshake (ServerLinux.cpp:749-762).
LostOnlyWhenAbandoned ==
    [][\A f \in Fds :
          ~Lost(f) /\ Lost(f)' => srvPc \in {"accepted", "begin"} /\ clientSocket = f]_vars

\* A connection's descriptor is closed only by its own worker, by the server
\* thread while it brings that connection into service, or by the server
\* thread when it reaps the worker: never on behalf of another connection.
ReleasedByOwner ==
    [][\A f \in Fds, c \in Conns :
          desc[f] = c /\ desc'[f] # c =>
              \/ wPc[c] = "close" /\ wPc'[c] = "finished"
              \/ srvPc \in {"begin", "handshake"} /\ clientSocket = f
              \/ wPc[c] = "finished" /\ wPc'[c] = "joined"]_vars

\* The names of key and certificate stay those of the context in use: the
\* setters refuse while the server is open.  One thread calls the methods.
NamesFixedWhileOpen == enabled => context = fileNames

\* close() returns, whatever the peers, the workers and select do, with a single
\* exception: run() stays for ever in the handshake of a peer that connected and
\* never says anything (acceptTls does not look at enabled).
CloseReturns ==
    <>[]SilentHandshake \/ \A t \in Callers : pc[t] = "join" ~> pc[t] = "idle"

InClose == \E t \in Callers : pc[t] = "join"

\* The steps of the server thread, and of the workers while it waits for them,
\* that at most remain until run() is at its end; in "join" there is a worker.
StepsOfWorker(c) ==
    CASE wPc[c] = "reading" -> 4 [] wPc[c] = "write" -> 3 [] wPc[c] = "read" -> 2
      [] wPc[c] = "close" -> 1 [] OTHER -> 0
StepsLeft ==
    6 * Len(workers) +
       (CASE srvPc = "begin" -> 10 [] srvPc = "handshake" -> 9
          [] srvPc \in {"accept", "select"} -> 3
          [] srvPc \in {"loop", "ready", "accepted"} -> 2
          [] srvPc = "stop" -> 1
          [] srvPc = "join" -> StepsOfWorker(Head(workers)) - 4
          [] OTHER -> 0)

\* While close() waits, nothing that connects, sends, leaves, calls or works
\* makes its wait longer: the thread that is waited for comes nearer its end with
\* each step.  What had passed its look at enabled before close() cleared it is
\* done once and not again: one accept(), one connection taken into service, and
\* one SSL_read of each worker.
CloseAdvances ==
    [][InClose /\ InClose' =>
          \/ StepsLeft' < StepsLeft
          \/ StepsLeft' = StepsLeft /\ UNCHANGED <<srvPc, workers>>]_vars

\* While close() waits, the handshake of a silent peer is all that can hold it up.
\* Otherwise run() is at a point that it leaves in any case, at accept() with
\* somebody waiting, in a handshake whose peer has spoken or left, or at a worker
\* that has been told to end and has not ended without it.
OnlySilenceStalls ==
    InClose /\ ~SilentHandshake =>
        \/ srvPc \in {"loop", "select", "ready", "accepted", "begin", "finished"}
        \/ srvPc = "accept" /\ backlog # {}
        \/ /\ srvPc = "handshake"
           /\ \E c \in Conns :
                 desc[clientSocket] = c /\ peer[c] \in {"greeted", "garbage", "gone"}
        \/ srvPc = "stop" /\ (workers # <<>> => wEnabled[Head(workers)])
        \/ /\ srvPc = "join" /\ ~wEnabled[Head(workers)]
           /\ wPc[Head(workers)] \in {"read", "reading", "write", "close", "finished"}

\* The descriptor of a served connection whose peer left is released without
\* the server being closed: the worker's last act closes it.
DepartedIsReleased ==
    \A c \in Conns :
        wPc[c] # "none" /\ peer[c] = "gone" ~> \A f \in Fds : desc[f] # c

\* tlsPtr.reset() says goodbye on the connection of that session or on no
\* connection at all: a closed descriptor "no longer refers to any file and
\* may be reused" (ServerLinux.cpp:206).
NotifyStaysHome ==
    [][\A c \in Conns :
          sslFd[c] # NoFd /\ sslFd'[c] = NoFd => Carrier(c) \in {c, Free}]_vars
=============================================================================
