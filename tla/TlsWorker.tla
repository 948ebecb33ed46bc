----------------------------- MODULE TlsWorker -----------------------------
(* The worker of one accepted connection (example-8, WorkerLinux.cpp): its own
   thread echoes what the peer sends until the peer leaves or the server stops
   it.  All variables are indexed by connection.  The server module adds the
   thread that creates and stops the workers. *)
EXTENDS Descriptors

CONSTANT CloseMayFail       \* whether ::close may report an error

ASSUME WorkerAssumption == CloseMayFail \in BOOLEAN

VARIABLES
    desc,       \* descriptor table of the process
    peer,       \* what the other end of a connection has done so far
    unread,     \* whether data of the peer waits in the socket
    wPc,        \* control point of Worker::run ("none": no thread yet)
    wEnabled,   \* Worker::enabled
    wRunning,   \* Worker::running
    wSock,      \* Worker::clientSocket
    sslFd       \* descriptor number inside Worker::tlsPtr, NoFd once reset

workerVars == <<wPc, wEnabled, wRunning, wSock, sslFd>>

Peers == {"away", "silent", "greeted", "garbage", "gone"}
WorkerPcs == {"none", "read", "reading", "write", "close", "finished", "joined"}

WorkerTypeOK ==
    /\ desc \in Tables
    /\ peer \in [Conns -> Peers]
    /\ unread \in [Conns -> BOOLEAN]
    /\ wPc \in [Conns -> WorkerPcs]
    /\ wEnabled \in [Conns -> BOOLEAN]
    /\ wRunning \in [Conns -> BOOLEAN]
    /\ wSock \in [Conns -> MaybeFd]
    /\ sslFd \in [Conns -> MaybeFd]

WorkerInit ==
    /\ desc = [f \in Fds |-> Free]
    /\ peer = [c \in Conns |-> "away"]
    /\ unread = [c \in Conns |-> FALSE]
    /\ wPc = [c \in Conns |-> "none"]
    /\ wEnabled = [c \in Conns |-> FALSE]
    /\ wRunning = [c \in Conns |-> FALSE]
    /\ wSock = [c \in Conns |-> NoFd]
    /\ sslFd = [c \in Conns |-> NoFd]

\* What the TLS session of c really reads from and writes to.
Carrier(c) == IF sslFd[c] \in Fds THEN desc[sslFd[c]] ELSE Free

\* What ::close(f) may return: -1 (EBADF) for an unused number.
CloseResults(f) ==
    {ok \in BOOLEAN : /\ ok => f = NoFd \/ desc[f] # Free
                      /\ ~ok => f # NoFd /\ (CloseMayFail \/ desc[f] = Free)}
-----------------------------------------------------------------------------
(* Calls the server thread makes. *)

\* Worker::Worker and Worker::start; the socket is valid, so start() succeeds.
StartWorker(c, f) ==
    /\ wSock' = [wSock EXCEPT ![c] = f]
    /\ sslFd' = [sslFd EXCEPT ![c] = f]
    /\ wEnabled' = [wEnabled EXCEPT ![c] = TRUE]
    /\ wRunning' = [wRunning EXCEPT ![c] = TRUE]
    /\ wPc' = [wPc EXCEPT ![c] = "read"]

\* Mutant of SignalWorker: close() does not clear the flag.
SignalNothing(c) ==
    /\ wEnabled[c]
    /\ UNCHANGED <<desc, wPc, wEnabled, wRunning, wSock, sslFd>>

\* Worker::close up to the join: the flag the thread polls is cleared.
SignalWorker(c) ==
    /\ wEnabled[c]
    /\ wEnabled' = [wEnabled EXCEPT ![c] = FALSE]
    /\ UNCHANGED <<desc, wPc, wRunning, wSock, sslFd>>

\* Mutant of ReapWorker: it closes the number the session remembers.
ReapWorkerBySession(c) ==
    /\ wPc[c] = "finished"
    /\ wPc' = [wPc EXCEPT ![c] = "joined"]
    /\ sslFd' = [sslFd EXCEPT ![c] = NoFd]
    /\ desc' = Release(desc, sslFd[c])
    /\ wSock' = [wSock EXCEPT ![c] = NoFd]
    /\ wRunning' = [wRunning EXCEPT ![c] = FALSE]
    /\ UNCHANGED wEnabled

\* Worker::close after the join: tlsPtr.reset() sends close_notify on Carrier(c)
\* and frees the session, then the descriptor is closed unless run() did it.
ReapWorker(c) ==
    /\ wPc[c] = "finished"
    /\ wPc' = [wPc EXCEPT ![c] = "joined"]
    /\ sslFd' = [sslFd EXCEPT ![c] = NoFd]
    /\ desc' = Release(desc, wSock[c])
    /\ wSock' = [wSock EXCEPT ![c] = NoFd]
    /\ wRunning' = [wRunning EXCEPT ![c] = FALSE]
    /\ UNCHANGED wEnabled
-----------------------------------------------------------------------------
(* The worker thread. *)

\* Mutant of WorkerChecks: readString does not look at enabled.
WorkerChecksNothing(c) ==
    /\ wPc[c] = "read"
    /\ wPc' = [wPc EXCEPT ![c] = "reading"]
    /\ UNCHANGED <<desc, peer, unread, wEnabled, wRunning, wSock, sslFd>>

\* The loops of run() and readString look at enabled.  SSL_read is another step:
\* close() may clear enabled before it, and the stopped worker still reads.
WorkerChecks(c) ==
    /\ wPc[c] = "read"
    /\ wPc' = [wPc EXCEPT ![c] = IF wEnabled[c] THEN "reading" ELSE "close"]
    /\ UNCHANGED <<desc, peer, unread, wEnabled, wRunning, wSock, sslFd>>

\* SSL_read returns a message.
WorkerRead(c) ==
    /\ wPc[c] = "reading"
    /\ Carrier(c) = c /\ unread[c]
    /\ unread' = [unread EXCEPT ![c] = FALSE]
    /\ wPc' = [wPc EXCEPT ![c] = "write"]
    /\ UNCHANGED <<desc, peer, wEnabled, wRunning, wSock, sslFd>>

\* Mutant of WorkerReadEnds: end of file is retried like SSL_WANT_READ.
WorkerReadRetriesEof(c) ==
    /\ wPc[c] = "reading" /\ Carrier(c) = c /\ peer[c] = "gone" /\ ~unread[c]
    /\ wPc' = [wPc EXCEPT ![c] = "read"]
    /\ UNCHANGED <<desc, peer, unread, wEnabled, wRunning, wSock, sslFd>>

\* Nothing to read: SSL_WANT_READ takes the thread back to its check.
WorkerReadWaits(c) ==
    /\ wPc[c] = "reading"
    /\ Carrier(c) = c /\ peer[c] # "gone" /\ ~unread[c]
    /\ wPc' = [wPc EXCEPT ![c] = "read"]
    /\ UNCHANGED <<desc, peer, unread, wEnabled, wRunning, wSock, sslFd>>

\* SSL_read fails: the peer left, or the descriptor no longer carries this
\* session (what arrived there is lost).
WorkerReadEnds(c) ==
    /\ wPc[c] = "reading"
    /\ \/ Carrier(c) = c /\ peer[c] = "gone" /\ ~unread[c] /\ UNCHANGED unread
       \/ Carrier(c) # c /\ unread' = [d \in Conns |-> unread[d] /\ d # Carrier(c)]
    /\ wPc' = [wPc EXCEPT ![c] = "close"]
    /\ UNCHANGED <<desc, peer, wEnabled, wRunning, wSock, sslFd>>

\* writeTls returns, whatever its result: run() only reports a failure and
\* reads again.
WriteReturns(c) ==
    /\ wPc[c] = "write"
    /\ wPc' = [wPc EXCEPT ![c] = "read"]
    /\ UNCHANGED <<desc, peer, unread, wEnabled, wRunning, wSock, sslFd>>

\* SSL_write took everything; a peer that does not read can delay this forever.
WorkerWrite(c) == WriteReturns(c)

\* Mutant of WorkerWriteEnds: the loop of writeTls does not look at enabled.
WorkerWriteInsists(c) ==
    /\ peer[c] = "gone" \/ Carrier(c) # c
    /\ WriteReturns(c)

\* The loop of writeTls ends early: stopped, or the connection is broken.
WorkerWriteEnds(c) ==
    /\ ~wEnabled[c] \/ peer[c] = "gone" \/ Carrier(c) # c
    /\ WriteReturns(c)

\* Mutant of WorkerCloses: clientSocket keeps the closed number.
WorkerClosesKeepsNumber(c) ==
    /\ wPc[c] = "close"
    /\ desc' = Release(desc, wSock[c])
    /\ wRunning' = [wRunning EXCEPT ![c] = FALSE]
    /\ wPc' = [wPc EXCEPT ![c] = "finished"]
    /\ UNCHANGED <<peer, unread, wEnabled, wSock, sslFd>>

\* The end of run(): the socket is closed and forgotten if ::close succeeds.
WorkerCloses(c) ==
    /\ wPc[c] = "close"
    /\ desc' = Release(desc, wSock[c])
    /\ \E ok \in CloseResults(wSock[c]) :
          wSock' = [wSock EXCEPT ![c] = IF ok THEN NoFd ELSE @]
    /\ wRunning' = [wRunning EXCEPT ![c] = FALSE]
    /\ wPc' = [wPc EXCEPT ![c] = "finished"]
    /\ UNCHANGED <<peer, unread, wEnabled, sslFd>>

\* The steps the scheduler and the peer cannot withhold from the thread ...
WorkerProgress(c) ==
    \/ WorkerChecks(c)
    \/ WorkerRead(c) \/ WorkerReadWaits(c) \/ WorkerReadEnds(c)
    \/ WorkerWriteEnds(c)
    \/ WorkerCloses(c)

\* ... and the one a peer can.
WorkerThread(c) == WorkerProgress(c) \/ WorkerWrite(c)
-----------------------------------------------------------------------------
(* A session that is being served uses the descriptor its connection was
   accepted on, and nobody has closed or reused that number meanwhile
   (readStringTls and writeTls hold no lock while they use it). *)
OwnDescriptor ==
    \A c \in Conns : wPc[c] \in {"read", "reading", "write", "close"} => Carrier(c) = c
=============================================================================
