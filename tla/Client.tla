------------------------------- MODULE Client -------------------------------
(* The life of the client on Linux (ClientLinux.cpp): open() in its steps,
   close() and the destructor, without TLS (example-6) or with it (example-8),
   where a session outlives the socket it was bound to.  write and the reads
   change none of this state: EchoSession and WriteLoop model them.  The process
   has other descriptors, those of a server that listens in the same process,
   which another thread opens and closes meanwhile. *)
EXTENDS Descriptors

CONSTANT CloseMayFail       \* whether ::close may report an error

ASSUME ClientAssumption == CloseMayFail \in BOOLEAN

VARIABLES
    tls,            \* whether it is the client with TLS; never changes
    desc,           \* descriptor table of the process
    foreign,        \* descriptors the rest of the process opened and still has
    pc,             \* where open() is; "idle" outside, "gone" after ~Client
    enabled,        \* Client::enabled
    clientSocket,   \* Client::clientSocket
    tlsPtr,         \* Client::tlsPtr: connection and descriptor of its session
    conn,           \* the connection open() established last
    spoiled,        \* connections that carry another session's close_notify
    assigned        \* clientSocket has been given a value

vars == <<tls, desc, foreign, pc, enabled, clientSocket, tlsPtr, conn, spoiled,
          assigned>>

NoSession == [of |-> Free, fd |-> NoFd]
Sessions == [of : Conns \cup {Free}, fd : MaybeFd]

\* The constructor leaves clientSocket uninitialised: it holds any value.
Init ==
    /\ tls \in BOOLEAN
    /\ desc = [f \in Fds |-> Free]
    /\ foreign = {}
    /\ pc = "idle"
    /\ enabled = FALSE
    /\ clientSocket \in MaybeFd
    /\ tlsPtr = NoSession
    /\ conn = Free
    /\ spoiled = {}
    /\ assigned = FALSE

\* Mutant of Closed: the number is kept although the socket is closed.
ClosedKeepsNumber(closed) == clientSocket

\* closeSocket: a number below 0 is no socket, an unused one is an error
\* (EBADF), and after an error the number is kept.
Closed(closed) ==
    IF closed /\ clientSocket # NoFd /\ desc[clientSocket] # Free THEN NoFd
    ELSE clientSocket

CloseSocket ==
    /\ desc' = Release(desc, clientSocket)
    /\ foreign' = foreign \ {clientSocket}
    /\ \E closed \in BOOLEAN :
          /\ closed \/ CloseMayFail
          /\ clientSocket' = Closed(closed)

\* Deleting a session sends its close_notify on the descriptor it was bound to,
\* whatever that is by now in the table.
Goodbye(table) ==
    LET carrier == IF tlsPtr.fd \in Fds THEN table[tlsPtr.fd] ELSE Free IN
    spoiled' = spoiled \cup ({carrier} \cap (Conns \ {tlsPtr.of}))

Fresh(c) == c # conn /\ \A f \in Fds : desc[f] # c
-----------------------------------------------------------------------------
\* open() as far as the TLS context and the address; if these fail, enabled is
\* cleared again and nothing has changed.
Open ==
    /\ pc = "idle" /\ ~enabled
    /\ enabled' = TRUE
    /\ pc' = "socket"
    /\ UNCHANGED <<tls, desc, foreign, clientSocket, tlsPtr, conn, spoiled, assigned>>

CreateSocket ==
    /\ pc = "socket"
    /\ clientSocket' \in LowestFree(desc) /\ assigned' = TRUE
    /\ desc' = Install(desc, clientSocket', Unbound)
    /\ pc' = "connect"
    /\ UNCHANGED <<tls, foreign, enabled, tlsPtr, conn, spoiled>>

CreateSocketFails ==
    /\ pc = "socket"
    /\ clientSocket' = NoFd /\ assigned' = TRUE
    /\ enabled' = FALSE /\ pc' = "idle"
    /\ UNCHANGED <<tls, desc, foreign, tlsPtr, conn, spoiled>>

\* connect() and the non-blocking mode, with which open() ends if there is no TLS.
Connect(c) ==
    /\ pc = "connect" /\ Fresh(c)
    /\ desc' = Install(desc, clientSocket, c)
    /\ conn' = c
    /\ spoiled' = spoiled \ {c}
    /\ pc' = IF tls THEN "tls" ELSE "idle"
    /\ UNCHANGED <<tls, foreign, enabled, clientSocket, tlsPtr, assigned>>

\* Mutants of ConnectFails: enabled stays set; the socket stays open.
ConnectFailsEnabled ==
    /\ pc = "connect"
    /\ CloseSocket
    /\ pc' = "idle"
    /\ UNCHANGED <<tls, enabled, tlsPtr, conn, spoiled, assigned>>
ConnectFailsUnclosed ==
    /\ pc = "connect"
    /\ enabled' = FALSE /\ pc' = "idle"
    /\ UNCHANGED <<tls, desc, foreign, clientSocket, tlsPtr, conn, spoiled, assigned>>

ConnectFails ==
    /\ pc = "connect"
    /\ CloseSocket
    /\ enabled' = FALSE /\ pc' = "idle"
    /\ UNCHANGED <<tls, tlsPtr, conn, spoiled, assigned>>

\* connectTls succeeds: the new session takes the place of the old one, which
\* is deleted after that.
Handshake ==
    /\ pc = "tls"
    /\ Goodbye(desc)
    /\ tlsPtr' = [of |-> conn, fd |-> clientSocket]
    /\ pc' = "idle"
    /\ UNCHANGED <<tls, desc, foreign, enabled, clientSocket, conn, assigned>>

HandshakeFails ==
    /\ pc = "tls"
    /\ Goodbye(desc)
    /\ tlsPtr' = NoSession
    /\ CloseSocket
    /\ enabled' = FALSE /\ pc' = "idle"
    /\ UNCHANGED <<tls, conn, assigned>>

\* close() leaves the session in place.
Close ==
    /\ pc = "idle"
    /\ enabled' = FALSE
    /\ CloseSocket
    /\ UNCHANGED <<tls, pc, tlsPtr, conn, spoiled, assigned>>

\* ~Client(): close(), then the members are destroyed.
Destroy ==
    /\ pc = "idle"
    /\ enabled' = FALSE
    /\ CloseSocket
    /\ Goodbye(desc')
    /\ tlsPtr' = NoSession
    /\ pc' = "gone"
    /\ UNCHANGED <<tls, conn, assigned>>
-----------------------------------------------------------------------------
\* Another thread opens or closes a descriptor of its own.
OtherOpens ==
    /\ \E f \in LowestFree(desc) :
          /\ desc' = Install(desc, f, Listening)
          /\ foreign' = foreign \cup {f}
    /\ UNCHANGED <<tls, pc, enabled, clientSocket, tlsPtr, conn, spoiled, assigned>>

OtherCloses(f) ==
    /\ f \in foreign
    /\ desc' = Release(desc, f)
    /\ foreign' = foreign \ {f}
    /\ UNCHANGED <<tls, pc, enabled, clientSocket, tlsPtr, conn, spoiled, assigned>>

Next ==
    \/ Open \/ CreateSocket \/ CreateSocketFails
    \/ \E c \in Conns : Connect(c)
    \/ ConnectFails
    \/ Handshake \/ HandshakeFails
    \/ Close \/ Destroy
    \/ OtherOpens
    \/ \E f \in Fds : OtherCloses(f)

Spec == Init /\ [][Next]_vars
-----------------------------------------------------------------------------
\* The type of every variable.
TypeOK ==
    /\ tls \in BOOLEAN
    /\ desc \in Tables
    /\ foreign \in SUBSET Fds
    /\ pc \in {"idle", "socket", "connect", "tls", "gone"}
    /\ enabled \in BOOLEAN
    /\ clientSocket \in MaybeFd
    /\ tlsPtr \in Sessions
    /\ conn \in Conns \cup {Free}
    /\ spoiled \in SUBSET Conns
    /\ assigned \in BOOLEAN

\* Once open() has created a socket, no later open(), close() or destruction
\* closes a descriptor of another part of the process, however often they are
\* called and whichever step fails.  (Before, the destructor closes whatever
\* number the uninitialised member holds.)
OthersIntact ==
    [][\A f \in foreign : assigned /\ desc'[f] # desc[f] => OtherCloses(f)]_vars

\* An open client talks over the socket it will close, which nobody has closed
\* meanwhile: its session, if it is one with TLS, is that of its connection.
SessionIsOwn ==
    pc = "idle" /\ enabled =>
        /\ clientSocket \in Fds /\ desc[clientSocket] = conn
        /\ tls => tlsPtr = [of |-> conn, fd |-> clientSocket]

\* A client that is not open holds no descriptor, whichever step of open()
\* failed and also after several of them.
NothingLeaks ==
    pc \in {"idle", "gone"} /\ ~enabled => \A f \in Fds : desc[f] \notin Conns \cup {Unbound}

\* A successful open() leaves a usable connection ("connection established",
\* ClientLinux.cpp:392): no other session has said goodbye on it.
EstablishedIsUsable == pc = "idle" /\ enabled => conn \notin spoiled
=============================================================================
