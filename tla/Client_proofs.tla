---------------------------- MODULE Client_proofs ----------------------------
(* For any number of connections and descriptors: the client neither leaks nor
   confuses sockets, and as long as ::close succeeds it closes no descriptor of
   another part of the process. *)
EXTENDS Client, TLAPS

\* The descriptor ::socket and ::accept return is one that was free.
LEMMA LowestFreeIsFree ==
    ASSUME NEW table, NEW f \in LowestFree(table)
    PROVE  f \in Fds /\ table[f] = Free
  BY DEF LowestFree, FreeFds

\* Closing or installing a descriptor keeps the table well formed.
LEMMA TableTypes ==
    ASSUME NEW table \in Tables, NEW f, NEW file \in Files
    PROVE  Install(table, f, file) \in Tables /\ Release(table, f) \in Tables
  BY DEF Install, Release, Tables, Files

\* A call changes what its number refers to, and nothing else in the table.
LEMMA OnlyThatDescriptor ==
    ASSUME NEW table \in Tables, NEW f, NEW file
    PROVE  \A g \in Fds :
              /\ Install(table, f, file)[g] = IF g = f THEN file ELSE table[g]
              /\ Release(table, f)[g] = IF g = f THEN Free ELSE table[g]
  BY DEF Install, Release, Tables

Own == Conns \cup {Unbound}

\* Where the client has a socket.
Holds == pc \in {"connect", "tls"} \/ (pc = "idle" /\ enabled)

\* Descriptors of the client: only while it holds one, and only the number it
\* will close; descriptors of others are none of these.
SocketInv ==
    /\ pc \in {"socket", "connect", "tls"} => enabled
    /\ Holds => clientSocket \in Fds /\ assigned
    /\ \A f \in Fds : desc[f] \in Own => Holds /\ f = clientSocket
    /\ pc = "connect" => desc[clientSocket] = Unbound
    /\ pc = "tls" => conn \in Conns /\ desc[clientSocket] = conn
    /\ pc = "idle" /\ enabled => conn \in Conns /\ desc[clientSocket] = conn
    /\ pc = "idle" /\ enabled /\ tls => tlsPtr = [of |-> conn, fd |-> clientSocket]
    /\ pc = "tls" => tls
    /\ ~tls => tlsPtr = NoSession
    /\ \A f \in foreign : desc[f] = Listening

\* After the first socket the number kept without a socket is no number.
Forgets == assigned /\ ~Holds => clientSocket = NoFd

\* The kinds of descriptor are told apart.
LEMMA Kinds ==
    /\ Free \notin Own /\ Listening \notin Own /\ Free # Listening
    /\ Unbound \notin Conns /\ Free \in Files /\ Listening \in Files
    /\ Unbound \in Files /\ Conns \subseteq Files /\ NoFd \notin Fds
BY DescriptorsAssumption DEF Own, Files, NoFd, Fds
-----------------------------------------------------------------------------
\* closeSocket frees the number in clientSocket and no other.
LEMMA CloseSocketTypes ==
    ASSUME TypeOK, CloseSocket
    PROVE  /\ desc' \in Tables /\ foreign' \in SUBSET Fds /\ clientSocket' \in MaybeFd
           /\ clientSocket \notin foreign'
           /\ foreign' \subseteq foreign
           /\ \A f \in Fds : desc'[f] = IF f = clientSocket THEN Free ELSE desc[f]
<1>1. desc' \in Tables
      BY TableTypes, Kinds DEF TypeOK, CloseSocket
<1>2. clientSocket' \in MaybeFd
      BY DEF TypeOK, CloseSocket, Closed, MaybeFd
<1>3. \A f \in Fds : desc'[f] = IF f = clientSocket THEN Free ELSE desc[f]
      BY DEF TypeOK, CloseSocket, Release, Tables
<1> QED
    BY <1>1, <1>2, <1>3 DEF TypeOK, CloseSocket

\* Every step of the client and of the other thread keeps the types.
LEMMA TypeStep == TypeOK /\ [Next]_vars => TypeOK'
<1> SUFFICES ASSUME TypeOK, [Next]_vars PROVE TypeOK'
    OBVIOUS
<1> USE Kinds DEF TypeOK
<1>1. CASE Open
      BY <1>1 DEF Open
<1>2. CASE CreateSocket
  <2>1. clientSocket' \in Fds
        BY <1>2, LowestFreeIsFree DEF CreateSocket
  <2>2. desc' \in Tables
        BY <1>2, TableTypes DEF CreateSocket
  <2> QED
      BY <1>2, <2>1, <2>2 DEF CreateSocket, MaybeFd
<1>3. CASE CreateSocketFails
      BY <1>3 DEF CreateSocketFails, MaybeFd
<1>4. ASSUME NEW c \in Conns, Connect(c) PROVE TypeOK'
  <2>1. desc' \in Tables
        BY <1>4, TableTypes DEF Connect
  <2> QED
      BY <1>4, <2>1 DEF Connect
<1>5. CASE ConnectFails
      BY <1>5, CloseSocketTypes DEF ConnectFails
<1>6. CASE Handshake
      BY <1>6 DEF Handshake, Goodbye, Sessions
<1>7. CASE HandshakeFails
      BY <1>7, CloseSocketTypes
      DEF HandshakeFails, Goodbye, NoSession, Sessions, MaybeFd
<1>8. CASE Close
      BY <1>8, CloseSocketTypes DEF Close
<1>9. CASE Destroy
      BY <1>9, CloseSocketTypes DEF Destroy, Goodbye, NoSession, Sessions, MaybeFd
<1>10. CASE OtherOpens
  <2>1. PICK f \in LowestFree(desc) :
              desc' = Install(desc, f, Listening) /\ foreign' = foreign \cup {f}
        BY <1>10 DEF OtherOpens
  <2>2. f \in Fds /\ desc[f] = Free
        BY LowestFreeIsFree
  <2>3. desc' \in Tables
        BY <2>1, TableTypes
  <2> QED
      BY <1>10, <2>1, <2>2, <2>3 DEF OtherOpens
<1>11. ASSUME NEW f \in Fds, OtherCloses(f) PROVE TypeOK'
  <2>1. desc' \in Tables
        BY <1>11, TableTypes DEF OtherCloses
  <2> QED
      BY <1>11, <2>1 DEF OtherCloses
<1>12. CASE UNCHANGED vars
      BY <1>12 DEF vars
<1> QED
    BY <1>1, <1>2, <1>3, <1>4, <1>5, <1>6, <1>7, <1>8, <1>9, <1>10, <1>11, <1>12
    DEF Next

\* The types hold of a new client, whatever its uninitialised number is.
LEMMA TypeInit == Init => TypeOK
<1> SUFFICES ASSUME Init PROVE TypeOK
    OBVIOUS
<1>1. desc \in Tables /\ clientSocket \in MaybeFd /\ tlsPtr \in Sessions
      BY Kinds DEF Init, Tables, MaybeFd, NoSession, Sessions
<1>2. enabled \in BOOLEAN /\ assigned \in BOOLEAN /\ tls \in BOOLEAN
      BY DEF Init
<1> QED
    BY <1>1, <1>2 DEF Init, TypeOK

\* Every variable of the client keeps its type.
THEOREM ClientTypes == Spec => []TypeOK
BY TypeInit, TypeStep, PTL DEF Spec
-----------------------------------------------------------------------------
\* A new client has no descriptor.
LEMMA SocketInit == Init => SocketInv
BY Kinds DEF Init, SocketInv, Holds, Own

\* Every step keeps the descriptor where open, the open client or nobody has it.
LEMMA SocketStep == TypeOK /\ SocketInv /\ [Next]_vars => SocketInv'
<1> SUFFICES ASSUME TypeOK, SocketInv, [Next]_vars PROVE SocketInv'
    OBVIOUS
<1> USE Kinds DEF TypeOK, SocketInv, Holds
<1>1. CASE Open
      BY <1>1 DEF Open
<1>2. CASE CreateSocket
  <2>1. clientSocket' \in Fds /\ desc[clientSocket'] = Free
        BY <1>2, LowestFreeIsFree DEF CreateSocket
  <2>2. \A f \in Fds : desc'[f] = IF f = clientSocket' THEN Unbound ELSE desc[f]
        BY <1>2, OnlyThatDescriptor DEF CreateSocket
  <2> QED
      BY <1>2, <2>1, <2>2 DEF CreateSocket, Own
<1>3. CASE CreateSocketFails
      BY <1>3 DEF CreateSocketFails
<1>4. ASSUME NEW c \in Conns, Connect(c) PROVE SocketInv'
  <2>1. \A f \in Fds : desc'[f] = IF f = clientSocket THEN c ELSE desc[f]
        BY <1>4, OnlyThatDescriptor DEF Connect
  <2> QED
      BY <1>4, <2>1 DEF Connect, Own
<1>5. CASE ConnectFails
      BY <1>5, CloseSocketTypes DEF ConnectFails
<1>6. CASE Handshake
      BY <1>6 DEF Handshake
<1>7. CASE HandshakeFails
      BY <1>7, CloseSocketTypes DEF HandshakeFails
<1>8. CASE Close
      BY <1>8, CloseSocketTypes DEF Close
<1>9. CASE Destroy
      BY <1>9, CloseSocketTypes DEF Destroy
<1>10. CASE OtherOpens
  <2>1. PICK f \in LowestFree(desc) :
              desc' = Install(desc, f, Listening) /\ foreign' = foreign \cup {f}
        BY <1>10 DEF OtherOpens
  <2>2. f \in Fds /\ desc[f] = Free
        BY LowestFreeIsFree
  <2>3. \A g \in Fds : desc'[g] = IF g = f THEN Listening ELSE desc[g]
        BY <2>1, OnlyThatDescriptor
  <2> QED
      BY <1>10, <2>1, <2>2, <2>3 DEF OtherOpens, Own
<1>11. ASSUME NEW f \in Fds, OtherCloses(f) PROVE SocketInv'
  <2>1. \A g \in Fds : desc'[g] = IF g = f THEN Free ELSE desc[g]
        BY <1>11, OnlyThatDescriptor DEF OtherCloses
  <2> QED
      BY <1>11, <2>1 DEF OtherCloses, Own
<1>12. CASE UNCHANGED vars
      BY <1>12 DEF vars
<1> QED
    BY <1>1, <1>2, <1>3, <1>4, <1>5, <1>6, <1>7, <1>8, <1>9, <1>10, <1>11, <1>12
    DEF Next

\* Types and the place of every socket hold at all times.
THEOREM SocketAlways == Spec => [](TypeOK /\ SocketInv)
BY TypeInit, TypeStep, SocketInit, SocketStep, PTL DEF Spec

\* An open client talks over the socket it will close, even if ::close reports
\* errors (ClientLinux.cpp, open and close).
THEOREM OpenOnOwnSocket == Spec => []SessionIsOwn
<1>1. TypeOK /\ SocketInv => SessionIsOwn
      BY DEF SocketInv, SessionIsOwn, Holds
<1> QED
    BY <1>1, SocketAlways, PTL

\* Whichever step of open() failed, a client that is not open holds no socket.
THEOREM NoSocketLeft == Spec => []NothingLeaks
<1>1. TypeOK /\ SocketInv => NothingLeaks
      BY DEF SocketInv, NothingLeaks, Holds, Own
<1> QED
    BY <1>1, SocketAlways, PTL
-----------------------------------------------------------------------------
\* If ::close succeeds, a client without a socket remembers no number.
LEMMA ForgetsStep ==
    ASSUME ~CloseMayFail
    PROVE  TypeOK /\ SocketInv /\ Forgets /\ [Next]_vars => Forgets'
<1> SUFFICES ASSUME TypeOK, SocketInv, Forgets, [Next]_vars PROVE Forgets'
    OBVIOUS
<1> USE Kinds DEF TypeOK, SocketInv, Forgets, Holds
<1>1. ASSUME CloseSocket, assigned PROVE clientSocket' = NoFd
  <2>1. CASE Holds
        BY <1>1, <2>1 DEF CloseSocket, Closed, Own
  <2>2. CASE ~Holds
        BY <1>1, <2>2 DEF CloseSocket, Closed
  <2> QED
      BY <2>1, <2>2
<1>2. CASE ConnectFails \/ HandshakeFails \/ Close \/ Destroy
      BY <1>1, <1>2 DEF ConnectFails, HandshakeFails, Close, Destroy
<1>3. CASE Open \/ CreateSocket \/ CreateSocketFails \/ Handshake \/ OtherOpens
      BY <1>3 DEF Open, CreateSocket, CreateSocketFails, Handshake, OtherOpens
<1>4. ASSUME NEW c \in Conns, Connect(c) PROVE Forgets'
      BY <1>4 DEF Connect
<1>5. ASSUME NEW f \in Fds, OtherCloses(f) PROVE Forgets'
      BY <1>5 DEF OtherCloses
<1>6. CASE UNCHANGED vars
      BY <1>6 DEF vars
<1> QED
    BY <1>2, <1>3, <1>4, <1>5, <1>6 DEF Next

\* From its first socket on the client closes nothing of another part of the
\* process, provided that ::close succeeds (ClientLinux.cpp, closeSocket).
THEOREM OthersKeepTheirs ==
    ASSUME ~CloseMayFail
    PROVE  Spec => OthersIntact
<1> DEFINE Touched(f) == assigned /\ desc'[f] # desc[f]
<1>1. ASSUME TypeOK, SocketInv, Forgets, Next, NEW f \in foreign, Touched(f)
      PROVE  OtherCloses(f)
  <2> USE <1>1, Kinds DEF TypeOK, SocketInv, Holds
  <2>1. f \in Fds /\ desc[f] = Listening
        OBVIOUS
  <2>2. ~CloseSocket
        BY <2>1, CloseSocketTypes DEF Forgets, Own
  <2>3. ~CreateSocket /\ ~OtherOpens
    <3>1. f \notin LowestFree(desc)
          BY <2>1, LowestFreeIsFree
    <3>2. \A g \in LowestFree(desc) : \A file : Install(desc, g, file)[f] = desc[f]
          BY <2>1, <3>1, OnlyThatDescriptor
    <3> QED
        BY <2>1, <3>1, <3>2 DEF CreateSocket, OtherOpens
  <2>4. ASSUME NEW c \in Conns, Connect(c) PROVE FALSE
        BY <2>1, <2>4, OnlyThatDescriptor DEF Connect, Own
  <2>5. ASSUME NEW g \in Fds, OtherCloses(g) PROVE g = f
        BY <2>1, <2>5, OnlyThatDescriptor DEF OtherCloses
  <2>6. ~Open /\ ~CreateSocketFails /\ ~Handshake
        BY DEF Open, CreateSocketFails, Handshake
  <2> QED
      BY <2>2, <2>3, <2>4, <2>5, <2>6 DEF Next, ConnectFails, HandshakeFails, Close, Destroy
<1>2. TypeOK /\ SocketInv /\ Forgets /\ [Next]_vars
      => [\A f \in foreign : Touched(f) => OtherCloses(f)]_vars
      BY <1>1
<1>3. Init => Forgets
      BY DEF Init, Forgets
<1> QED
    BY <1>2, <1>3, ForgetsStep, SocketAlways, PTL DEF Spec, OthersIntact
=============================================================================
