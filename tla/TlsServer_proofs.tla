-------------------------- MODULE TlsServer_proofs --------------------------
(* Machine-checked facts about TlsServer, for every number of callers,
   connections and descriptors, with and without failing calls. *)
EXTENDS TlsServer, TLAPS

\* The descriptor ::socket and ::accept return is one that was free.
LEMMA LowestFreeIsFree ==
    ASSUME NEW table, NEW f \in LowestFree(table)
    PROVE  f \in Fds /\ table[f] = Free
  BY DEF LowestFree, FreeFds

\* Closing or installing a descriptor keeps the table well formed.
LEMMA TableTypes ==
    ASSUME NEW table \in Tables, NEW f, NEW file \in Files
    PROVE  Install(table, f, file) \in Tables /\ Release(table, f) \in Tables
  BY DEF Install, Release, Tables, Files

\* A call changes what its number refers to, and nothing else in the table.
LEMMA OnlyThatDescriptor ==
    ASSUME NEW table \in Tables, NEW f, NEW file
    PROVE  \A g \in Fds :
              /\ Install(table, f, file)[g] = IF g = f THEN file ELSE table[g]
              /\ Release(table, f)[g] = IF g = f THEN Free ELSE table[g]
  BY DEF Install, Release, Tables

\* Closing the listening socket, which resets the backlog, keeps the types.
LEMMA CloseListenSocketTypes ==
    ASSUME TypeOK, CloseListenSocket
    PROVE  /\ desc' \in Tables /\ peer' \in [Conns -> Peers]
           /\ listenSocket' \in MaybeFd /\ backlog' \in SUBSET Conns
<1>1. desc' \in Tables
  BY TableTypes DEF CloseListenSocket, TypeOK, WorkerTypeOK, Files
<1>2. peer' \in [Conns -> Peers]
  BY DEF CloseListenSocket, TypeOK, WorkerTypeOK, Peers
<1> QED
  BY <1>1, <1>2 DEF CloseListenSocket, TypeOK, MaybeFd
-----------------------------------------------------------------------------
\* run() waits for a worker only while its vector still holds that worker.
WaitsForAWorker == srvPc = "join" => workers # <<>>

\* run waits for a worker only while the vector holds it.
LEMMA WaitsForAWorkerStep ==
    TypeOK /\ WaitsForAWorker /\ [Next]_vars => WaitsForAWorker'
<1> SUFFICES ASSUME TypeOK, WaitsForAWorker, [Next]_vars PROVE WaitsForAWorker'
  OBVIOUS
<1> USE DEF WaitsForAWorker
<1>1. ASSUME NEW t \in Callers, Caller(t) PROVE WaitsForAWorker'
  BY <1>1
  DEF Caller, InsideCall, Open, Close, CheckName, OpenContext, OpenSocket,
      OpenListen, OpenStart, CloseJoined, AssignName
<1>2. ASSUME ServerThread PROVE WaitsForAWorker'
  BY <1>2
  DEF ServerThread, Move, Abandon, CheckEnabled, SelectTimeout, SelectFails,
      SelectReady, StopsBeforeAccept, AcceptFails, StopsAfterAccept,
      NonBlockingFails, BeginHandshake, GoesToAccept, GoesToBegin, Accept, HandshakeDone, HandshakeFails,
      StopWorker, JoinWorker, FinishRun
<1>3. ASSUME NEW c \in Conns, Worker(c) \/ Peer(c) PROVE WaitsForAWorker'
  BY <1>3
  DEF Worker, serverVars, Peer, Connect, Greet, SendGarbage, Leave, PeerMoves,
      Send
<1>4. CASE UNCHANGED vars
  BY <1>4 DEF vars, serverVars
<1> QED
  BY <1>1, <1>2, <1>3, <1>4 DEF Next
-----------------------------------------------------------------------------
\* Every step of the next-state relation keeps every variable in its type.
LEMMA TypeStep == TypeOK /\ WaitsForAWorker /\ [Next]_vars => TypeOK'
<1> SUFFICES ASSUME TypeOK, WaitsForAWorker, [Next]_vars PROVE TypeOK'
  OBVIOUS
<1> USE DEF TypeOK, WorkerTypeOK
<1>1. ASSUME NEW t \in Callers, Caller(t) PROVE TypeOK'
  <2> USE DEF Goto, Return, CallerPcs, Inside, InOpen, ServerPcs, workerVars
  <2>1. CASE Open(t) \/ Close(t) \/ CheckName(t)
    BY <2>1 DEF Open, Close, CheckName
  <2>2. CASE OpenContext(t)
    BY <2>2 DEF OpenContext
  <2>3. CASE OpenSocket(t)
    <3>1. desc' \in Tables /\ listenSocket' \in MaybeFd
      BY <2>3, LowestFreeIsFree, TableTypes DEF OpenSocket, Files, MaybeFd
    <3> QED
      BY <2>3, <3>1 DEF OpenSocket
  <2>4. CASE OpenListen(t)
    <3>1. /\ desc' \in Tables /\ peer' \in [Conns -> Peers]
          /\ listenSocket' \in MaybeFd /\ backlog' \in SUBSET Conns
      BY <2>4, CloseListenSocketTypes, TableTypes DEF OpenListen, Files
    <3> QED
      BY <2>4, <3>1 DEF OpenListen
  <2>5. CASE OpenStart(t)
    BY <2>5 DEF OpenStart
  <2>6. CASE CloseJoined(t)
    <3>1. /\ desc' \in Tables /\ peer' \in [Conns -> Peers]
          /\ listenSocket' \in MaybeFd /\ backlog' \in SUBSET Conns
      BY <2>6, CloseListenSocketTypes DEF CloseJoined
    <3> QED
      BY <2>6, <3>1 DEF CloseJoined
  <2>7. CASE AssignName(t)
    BY <2>7 DEF AssignName
  <2> QED
    BY <1>1, <2>1, <2>2, <2>3, <2>4, <2>5, <2>6, <2>7 DEF Caller, InsideCall
<1>2. ASSUME ServerThread PROVE TypeOK'
  <2> USE DEF ServerPcs, workerVars
  <2>1. ASSUME NEW from, NEW to \in ServerPcs, Move(from, to) \/ Abandon(from, to)
        PROVE  TypeOK'
    BY <2>1 DEF Move, Abandon, MaybeFd
  <2>2. CASE \/ CheckEnabled \/ SelectTimeout \/ SelectFails \/ SelectReady
             \/ StopsBeforeAccept \/ AcceptFails \/ StopsAfterAccept
             \/ NonBlockingFails \/ GoesToAccept \/ GoesToBegin \/ BeginHandshake
    BY <2>1, <2>2
    DEF CheckEnabled, SelectTimeout, SelectFails, SelectReady,
        StopsBeforeAccept, AcceptFails, StopsAfterAccept, NonBlockingFails,
        BeginHandshake, GoesToAccept, GoesToBegin
  <2>3. ASSUME NEW c \in Conns, Accept(c) PROVE TypeOK'
    <3>1. desc' \in Tables /\ clientSocket' \in MaybeFd
      BY <2>3, LowestFreeIsFree, TableTypes DEF Accept, Files, MaybeFd
    <3> QED
      BY <2>3, <3>1 DEF Accept
  <2>4. ASSUME NEW c \in Conns, HandshakeDone(c) PROVE TypeOK'
    BY <2>4 DEF HandshakeDone, StartWorker, WorkerPcs, MaybeFd
  <2>5. ASSUME NEW c \in Conns, HandshakeFails(c) PROVE TypeOK'
    <3>1. desc' \in Tables
      BY <2>5, TableTypes DEF HandshakeFails, Files
    <3> QED
      BY <2>5, <3>1 DEF HandshakeFails, MaybeFd
  <2>6. CASE StopWorker
    BY <2>6 DEF StopWorker, SignalWorker
  <2>7. CASE JoinWorker
    <3>1. desc' \in Tables
      BY <2>7, TableTypes DEF JoinWorker, ReapWorker, Files
    <3>2. workers' \in Seq(Conns)
      BY <2>7 DEF JoinWorker, WaitsForAWorker
    <3> QED
      BY <2>7, <3>1, <3>2 DEF JoinWorker, ReapWorker, WorkerPcs, MaybeFd
  <2>8. CASE FinishRun
    BY <2>8, CloseListenSocketTypes DEF FinishRun
  <2> QED
    BY <1>2, <2>2, <2>3, <2>4, <2>5, <2>6, <2>7, <2>8 DEF ServerThread
<1>3. ASSUME NEW c \in Conns, Worker(c) PROVE TypeOK'
  <2> USE DEF serverVars, WorkerPcs
  <2>1. CASE (WorkerChecks(c) \/ WorkerRead(c)) /\ UNCHANGED serverVars
    BY <2>1 DEF WorkerChecks, WorkerRead
  <2>2. CASE (WorkerReadWaits(c) \/ WorkerReadEnds(c)) /\ UNCHANGED serverVars
    BY <2>2 DEF WorkerReadWaits, WorkerReadEnds
  <2>3. CASE WriteReturns(c) /\ UNCHANGED serverVars
    BY <2>3 DEF WriteReturns
  <2>4. CASE WorkerCloses(c) /\ UNCHANGED serverVars
    <3>1. desc' \in Tables
      BY <2>4, TableTypes DEF WorkerCloses, Files
    <3> QED
      BY <2>4, <3>1 DEF WorkerCloses, MaybeFd
  <2> QED
    BY <1>3, <2>1, <2>2, <2>3, <2>4
    DEF Worker, WorkerThread, WorkerProgress, WorkerWrite, WorkerWriteEnds
<1>4. ASSUME NEW c \in Conns, Peer(c) PROVE TypeOK'
  <2> USE DEF Peers, serverVars, workerVars
  <2>1. ASSUME NEW from, NEW to \in Peers, PeerMoves(c, from, to) PROVE TypeOK'
    BY <2>1 DEF PeerMoves
  <2>2. CASE Connect(c)
    BY <2>2 DEF Connect
  <2>3. CASE Send(c)
    BY <2>3 DEF Send
  <2> QED
    BY <1>4, <2>1, <2>2, <2>3 DEF Peer, Greet, SendGarbage, Leave
<1>5. CASE UNCHANGED vars
  BY <1>5 DEF vars, workerVars, serverVars
<1> QED
  BY <1>1, <1>2, <1>3, <1>4, <1>5 DEF Next

\* The types hold of a server that was never opened.
LEMMA TypeInit == Init => TypeOK /\ WaitsForAWorker
<1> SUFFICES ASSUME Init PROVE TypeOK /\ WaitsForAWorker
  OBVIOUS
<1>1. WorkerTypeOK
  BY DEF Init, WorkerInit, WorkerTypeOK, Tables, Files, MaybeFd, Peers, WorkerPcs
<1>2. workers \in Seq(Conns)
  BY DEF Init
<1> QED
  BY <1>1, <1>2
  DEF Init, TypeOK, MaybeFd, CallerPcs, ServerPcs, WaitsForAWorker

\* The variables of server and workers keep their types in every behaviour.
THEOREM TypeCorrect == Spec => []TypeOK
  BY TypeInit, TypeStep, WaitsForAWorkerStep, PTL DEF Spec
-----------------------------------------------------------------------------
(* The life of the server thread.  OneServerThread is not inductive: that the
   caller at "start" finds no thread follows from who holds the mutex, and from
   enabled and joinable changing together whenever nobody holds it. *)
ThreadInv ==
    /\ \A t \in Callers : pc[t] \in Inside <=> mutex = t
    /\ \A t \in Callers : pc[t] \in InOpen => ~enabled /\ ~joinable
    /\ \A t \in Callers : pc[t] = "join" => ~enabled /\ joinable
    /\ mutex = NoOne => (enabled <=> joinable)
    /\ joinable <=> srvPc # "none"

\* Every step keeps callers, mutex, enabled and the thread in agreement.
LEMMA ThreadStep == TypeOK /\ ThreadInv /\ [Next]_vars => ThreadInv'
<1> SUFFICES ASSUME TypeOK, ThreadInv, [Next]_vars PROVE ThreadInv'
  OBVIOUS
<1> USE ServerAssumption DEF ThreadInv, Inside, InOpen
<1>1. ASSUME NEW t \in Callers, Caller(t) PROVE ThreadInv'
  <2>1. pc \in [Callers -> CallerPcs] /\ mutex \in Callers \cup {NoOne}
    BY DEF TypeOK
  <2> USE <2>1 DEF Goto, Return
  <2>2. CASE Open(t)
    BY <2>2 DEF Open
  <2>3. CASE Close(t)
    BY <2>3 DEF Close
  <2>4. CASE CheckName(t)
    BY <2>4 DEF CheckName
  <2>5. CASE OpenContext(t)
    BY <2>5 DEF OpenContext
  <2>6. CASE OpenSocket(t)
    BY <2>6 DEF OpenSocket
  <2>7. CASE OpenListen(t)
    BY <2>7 DEF OpenListen
  <2>8. CASE OpenStart(t)
    BY <2>8 DEF OpenStart
  <2>9. CASE CloseJoined(t)
    BY <2>9 DEF CloseJoined
  <2>10. CASE AssignName(t)
    BY <2>10 DEF AssignName
  <2> QED
    BY <1>1, <2>2, <2>3, <2>4, <2>5, <2>6, <2>7, <2>8, <2>9, <2>10
    DEF Caller, InsideCall
<1>2. ASSUME ServerThread PROVE ThreadInv'
  <2>1. /\ UNCHANGED <<pc, mutex, enabled, joinable>>
        /\ srvPc # "none" /\ srvPc' # "none"
    BY <1>2
    DEF ServerThread, Move, Abandon, CheckEnabled, SelectTimeout, SelectFails,
        SelectReady, StopsBeforeAccept, AcceptFails, StopsAfterAccept,
        NonBlockingFails, BeginHandshake, GoesToAccept, GoesToBegin, Accept, HandshakeDone, HandshakeFails,
        StopWorker, JoinWorker, FinishRun
  <2> QED
    BY <2>1
<1>3. ASSUME NEW c \in Conns, Worker(c) \/ Peer(c) PROVE ThreadInv'
  <2>1. UNCHANGED <<pc, mutex, enabled, joinable, srvPc>>
    BY <1>3
    DEF Worker, serverVars, Peer, Connect, Greet, SendGarbage, Leave,
        PeerMoves, Send
  <2> QED
    BY <2>1
<1>4. CASE UNCHANGED vars
  BY <1>4 DEF vars, serverVars
<1> QED
  BY <1>1, <1>2, <1>3, <1>4 DEF Next

\* A new server has no thread, and nobody is in a method.
LEMMA ThreadInit == Init => ThreadInv
  BY ServerAssumption DEF Init, ThreadInv, Inside, InOpen

\* However the callers interleave and whichever step of open() fails, the
\* server thread is only ever started when the previous one has been joined.
THEOREM NeverTwoServerThreads == Spec => []OneServerThread
<1>1. Init => TypeOK /\ WaitsForAWorker /\ ThreadInv
  BY TypeInit, ThreadInit
<1>2. TypeOK /\ WaitsForAWorker /\ ThreadInv /\ [Next]_vars
        => (TypeOK /\ WaitsForAWorker /\ ThreadInv)'
  BY TypeStep, WaitsForAWorkerStep, ThreadStep
<1>3. ThreadInv => OneServerThread
  BY DEF ThreadInv, OneServerThread, InOpen
<1> QED
  BY <1>1, <1>2, <1>3, PTL DEF Spec
-----------------------------------------------------------------------------
(* Connections and their workers.  A connection reaches a worker along one
   road: it waits in the backlog, is carried by the descriptor run() is bringing
   into service, is served, is reaped.  That no connection takes the road twice
   and that every worker on it is in the vector is what close() relies on. *)
InHand == srvPc \in {"accepted", "begin", "handshake"}
Carried(c) == \E f \in Fds : desc[f] = c
Listed(c) == \E i \in 1..Len(workers) : workers[i] = c
Unserved(c) == wSock[c] = NoFd /\ sslFd[c] = NoFd /\ ~wRunning[c]

ServeInv ==
    /\ InHand => clientSocket \in Fds
    /\ ~InHand => clientSocket = NoFd
    /\ InHand => \A c \in Conns : desc[clientSocket] = c => wPc[c] = "none"
    /\ \A c \in Conns : c \in backlog => wPc[c] = "none" /\ ~Carried(c)
    /\ \A c \in Conns :
          peer[c] = "away" => wPc[c] = "none" /\ c \notin backlog /\ ~Carried(c)
    /\ \A c \in Conns : wPc[c] \notin {"none", "joined"} => Listed(c)
    /\ \A c \in Conns : wPc[c] \in {"none", "joined"} => Unserved(c)
    /\ srvPc \in {"none", "finished"} => workers = <<>>

(* The listening socket: which number it has, and that nobody else holds it. *)
ListenInv ==
    /\ \A f \in Fds : desc[f] \in {Unbound, Listening} => f = listenSocket
    /\ \A t \in Callers :
          /\ pc[t] \in {"context", "socket"} => listenSocket = NoFd
          /\ pc[t] \in {"socket", "listen", "start"} => context # <<>>
          /\ pc[t] = "listen" => listenSocket \in Fds /\ desc[listenSocket] = Unbound
          /\ pc[t] = "start" => listenSocket \in Fds /\ desc[listenSocket] = Listening
    /\ srvPc = "none" /\ mutex = NoOne => listenSocket = NoFd
    /\ srvPc = "finished" => listenSocket = NoFd
    /\ RunOwnsResources
    /\ listenSocket \in Fds =>
          clientSocket # listenSocket /\ \A c \in Conns : wSock[c] # listenSocket
    /\ running => srvPc \notin {"none", "finished"}

(* The descriptor of a session, when ::close reports no error. *)
OwnInv ==
    \A c \in Conns :
        /\ wPc[c] \in {"read", "reading", "write", "close"} =>
              wSock[c] = sslFd[c] /\ wSock[c] \in Fds /\ desc[wSock[c]] = c
        /\ wPc[c] = "finished" => wSock[c] = NoFd
-----------------------------------------------------------------------------
\* Releasing a number gives no connection a descriptor.
LEMMA ReleaseCarries ==
    ASSUME desc \in Tables, NEW g, desc' = Release(desc, g)
    PROVE  /\ \A c \in Conns : Carried(c)' => Carried(c)
           /\ \A f \in Fds, c \in Conns : desc'[f] = c => desc[f] = c
           /\ \A f \in Fds : f # g => desc'[f] = desc[f]
           /\ \A f \in Fds : desc'[f] \in {desc[f], Free}
  BY DescriptorsAssumption DEF Release, Carried, Tables

\* Installing a file that is not a connection, neither.
LEMMA InstallCarries ==
    ASSUME desc \in Tables, NEW g \in Fds, NEW file \in {Unbound, Listening},
           desc' = Install(desc, g, file)
    PROVE  /\ \A c \in Conns : Carried(c)' => Carried(c)
           /\ \A f \in Fds, c \in Conns : desc'[f] = c => desc[f] = c
           /\ \A f \in Fds : f # g => desc'[f] = desc[f]
           /\ desc'[g] = file
  BY DescriptorsAssumption DEF Install, Carried, Tables

\* Every step keeps workers that are not joined in the vector.
LEMMA ServeStep ==
    TypeOK /\ ThreadInv /\ WaitsForAWorker /\ ServeInv /\ [Next]_vars => ServeInv'
<1> SUFFICES ASSUME TypeOK, ThreadInv, WaitsForAWorker, ServeInv, [Next]_vars
             PROVE  ServeInv'
  OBVIOUS
<1>0. /\ desc \in Tables /\ peer \in [Conns -> Peers]
      /\ wPc \in [Conns -> WorkerPcs] /\ wRunning \in [Conns -> BOOLEAN]
      /\ wSock \in [Conns -> MaybeFd] /\ sslFd \in [Conns -> MaybeFd]
      /\ workers \in Seq(Conns) /\ clientSocket \in MaybeFd
  BY DEF TypeOK, WorkerTypeOK
<1> USE <1>0
\* A step that gives no connection a descriptor and no worker anything to do.
<1>1. ASSUME UNCHANGED <<workerVars, workers, clientSocket>>,
             (InHand <=> InHand'), srvPc' \in {"none", "finished"} => workers = <<>>,
             \A c \in Conns : Carried(c)' => Carried(c),
             \A f \in Fds, c \in Conns : desc'[f] = c => desc[f] = c,
             \A c \in Conns : peer'[c] = "away" => peer[c] = "away",
             backlog' \subseteq backlog
      PROVE  ServeInv'
  BY <1>1 DEF ServeInv, workerVars, Listed, Unserved, InHand
<1>2. ASSUME CloseListenSocket
      PROVE  /\ \A c \in Conns : Carried(c)' => Carried(c)
             /\ \A f \in Fds, c \in Conns : desc'[f] = c => desc[f] = c
             /\ \A c \in Conns : peer'[c] = "away" => peer[c] = "away"
             /\ backlog' \subseteq backlog
  BY <1>2, ReleaseCarries DEF CloseListenSocket
<1>3. ASSUME NEW t \in Callers, Caller(t) PROVE ServeInv'
  <2> USE DEF InHand
  <2>1. CASE Open(t) \/ Close(t) \/ CheckName(t) \/ AssignName(t) \/ OpenContext(t)
    BY <2>1, <1>1 DEF Open, Close, CheckName, AssignName, OpenContext, ServeInv, Carried
  <2>2. CASE OpenSocket(t)
    <3>1. /\ \A c \in Conns : Carried(c)' => Carried(c)
          /\ \A f \in Fds, c \in Conns : desc'[f] = c => desc[f] = c
      <4>1. CASE UNCHANGED desc
        BY <4>1 DEF Carried
      <4>2. CASE /\ listenSocket' \in LowestFree(desc)
                 /\ desc' = Install(desc, listenSocket', Unbound)
        <5>1. listenSocket' \in Fds
          BY <4>2, LowestFreeIsFree
        <5> QED
          BY <4>2, <5>1, InstallCarries
      <4> QED
        BY <2>2, <4>1, <4>2 DEF OpenSocket
    <3> QED
      BY <2>2, <3>1, <1>1 DEF OpenSocket, ServeInv
  <2>3. CASE OpenListen(t)
    <3>1. CASE desc' = Install(desc, listenSocket, Listening) /\ UNCHANGED <<peer, backlog>>
      <4>1. /\ \A c \in Conns : Carried(c)' => Carried(c)
            /\ \A f \in Fds, c \in Conns : desc'[f] = c => desc[f] = c
        BY <3>1, InstallCarries, DescriptorsAssumption DEF Install, Carried, Tables
      <4> QED
        BY <2>3, <3>1, <4>1, <1>1 DEF OpenListen, ServeInv
    <3>2. CASE CloseListenSocket
      BY <2>3, <3>2, <1>1, <1>2 DEF OpenListen, ServeInv
    <3> QED
      BY <2>3, <3>1, <3>2 DEF OpenListen
  <2>4. CASE OpenStart(t)
    BY <2>4, <1>1 DEF OpenStart, ThreadInv, InOpen, Carried
  <2>5. CASE CloseJoined(t)
    <3>1. srvPc = "finished"
      BY <2>5 DEF CloseJoined, ThreadInv
    <3> QED
      BY <2>5, <3>1, <1>1, <1>2 DEF CloseJoined, ServeInv
  <2> QED
    BY <1>3, <2>1, <2>2, <2>3, <2>4, <2>5 DEF Caller, InsideCall
<1>4. ASSUME ServerThread PROVE ServeInv'
  <2> USE DEF InHand
  <2>1. CASE \/ CheckEnabled \/ SelectTimeout \/ SelectFails \/ SelectReady
             \/ StopsBeforeAccept \/ AcceptFails \/ GoesToAccept \/ GoesToBegin \/ BeginHandshake
    BY <2>1, <1>1
    DEF CheckEnabled, SelectTimeout, SelectFails, SelectReady, Move, Carried,
        StopsBeforeAccept, AcceptFails, BeginHandshake, GoesToAccept, GoesToBegin
  <2>2. CASE StopsAfterAccept \/ NonBlockingFails
    BY <2>2
    DEF StopsAfterAccept, NonBlockingFails, Abandon, ServeInv, Carried, Listed,
        Unserved, workerVars
  <2>3. ASSUME NEW c \in Conns, Accept(c) PROVE ServeInv'
    <3>1. clientSocket' \in Fds /\ desc[clientSocket'] = Free
      BY <2>3, LowestFreeIsFree DEF Accept
    <3>2. \A f \in Fds : desc'[f] = IF f = clientSocket' THEN c ELSE desc[f]
      BY <2>3, <3>1 DEF Accept, Install, Tables
    <3>3. wPc[c] = "none" /\ ~Carried(c) /\ peer[c] # "away"
      BY <2>3 DEF ServeInv, Accept
    <3>4. \A d \in Conns : d # c => (Carried(d)' <=> Carried(d))
      BY <3>1, <3>2, DescriptorsAssumption DEF Carried
    <3> QED
      BY <2>3, <3>1, <3>2, <3>3, <3>4
      DEF Accept, ServeInv, Listed, Unserved, workerVars
  <2>4. ASSUME NEW c \in Conns, HandshakeDone(c) PROVE ServeInv'
    <3>1. Carried(c) /\ wPc[c] = "none" /\ UNCHANGED <<desc, peer, backlog>>
      BY <2>4 DEF HandshakeDone, ServeInv, Carried
    <3>2. /\ \A d \in Conns : Listed(d) => Listed(d)'
          /\ Listed(c)'
      BY <2>4 DEF HandshakeDone, Listed
    <3>3. \A d \in Conns : d # c => wPc'[d] = wPc[d] /\ (Unserved(d) => Unserved(d)')
      BY <2>4 DEF HandshakeDone, StartWorker, Unserved
    <3>4. wPc'[c] = "read" /\ c \notin backlog /\ peer[c] # "away"
      BY <2>4, <3>1 DEF HandshakeDone, StartWorker, ServeInv
    <3>5. srvPc' = "loop" /\ clientSocket' = NoFd
      BY <2>4 DEF HandshakeDone
    <3>6. \A d \in Conns : Carried(d)' <=> Carried(d)
      BY <3>1 DEF Carried
    <3> QED
      BY <3>1, <3>2, <3>3, <3>4, <3>5, <3>6 DEF ServeInv
  <2>5. ASSUME NEW c \in Conns, HandshakeFails(c) PROVE ServeInv'
    <3>1. \A d \in Conns : Carried(d)' => Carried(d)
      BY <2>5, ReleaseCarries DEF HandshakeFails
    <3> QED
      BY <2>5, <3>1
      DEF HandshakeFails, ServeInv, Listed, Unserved, workerVars
  <2>6. CASE StopWorker
    BY <2>6 DEF StopWorker, SignalWorker, ServeInv, Carried, Listed, Unserved
  <2>7. CASE JoinWorker
    <3>0. PICK h \in Conns : h = Head(workers)
      BY <2>7 DEF JoinWorker, WaitsForAWorker
    <3>1. /\ wPc[h] = "finished" /\ wPc' = [wPc EXCEPT ![h] = "joined"]
          /\ srvPc = "join" /\ srvPc' = "stop" /\ UNCHANGED <<peer, backlog, clientSocket>>
      BY <2>7, <3>0 DEF JoinWorker, ReapWorker
    <3>2. \A d \in Conns : d # h => (Listed(d) => Listed(d)')
      <4>1. workers # <<>> /\ workers' = Tail(workers)
        BY <2>7 DEF JoinWorker, WaitsForAWorker
      <4>2. ASSUME NEW d \in Conns, d # h, NEW i \in 1..Len(workers), workers[i] = d
            PROVE  Listed(d)'
        <5>1. i # 1
          BY <3>0, <4>1, <4>2
        <5>2. i - 1 \in 1..Len(workers') /\ workers'[i - 1] = d
          BY <4>1, <4>2, <5>1
        <5> QED
          BY <5>2 DEF Listed
      <4> QED
        BY <4>2 DEF Listed
    <3>3. Unserved(h)' /\ \A d \in Conns : Unserved(d) => Unserved(d)'
      BY <2>7, <3>0 DEF JoinWorker, ReapWorker, Unserved
    <3>4. \A d \in Conns : Carried(d)' => Carried(d)
      BY <2>7, ReleaseCarries DEF JoinWorker, ReapWorker
    <3>5. ~InHand /\ ~InHand' /\ srvPc' \notin {"none", "finished"}
      BY <3>1
    <3> HIDE DEF InHand
    <3>6. \A d \in Conns : wPc'[d] = IF d = h THEN "joined" ELSE wPc[d]
      BY <3>1
    <3>7. \A d \in Conns : wPc'[d] \notin {"none", "joined"} => Listed(d)'
      BY <3>2, <3>6 DEF ServeInv
    <3>8. \A d \in Conns : wPc'[d] \in {"none", "joined"} => Unserved(d)'
      BY <3>3, <3>6 DEF ServeInv
    <3> QED
      BY <3>1, <3>4, <3>5, <3>6, <3>7, <3>8 DEF ServeInv
  <2>8. CASE FinishRun
    BY <2>8, <1>1, <1>2 DEF FinishRun
  <2> QED
    BY <1>4, <2>1, <2>2, <2>3, <2>4, <2>5, <2>6, <2>7, <2>8 DEF ServerThread
<1>5. ASSUME NEW c \in Conns, Worker(c) PROVE ServeInv'
  <2>1. /\ UNCHANGED <<serverVars, peer, sslFd>>
        /\ wPc[c] \in {"read", "reading", "write", "close"}
        /\ \E to \in {"read", "reading", "write", "close", "finished"} :
              wPc' = [wPc EXCEPT ![c] = to]
        /\ \A d \in Conns : Unserved(d) => Unserved(d)'
    BY <1>5
    DEF Worker, WorkerThread, WorkerProgress, WorkerChecks, WorkerRead,
      WorkerReadWaits, WorkerReadEnds, WorkerWrite,
        WorkerWriteEnds, WriteReturns, WorkerCloses, Unserved
  <2>2. /\ \A d \in Conns : Carried(d)' => Carried(d)
        /\ \A f \in Fds, d \in Conns : desc'[f] = d => desc[f] = d
    <3>1. CASE UNCHANGED desc
      BY <3>1 DEF Carried
    <3>2. CASE desc' = Release(desc, wSock[c])
      BY <3>2, ReleaseCarries
    <3> QED
      BY <1>5, <3>1, <3>2
      DEF Worker, WorkerThread, WorkerProgress, WorkerChecks, WorkerRead,
      WorkerReadWaits, WorkerReadEnds, WorkerWrite,
          WorkerWriteEnds, WriteReturns, WorkerCloses
  <2> QED
    BY <2>1, <2>2 DEF ServeInv, InHand, Listed, serverVars
<1>6. ASSUME NEW c \in Conns, Peer(c) PROVE ServeInv'
  <2>1. CASE Connect(c)
    BY <2>1
    DEF Connect, ServeInv, InHand, Carried, Listed, Unserved, workerVars
  <2>2. CASE \E from \in SUBSET Peers, to \in Peers \ {"away"} : PeerMoves(c, from, to)
    BY <2>2, <1>1 DEF PeerMoves, serverVars, InHand, Carried, ServeInv
  <2>3. CASE Send(c)
    BY <2>3, <1>1 DEF Send, serverVars, InHand, Carried, ServeInv
  <2>4. Greet(c) \/ SendGarbage(c) \/ Leave(c)
           => \E from \in SUBSET Peers, to \in Peers \ {"away"} : PeerMoves(c, from, to)
    <3>1. /\ {"silent"} \in SUBSET Peers
          /\ {"silent", "greeted", "garbage"} \in SUBSET Peers
          /\ {"greeted", "garbage", "gone"} \subseteq Peers \ {"away"}
      BY DEF Peers
    <3> QED
      BY <3>1 DEF Greet, SendGarbage, Leave
  <2> QED
    BY <1>6, <2>1, <2>2, <2>3, <2>4 DEF Peer
<1>7. CASE UNCHANGED vars
  BY <1>7, <1>1 DEF vars, serverVars, InHand, Carried, ServeInv
<1> QED
  BY <1>3, <1>4, <1>5, <1>6, <1>7 DEF Next

\* A new server serves nobody.
LEMMA ServeInit == Init => ServeInv
  BY DescriptorsAssumption
  DEF Init, WorkerInit, ServeInv, InHand, Carried, Listed, Unserved, NoFd
-----------------------------------------------------------------------------
(* The refinement of ServerLife, in the words of its refinement mapping. *)
LifeNow ==
    IF enabled THEN "open"
    ELSE IF \E t \in Callers : pc[t] = "join" THEN "closing" ELSE "closed"
ServedNow == {c \in Conns : wPc[c] \in {"read", "reading", "write", "close"}}
EndedNow == {c \in Conns : wPc[c] \in {"finished", "joined"}}

\* Every step is one of ServerLife or changes nothing of it.
LEMMA LifeStep ==
    /\ TypeOK /\ ThreadInv /\ WaitsForAWorker /\ ServeInv
    /\ [Next]_vars
    => [Life!Next]_(Life!lifeVars)
<1> SUFFICES ASSUME TypeOK, ThreadInv, WaitsForAWorker, ServeInv, [Next]_vars
             PROVE  [Life!Next]_(Life!lifeVars)
  OBVIOUS
<1>0. wPc \in [Conns -> WorkerPcs] /\ pc \in [Callers -> CallerPcs]
      /\ mutex \in Callers \cup {NoOne} /\ enabled \in BOOLEAN
  BY DEF TypeOK, WorkerTypeOK
<1> USE <1>0
\* A stutter, an Opens, a Serves, a Finishes, a Closes and a Closed, in the
\* words of the mapping.
<1>1. \/ UNCHANGED <<LifeNow, ServedNow, EndedNow>>
      \/ LifeNow = "closed" /\ LifeNow' = "open" /\ UNCHANGED <<ServedNow, EndedNow>>
      \/ LifeNow = "open" /\ LifeNow' = "closing" /\ UNCHANGED <<ServedNow, EndedNow>>
      \/ /\ LifeNow = "closing" /\ ServedNow = {} /\ LifeNow' = "closed"
         /\ UNCHANGED <<ServedNow, EndedNow>>
      \/ \E c \in Conns :
            \/ /\ LifeNow # "closed" /\ c \notin ServedNow \cup EndedNow
               /\ ServedNow' = ServedNow \cup {c} /\ UNCHANGED <<LifeNow, EndedNow>>
            \/ /\ c \in ServedNow /\ ServedNow' = ServedNow \ {c}
               /\ EndedNow' = EndedNow \cup {c} /\ UNCHANGED LifeNow
      => [Life!Next]_(Life!lifeVars)
  BY Zenon
  DEF LifeNow, ServedNow, EndedNow, Life!lifeVars, Life!Next, Life!Opens,
      Life!Closes, Life!Closed, Life!Serves, Life!Finishes
<1>2. UNCHANGED wPc => UNCHANGED <<ServedNow, EndedNow>>
  BY DEF ServedNow, EndedNow
<1>3. UNCHANGED <<pc, enabled>> => UNCHANGED LifeNow
  BY DEF LifeNow
<1>4. ASSUME NEW t \in Callers, Caller(t) PROVE [Life!Next]_(Life!lifeVars)
  <2> USE ServerAssumption DEF Goto, Return
  <2>1. UNCHANGED wPc
    BY <1>4
    DEF Caller, InsideCall, Open, Close, CheckName, OpenContext, OpenSocket,
        OpenListen, OpenStart, CloseJoined, AssignName, workerVars
  <2>2. CASE Open(t) \/ OpenContext(t) \/ OpenSocket(t) \/ OpenListen(t)
             \/ CheckName(t) \/ AssignName(t)
    <3>1. /\ UNCHANGED enabled
          /\ pc[t] # "join" /\ \E at : at # "join" /\ pc' = [pc EXCEPT ![t] = at]
      BY <2>2
      DEF Open, OpenContext, OpenSocket, OpenListen, CheckName, AssignName
    <3>2. \A u \in Callers : pc'[u] = "join" <=> pc[u] = "join"
      BY <3>1
    <3>3. UNCHANGED LifeNow
      BY <3>1, <3>2 DEF LifeNow
    <3> QED
      BY <1>1, <1>2, <2>1, <3>3
  <2>3. CASE OpenStart(t)
    <3>1. ~enabled /\ enabled' /\ \A u \in Callers : pc[u] # "join"
      BY <2>3 DEF OpenStart, ThreadInv, InOpen, Inside
    <3>2. LifeNow = "closed" /\ LifeNow' = "open"
      BY <3>1 DEF LifeNow
    <3> QED
      BY <1>1, <1>2, <2>1, <3>2
  <2>4. CASE Close(t)
    <3>1. enabled /\ ~enabled' /\ pc'[t] = "join"
      BY <2>4 DEF Close
    <3>2. LifeNow = "open" /\ LifeNow' = "closing"
      BY <3>1 DEF LifeNow
    <3> QED
      BY <1>1, <1>2, <2>1, <3>2
  <2>5. CASE CloseJoined(t)
    <3>1. /\ ~enabled /\ ~enabled' /\ pc[t] = "join" /\ srvPc = "finished"
          /\ \A u \in Callers : pc'[u] # "join"
      BY <2>5 DEF CloseJoined, ThreadInv, Inside
    <3>2. LifeNow = "closing" /\ LifeNow' = "closed"
      BY <3>1 DEF LifeNow
    <3>3. \A c \in Conns : ~Listed(c)
      BY <3>1 DEF ServeInv, Listed
    <3>4. ServedNow = {}
      BY <3>3 DEF ServedNow, ServeInv
    <3> QED
      BY <1>1, <1>2, <2>1, <3>2, <3>4
  <2> QED
    BY <1>4, <2>2, <2>3, <2>4, <2>5 DEF Caller, InsideCall
<1>5. ASSUME ServerThread PROVE [Life!Next]_(Life!lifeVars)
  <2>1. UNCHANGED <<pc, enabled>>
    BY <1>5
    DEF ServerThread, Move, Abandon, CheckEnabled, SelectTimeout, SelectFails,
        SelectReady, StopsBeforeAccept, AcceptFails, StopsAfterAccept,
        NonBlockingFails, BeginHandshake, GoesToAccept, GoesToBegin, Accept, HandshakeDone, HandshakeFails,
        StopWorker, JoinWorker, FinishRun
  <2>2. CASE \/ CheckEnabled \/ SelectTimeout \/ SelectFails \/ SelectReady
             \/ StopsBeforeAccept \/ AcceptFails \/ GoesToAccept \/ GoesToBegin \/ BeginHandshake
             \/ StopsAfterAccept \/ NonBlockingFails \/ StopWorker \/ FinishRun
             \/ \E c \in Conns : Accept(c) \/ HandshakeFails(c)
    <3>1. UNCHANGED wPc
      BY <2>2
      DEF Move, Abandon, CheckEnabled, SelectTimeout, SelectFails, SelectReady,
          StopsBeforeAccept, AcceptFails, StopsAfterAccept, NonBlockingFails,
          BeginHandshake, GoesToAccept, GoesToBegin, Accept, HandshakeFails, StopWorker, SignalWorker,
          FinishRun, workerVars
    <3> QED
      BY <1>1, <1>2, <1>3, <2>1, <3>1
  <2>3. ASSUME NEW c \in Conns, HandshakeDone(c) PROVE [Life!Next]_(Life!lifeVars)
    <3>1. LifeNow # "closed"
      <4>1. srvPc = "handshake"
        BY <2>3 DEF HandshakeDone
      <4>2. joinable
        BY <4>1 DEF ThreadInv
      <4>3. enabled \/ \E t \in Callers : pc[t] = "join"
        BY <4>2 DEF ThreadInv, Inside, InOpen
      <4> QED
        BY <4>3 DEF LifeNow
    <3>2. wPc[c] = "none" /\ wPc' = [wPc EXCEPT ![c] = "read"]
      BY <2>3 DEF HandshakeDone, StartWorker, ServeInv, InHand
    <3>3. /\ c \notin ServedNow \cup EndedNow
          /\ ServedNow' = ServedNow \cup {c} /\ EndedNow' = EndedNow
      BY <3>2 DEF ServedNow, EndedNow
    <3> QED
      BY <1>1, <1>3, <2>1, <3>1, <3>3
  <2>4. CASE JoinWorker
    <3>1. PICK h \in Conns : wPc[h] = "finished" /\ wPc' = [wPc EXCEPT ![h] = "joined"]
      <4>1. Head(workers) \in Conns
        BY <2>4 DEF JoinWorker, WaitsForAWorker, TypeOK
      <4> QED
        BY <2>4, <4>1 DEF JoinWorker, ReapWorker
    <3>2. UNCHANGED <<ServedNow, EndedNow>>
      BY <3>1 DEF ServedNow, EndedNow
    <3> QED
      BY <1>1, <1>3, <2>1, <3>2
  <2> QED
    BY <1>5, <2>2, <2>3, <2>4 DEF ServerThread
<1>6. ASSUME NEW c \in Conns, Worker(c) PROVE [Life!Next]_(Life!lifeVars)
  <2>1. UNCHANGED <<pc, enabled>>
    BY <1>6 DEF Worker, serverVars
  <2>2. CASE WorkerCloses(c)
    <3>1. wPc[c] = "close" /\ wPc' = [wPc EXCEPT ![c] = "finished"]
      BY <2>2 DEF WorkerCloses
    <3>2. /\ c \in ServedNow /\ ServedNow' = ServedNow \ {c}
          /\ EndedNow' = EndedNow \cup {c}
      BY <3>1 DEF ServedNow, EndedNow
    <3> QED
      BY <1>1, <1>3, <2>1, <3>2
  <2>3. CASE ~WorkerCloses(c)
    <3>1. /\ wPc[c] \in {"read", "reading", "write"}
          /\ \E to \in {"read", "reading", "write", "close"} : wPc' = [wPc EXCEPT ![c] = to]
      BY <1>6, <2>3
      DEF Worker, WorkerThread, WorkerProgress, WorkerChecks, WorkerRead,
      WorkerReadWaits, WorkerReadEnds, WorkerWrite,
          WorkerWriteEnds, WriteReturns
    <3>2. UNCHANGED <<ServedNow, EndedNow>>
      BY <3>1 DEF ServedNow, EndedNow
    <3> QED
      BY <1>1, <1>3, <2>1, <3>2
  <2> QED
    BY <2>2, <2>3
<1>7. ASSUME NEW c \in Conns, Peer(c) PROVE [Life!Next]_(Life!lifeVars)
  <2>1. UNCHANGED <<pc, enabled, wPc>>
    BY <1>7
    DEF Peer, Connect, Greet, SendGarbage, Leave, PeerMoves, Send, serverVars,
        workerVars
  <2> QED
    BY <1>1, <1>2, <1>3, <2>1
<1>8. CASE UNCHANGED vars
  BY <1>1, <1>2, <1>3, <1>8 DEF vars, serverVars, workerVars
<1> QED
  BY <1>4, <1>5, <1>6, <1>7, <1>8 DEF Next

\* A new server is closed in ServerLife.
LEMMA LifeInit == Init => Life!Init
<1> SUFFICES ASSUME Init PROVE Life!Init
  OBVIOUS
<1>1. ~enabled /\ \A t \in Callers : pc[t] # "join"
  BY DEF Init
<1>2. \A c \in Conns : wPc[c] = "none"
  BY DEF Init, WorkerInit
<1> QED
  BY <1>1, <1>2 DEF Life!Init

\* The TLS server implements ServerLife: for every number of callers,
\* connections and descriptors and whatever fails, ::close included, close()
\* counts the server as closed only when no connection is served, none is
\* served afterwards, and none is ever served twice.
THEOREM ImplementsServerLife == Spec => LivesAsPromised
<1>1. Init => TypeOK /\ WaitsForAWorker /\ ThreadInv /\ ServeInv
  BY TypeInit, ThreadInit, ServeInit
<1>2. TypeOK /\ WaitsForAWorker /\ ThreadInv /\ ServeInv /\ [Next]_vars
        => (TypeOK /\ WaitsForAWorker /\ ThreadInv /\ ServeInv)'
  BY TypeStep, WaitsForAWorkerStep, ThreadStep, ServeStep
<1>3. TypeOK /\ WaitsForAWorker /\ ThreadInv /\ ServeInv /\ [Next]_vars
        => [Life!Next]_(Life!lifeVars)
  BY LifeStep
<1> QED
  BY <1>1, <1>2, <1>3, LifeInit, PTL DEF Spec, LivesAsPromised, Life!Spec
-----------------------------------------------------------------------------
\* When no thread of the server is left, no worker holds a number.
LEMMA NobodyServes ==
    ASSUME ServeInv, srvPc \in {"none", "finished"}
    PROVE  /\ clientSocket = NoFd
           /\ \A c \in Conns : wPc[c] \in {"none", "joined"} /\ Unserved(c)
<1>1. \A c \in Conns : ~Listed(c)
  BY DEF ServeInv, Listed
<1> QED
  BY <1>1 DEF ServeInv, InHand

\* Every step keeps the listening socket with the part of the code that owns it.
LEMMA ListenStep ==
    TypeOK /\ ThreadInv /\ WaitsForAWorker /\ ServeInv /\ ListenInv /\ [Next]_vars
    => ListenInv'
<1> SUFFICES ASSUME TypeOK, ThreadInv, WaitsForAWorker, ServeInv, ListenInv,
                    [Next]_vars
             PROVE  ListenInv'
  OBVIOUS
<1>0. /\ desc \in Tables /\ wSock \in [Conns -> MaybeFd]
      /\ pc \in [Callers -> CallerPcs] /\ mutex \in Callers \cup {NoOne}
      /\ listenSocket \in MaybeFd /\ clientSocket \in MaybeFd
      /\ fileNames \in Names \X Names
  BY DEF TypeOK, WorkerTypeOK
<1> USE <1>0, DescriptorsAssumption, ServerAssumption
\* A step that leaves callers, flags and numbers of the server alone and touches
\* no descriptor but those of connections.
<1>1. ASSUME UNCHANGED <<pc, mutex, listenSocket, context>>,
             running' => running, (running' => srvPc' \notin {"none", "finished"}),
             srvPc \notin {"none", "finished"} <=> srvPc' \notin {"none", "finished"},
             srvPc' = "none" <=> srvPc = "none",
             \A f \in Fds : f # listenSocket =>
                desc'[f] = desc[f] \/ desc'[f] \notin {Unbound, Listening},
             listenSocket \in Fds => desc'[listenSocket] = desc[listenSocket],
             listenSocket \in Fds =>
                clientSocket' # listenSocket /\ \A c \in Conns : wSock'[c] # listenSocket
      PROVE  ListenInv'
  BY <1>1 DEF ListenInv, RunOwnsResources
<1>2. ASSUME CloseListenSocket
      PROVE  /\ listenSocket' = NoFd
             /\ \A f \in Fds : desc'[f] \notin {Unbound, Listening}
  BY <1>2, ReleaseCarries, OnlyThatDescriptor DEF CloseListenSocket, ListenInv
<1>3. ASSUME NEW t \in Callers, Caller(t) PROVE ListenInv'
  <2> USE DEF Goto, Return
  <2>1. CASE Open(t)
    <3>1. srvPc = "none"
      BY <2>1 DEF Open, ThreadInv
    <3> QED
      BY <2>1, <3>1 DEF Open, ListenInv, RunOwnsResources, workerVars, ThreadInv, Inside, InOpen
  <2>2. CASE OpenContext(t)
    <3>1. fileNames # <<>>
      <4>1. PICK k \in Names, n \in Names : fileNames = <<k, n>>
        OBVIOUS
      <4>2. Len(<<k, n>>) = 2 /\ Len(<<>>) = 0
        OBVIOUS
      <4> QED
        BY <4>1, <4>2
    <3> QED
      BY <2>2, <3>1
      DEF OpenContext, ListenInv, RunOwnsResources, workerVars, ThreadInv, Inside, InOpen
  <2>3. CASE OpenSocket(t)
    <3>1. srvPc = "none" /\ mutex = t /\ context # <<>> /\ listenSocket = NoFd
      BY <2>3 DEF OpenSocket, ThreadInv, Inside, InOpen, ListenInv
    <3>2. clientSocket = NoFd /\ \A c \in Conns : wSock[c] = NoFd
      BY <3>1, NobodyServes DEF Unserved
    <3>3. \A f \in Fds : desc[f] \notin {Unbound, Listening}
      BY <3>1 DEF ListenInv, Fds, NoFd
    <3>4. CASE /\ listenSocket' \in LowestFree(desc)
               /\ desc' = Install(desc, listenSocket', Unbound)
               /\ Goto(t, "listen") /\ UNCHANGED mutex
      <4>1. listenSocket' \in Fds
        BY <3>4, LowestFreeIsFree
      <4>2. \A f \in Fds : desc'[f] = IF f = listenSocket' THEN Unbound ELSE desc[f]
        BY <3>4, OnlyThatDescriptor
      <4>3. NoFd \notin Fds
        BY DEF Fds, NoFd
      <4> QED
        BY <2>3, <3>1, <3>2, <3>3, <3>4, <4>1, <4>2, <4>3
        DEF OpenSocket, ListenInv, RunOwnsResources, workerVars, ThreadInv, Inside, InOpen
    <3>5. CASE listenSocket' = NoFd /\ Return(t) /\ UNCHANGED desc
      <4>1. NoFd \notin Fds
        BY DEF Fds, NoFd
      <4> QED
        BY <2>3, <3>1, <3>3, <3>5, <4>1
        DEF OpenSocket, ListenInv, RunOwnsResources, workerVars, ThreadInv, Inside, InOpen
    <3> QED
      BY <2>3, <3>4, <3>5 DEF OpenSocket
  <2>4. CASE OpenListen(t)
    <3>1. /\ srvPc = "none" /\ mutex = t /\ context # <<>>
          /\ listenSocket \in Fds /\ desc[listenSocket] = Unbound
      BY <2>4 DEF OpenListen, ThreadInv, Inside, InOpen, ListenInv
    <3>2. CASE /\ desc' = Install(desc, listenSocket, Listening)
               /\ Goto(t, "start") /\ UNCHANGED <<mutex, listenSocket, peer, backlog>>
      <4>1. \A f \in Fds : desc'[f] = IF f = listenSocket THEN Listening ELSE desc[f]
        BY <3>2, OnlyThatDescriptor
      <4> QED
        BY <2>4, <3>1, <3>2, <4>1
        DEF OpenListen, ListenInv, RunOwnsResources, workerVars, ThreadInv, Inside, InOpen
    <3>3. CASE CloseListenSocket /\ Return(t)
      <4>1. NoFd \notin Fds
        BY DEF Fds, NoFd
      <4> QED
        BY <1>2, <2>4, <3>1, <3>3, <4>1
        DEF OpenListen, ListenInv, RunOwnsResources, workerVars, ThreadInv, Inside, InOpen
    <3> QED
      BY <2>4, <3>2, <3>3 DEF OpenListen
  <2>5. CASE OpenStart(t)
    BY <2>5
    DEF OpenStart, ListenInv, RunOwnsResources, workerVars, ThreadInv, Inside, InOpen
  <2>6. CASE Close(t)
    <3>1. srvPc # "none"
      BY <2>6 DEF Close, ThreadInv
    <3> QED
      BY <2>6, <3>1
      DEF Close, ListenInv, RunOwnsResources, workerVars, ThreadInv, Inside, InOpen
  <2>7. CASE CloseJoined(t)
    <3>1. mutex = t /\ srvPc = "finished"
      BY <2>7 DEF CloseJoined, ThreadInv, Inside
    <3>2. NoFd \notin Fds
      BY DEF Fds, NoFd
    <3> QED
      BY <1>2, <2>7, <3>1, <3>2
      DEF CloseJoined, ListenInv, RunOwnsResources, workerVars, ThreadInv, Inside, InOpen
  <2>8. CASE CheckName(t) \/ AssignName(t)
    BY <2>8
    DEF CheckName, AssignName, ListenInv, RunOwnsResources, workerVars, ThreadInv,
        Inside, InOpen
  <2> QED
    BY <1>3, <2>1, <2>2, <2>3, <2>4, <2>5, <2>6, <2>7, <2>8 DEF Caller, InsideCall
<1>4. ASSUME ServerThread PROVE ListenInv'
  <2>0. listenSocket \in Fds =>
           /\ clientSocket # listenSocket
           /\ \A c \in Conns : wSock[c] # listenSocket
    BY DEF ListenInv
  <2>1. CASE \/ CheckEnabled \/ SelectTimeout \/ SelectFails \/ SelectReady
             \/ StopsBeforeAccept \/ AcceptFails \/ GoesToAccept \/ GoesToBegin \/ BeginHandshake
             \/ StopsAfterAccept \/ NonBlockingFails
    <3>1. /\ UNCHANGED <<pc, mutex, listenSocket, context, running, desc, wSock>>
          /\ srvPc \notin {"none", "finished"} /\ srvPc' \notin {"none", "finished"}
          /\ clientSocket' \in {clientSocket, NoFd}
      BY <2>1
      DEF CheckEnabled, SelectTimeout, SelectFails, SelectReady, Move, workerVars,
          StopsBeforeAccept, AcceptFails, BeginHandshake, GoesToAccept, GoesToBegin, StopsAfterAccept,
          NonBlockingFails, Abandon
    <3>2. NoFd \notin Fds
      BY DEF Fds, NoFd
    <3> QED
      BY <1>1, <2>0, <3>1, <3>2
  <2>2. ASSUME NEW c \in Conns, Accept(c) PROVE ListenInv'
    <3>1. clientSocket' \in Fds /\ desc[clientSocket'] = Free
      BY <2>2, LowestFreeIsFree DEF Accept
    <3>2. \A f \in Fds : desc'[f] = IF f = clientSocket' THEN c ELSE desc[f]
      BY <2>2, OnlyThatDescriptor DEF Accept
    <3>3. desc[listenSocket] = Listening
      BY <2>2 DEF Accept, ListenInv, RunOwnsResources
    <3> QED
      BY <1>1, <2>0, <2>2, <3>1, <3>2, <3>3 DEF Accept, workerVars
  <2>3. ASSUME NEW c \in Conns, HandshakeDone(c) PROVE ListenInv'
    <3>1. clientSocket \in Fds /\ clientSocket' = NoFd /\ NoFd \notin Fds
      BY <2>3 DEF HandshakeDone, ServeInv, InHand, Fds, NoFd
    <3> QED
      BY <1>1, <2>0, <2>3, <3>1 DEF HandshakeDone, StartWorker
  <2>4. ASSUME NEW c \in Conns, HandshakeFails(c) PROVE ListenInv'
    <3>1. clientSocket' = NoFd /\ NoFd \notin Fds
      BY <2>4 DEF HandshakeFails, Fds, NoFd
    <3>2. /\ \A f \in Fds : f # clientSocket => desc'[f] = desc[f]
          /\ \A f \in Fds : desc'[f] \in {desc[f], Free}
      BY <2>4, ReleaseCarries DEF HandshakeFails
    <3> QED
      BY <1>1, <2>0, <2>4, <3>1, <3>2 DEF HandshakeFails, workerVars
  <2>5. CASE StopWorker
    BY <1>1, <2>0, <2>5 DEF StopWorker, SignalWorker
  <2>6. CASE JoinWorker
    <3>0. PICK h \in Conns : h = Head(workers)
      BY <2>6 DEF JoinWorker, WaitsForAWorker, TypeOK
    <3>1. NoFd \notin Fds
      BY DEF Fds, NoFd
    <3>2. /\ \A f \in Fds : f # wSock[h] => desc'[f] = desc[f]
          /\ \A f \in Fds : desc'[f] \in {desc[f], Free}
      BY <2>6, <3>0, ReleaseCarries DEF JoinWorker, ReapWorker
    <3>3. \A c \in Conns : wSock'[c] \in {wSock[c], NoFd}
      BY <2>6, <3>0 DEF JoinWorker, ReapWorker
    <3> QED
      BY <1>1, <2>0, <2>6, <3>0, <3>1, <3>2, <3>3 DEF JoinWorker, ReapWorker
  <2>7. CASE FinishRun
    <3>1. NoFd \notin Fds
      BY DEF Fds, NoFd
    <3> QED
      BY <1>2, <2>7, <3>1
      DEF FinishRun, ListenInv, RunOwnsResources, ThreadInv, Inside, InOpen
  <2> QED
    BY <1>4, <2>1, <2>2, <2>3, <2>4, <2>5, <2>6, <2>7 DEF ServerThread
<1>5. ASSUME NEW c \in Conns, Worker(c) PROVE ListenInv'
  <2>1. CASE UNCHANGED <<desc, wSock>>
    BY <1>1, <1>5, <2>1 DEF Worker, serverVars, ListenInv
  <2>2. CASE WorkerCloses(c)
    <3>1. NoFd \notin Fds
      BY DEF Fds, NoFd
    <3>2. /\ \A f \in Fds : f # wSock[c] => desc'[f] = desc[f]
          /\ \A f \in Fds : desc'[f] \in {desc[f], Free}
      BY <2>2, ReleaseCarries DEF WorkerCloses
    <3>3. \A d \in Conns : wSock'[d] \in {wSock[d], NoFd}
      BY <2>2 DEF WorkerCloses
    <3> QED
      BY <1>1, <1>5, <3>1, <3>2, <3>3 DEF Worker, serverVars, ListenInv
  <2> QED
    BY <1>5, <2>1, <2>2
    DEF Worker, WorkerThread, WorkerProgress, WorkerChecks, WorkerRead,
      WorkerReadWaits, WorkerReadEnds, WorkerWrite,
        WorkerWriteEnds, WriteReturns
<1>6. ASSUME NEW c \in Conns, Peer(c) PROVE ListenInv'
  BY <1>1, <1>6
  DEF Peer, Connect, Greet, SendGarbage, Leave, PeerMoves, Send, serverVars,
      workerVars, ListenInv
<1>7. CASE UNCHANGED vars
  BY <1>1, <1>7 DEF vars, serverVars, workerVars, ListenInv
<1> QED
  BY <1>3, <1>4, <1>5, <1>6, <1>7 DEF Next

\* A new server has no listening socket.
LEMMA ListenInit == Init => ListenInv
  BY DescriptorsAssumption
  DEF Init, WorkerInit, ListenInv, RunOwnsResources, NoFd, Fds

\* While run() executes, the context and the listening socket it reads without
\* a lock are there, whatever open() and close() do meanwhile and whichever call
\* of theirs fails.
THEOREM RunKeepsItsResources == Spec => []RunOwnsResources
<1>1. Init => TypeOK /\ WaitsForAWorker /\ ThreadInv /\ ServeInv /\ ListenInv
  BY TypeInit, ThreadInit, ServeInit, ListenInit
<1>2. TypeOK /\ WaitsForAWorker /\ ThreadInv /\ ServeInv /\ ListenInv /\ [Next]_vars
        => (TypeOK /\ WaitsForAWorker /\ ThreadInv /\ ServeInv /\ ListenInv)'
  BY TypeStep, WaitsForAWorkerStep, ThreadStep, ServeStep, ListenStep
<1>3. ListenInv => RunOwnsResources
  BY DEF ListenInv
<1> QED
  BY <1>1, <1>2, <1>3, PTL DEF Spec

\* A disabled server nobody is opening or closing has let go of everything, for
\* every number of callers, connections and descriptors and even when ::close
\* reports errors.
THEOREM ClosedMeansReleased == Spec => []Quiescent
<1>1. Init => TypeOK /\ WaitsForAWorker /\ ThreadInv /\ ServeInv /\ ListenInv
  BY TypeInit, ThreadInit, ServeInit, ListenInit
<1>2. TypeOK /\ WaitsForAWorker /\ ThreadInv /\ ServeInv /\ ListenInv /\ [Next]_vars
        => (TypeOK /\ WaitsForAWorker /\ ThreadInv /\ ServeInv /\ ListenInv)'
  BY TypeStep, WaitsForAWorkerStep, ThreadStep, ServeStep, ListenStep
<1>3. ThreadInv /\ ServeInv /\ ListenInv => Quiescent
  <2> SUFFICES ASSUME ThreadInv, ServeInv, ListenInv, mutex = NoOne, ~enabled
               PROVE  Quiescent
    BY DEF Quiescent
  <2>1. srvPc = "none" /\ ~joinable
    BY DEF ThreadInv
  <2>2. ~running /\ listenSocket = NoFd
    BY <2>1 DEF ListenInv
  <2>3. \A f \in Fds : desc[f] \notin {Unbound, Listening}
    BY <2>2 DEF ListenInv, Fds, NoFd
  <2>4. workers = <<>>
    BY <2>1 DEF ServeInv
  <2>5. \A c \in Conns : wPc[c] \in {"none", "joined"} /\ Unserved(c)
    BY <2>1, NobodyServes
  <2> QED
    BY <2>1, <2>2, <2>3, <2>4, <2>5 DEF Quiescent, IsOpen, Unserved
<1> QED
  BY <1>1, <1>2, <1>3, PTL DEF Spec
-----------------------------------------------------------------------------
(* Descriptors of connections.  Without errors of ::close the worker forgets the
   number it closed, so no later step of it can hit a reused number. *)
CloseWorks == CloseMayFail = FALSE

\* If ::close succeeds, the number a worker remembers is that of its connection.
LEMMA OwnStep ==
    ASSUME CloseWorks
    PROVE  /\ TypeOK /\ ThreadInv /\ WaitsForAWorker /\ ServeInv /\ ListenInv
           /\ OwnInv /\ [Next]_vars
           => OwnInv'
<1> SUFFICES ASSUME TypeOK, ThreadInv, WaitsForAWorker, ServeInv, ListenInv,
                    OwnInv, [Next]_vars
             PROVE  OwnInv'
  OBVIOUS
<1>0. /\ desc \in Tables /\ wPc \in [Conns -> WorkerPcs]
      /\ wSock \in [Conns -> MaybeFd] /\ sslFd \in [Conns -> MaybeFd]
      /\ listenSocket \in MaybeFd /\ clientSocket \in MaybeFd
  BY DEF TypeOK, WorkerTypeOK
<1> USE <1>0, DescriptorsAssumption
\* A step that leaves the workers and the descriptors of connections alone.
<1>1. ASSUME UNCHANGED <<wPc, wSock, sslFd>>,
             \A f \in Fds : desc[f] \in Conns /\ wPc[desc[f]] # "none"
                              => desc'[f] = desc[f]
      PROVE  OwnInv'
  BY <1>1 DEF OwnInv
\* The listening socket is not a connection.
<1>2. ASSUME CloseListenSocket, listenSocket \in Fds => desc[listenSocket] \notin Conns
      PROVE  \A f \in Fds : desc[f] \in Conns => desc'[f] = desc[f]
  BY <1>2, OnlyThatDescriptor DEF CloseListenSocket, Release
<1>3. ASSUME NEW t \in Callers, Caller(t) PROVE OwnInv'
  <2>1. UNCHANGED <<wPc, wSock, sslFd>>
    BY <1>3
    DEF Caller, InsideCall, Open, Close, CheckName, OpenContext, OpenSocket,
        OpenListen, OpenStart, CloseJoined, AssignName, workerVars
  <2>2. CASE UNCHANGED desc
    BY <1>1, <2>1, <2>2
  <2>3. CASE OpenSocket(t)
    <3>1. CASE /\ listenSocket' \in LowestFree(desc)
               /\ desc' = Install(desc, listenSocket', Unbound)
      <4>1. desc[listenSocket'] = Free
        BY <3>1, LowestFreeIsFree
      <4>2. \A f \in Fds : f # listenSocket' => desc'[f] = desc[f]
        BY <3>1, OnlyThatDescriptor
      <4> QED
        BY <1>1, <2>1, <4>1, <4>2
    <3> QED
      BY <2>2, <2>3, <3>1 DEF OpenSocket
  <2>4. CASE OpenListen(t)
    <3>1. listenSocket \in Fds /\ desc[listenSocket] = Unbound
      BY <2>4 DEF OpenListen, ListenInv
    <3>2. CASE desc' = Install(desc, listenSocket, Listening)
      <4>1. \A f \in Fds : f # listenSocket => desc'[f] = desc[f]
        BY <3>2, OnlyThatDescriptor
      <4> QED
        BY <1>1, <2>1, <3>1, <4>1
    <3>3. CASE CloseListenSocket
      BY <1>1, <1>2, <2>1, <3>1, <3>3
    <3> QED
      BY <2>4, <3>2, <3>3 DEF OpenListen
  <2>5. CASE CloseJoined(t)
    <3>1. srvPc = "finished"
      BY <2>5 DEF CloseJoined, ThreadInv
    <3>2. listenSocket \notin Fds
      BY <3>1 DEF ListenInv, Fds, NoFd
    <3> QED
      BY <1>1, <1>2, <2>1, <2>5, <3>2 DEF CloseJoined
  <2> QED
    BY <1>3, <2>2, <2>3, <2>4, <2>5
    DEF Caller, InsideCall, Open, Close, CheckName, OpenContext, OpenStart, AssignName
<1>4. ASSUME ServerThread PROVE OwnInv'
  <2>1. CASE \/ CheckEnabled \/ SelectTimeout \/ SelectFails \/ SelectReady
             \/ StopsBeforeAccept \/ AcceptFails \/ GoesToAccept \/ GoesToBegin \/ BeginHandshake
             \/ StopsAfterAccept \/ NonBlockingFails \/ StopWorker
    BY <1>1, <2>1
    DEF CheckEnabled, SelectTimeout, SelectFails, SelectReady, Move, workerVars,
        StopsBeforeAccept, AcceptFails, BeginHandshake, GoesToAccept, GoesToBegin, StopsAfterAccept,
        NonBlockingFails, Abandon, StopWorker, SignalWorker
  <2>2. ASSUME NEW c \in Conns, Accept(c) PROVE OwnInv'
    <3>1. desc[clientSocket'] = Free
      BY <2>2, LowestFreeIsFree DEF Accept
    <3>2. \A f \in Fds : f # clientSocket' => desc'[f] = desc[f]
      BY <2>2, OnlyThatDescriptor DEF Accept
    <3> QED
      BY <1>1, <2>2, <3>1, <3>2 DEF Accept, workerVars
  <2>3. ASSUME NEW c \in Conns, HandshakeDone(c) PROVE OwnInv'
    <3>1. clientSocket \in Fds /\ desc[clientSocket] = c
      BY <2>3 DEF HandshakeDone, ServeInv, InHand
    <3> QED
      BY <2>3, <3>1 DEF HandshakeDone, StartWorker, OwnInv
  <2>4. ASSUME NEW c \in Conns, HandshakeFails(c) PROVE OwnInv'
    <3>1. desc[clientSocket] = c /\ wPc[c] = "none"
      BY <2>4 DEF HandshakeFails, ServeInv, InHand
    <3>2. \A f \in Fds : f # clientSocket => desc'[f] = desc[f]
      BY <2>4, ReleaseCarries DEF HandshakeFails
    <3> QED
      BY <1>1, <2>4, <3>1, <3>2 DEF HandshakeFails, workerVars
  <2>5. CASE JoinWorker
    <3>1. PICK h \in Conns : h = Head(workers)
      BY <2>5 DEF JoinWorker, WaitsForAWorker, TypeOK
    <3>2. wPc[h] = "finished" /\ wSock[h] = NoFd /\ NoFd \notin Fds
      BY <2>5, <3>1 DEF JoinWorker, ReapWorker, OwnInv, Fds, NoFd
    <3>3. desc' = desc
      BY <2>5, <3>1, <3>2 DEF JoinWorker, ReapWorker, Release
    <3>4. \A c \in Conns : c # h => wPc'[c] = wPc[c] /\ wSock'[c] = wSock[c]
                                   /\ sslFd'[c] = sslFd[c]
      BY <2>5, <3>1 DEF JoinWorker, ReapWorker
    <3>5. wPc'[h] = "joined"
      BY <2>5, <3>1 DEF JoinWorker, ReapWorker
    <3> QED
      BY <3>3, <3>4, <3>5 DEF OwnInv
  <2>6. CASE FinishRun
    <3>1. listenSocket \in Fds => desc[listenSocket] \notin Conns
      BY <2>6 DEF FinishRun, ListenInv, RunOwnsResources
    <3> QED
      BY <1>1, <1>2, <2>6, <3>1 DEF FinishRun, workerVars
  <2> QED
    BY <1>4, <2>1, <2>2, <2>3, <2>4, <2>5, <2>6 DEF ServerThread
<1>5. ASSUME NEW c \in Conns, Worker(c) PROVE OwnInv'
  <2>1. CASE WorkerCloses(c)
    <3>1. wSock[c] \in Fds /\ desc[wSock[c]] = c /\ wPc[c] = "close"
      BY <2>1 DEF WorkerCloses, OwnInv
    <3>2. CloseResults(wSock[c]) \subseteq {TRUE}
      BY <3>1 DEF CloseResults, CloseWorks
    <3>3. wSock' = [wSock EXCEPT ![c] = NoFd] /\ wPc' = [wPc EXCEPT ![c] = "finished"]
      BY <2>1, <3>2 DEF WorkerCloses
    <3>4. \A f \in Fds : f # wSock[c] => desc'[f] = desc[f]
      BY <2>1, ReleaseCarries DEF WorkerCloses
    <3>5. UNCHANGED sslFd
      BY <2>1 DEF WorkerCloses
    <3> QED
      BY <3>1, <3>3, <3>4, <3>5 DEF OwnInv
  <2>2. CASE ~WorkerCloses(c)
    <3>1. /\ UNCHANGED <<desc, wSock, sslFd>> /\ wPc[c] \in {"read", "reading", "write"}
          /\ \E to \in {"read", "reading", "write", "close"} : wPc' = [wPc EXCEPT ![c] = to]
      BY <1>5, <2>2
      DEF Worker, WorkerThread, WorkerProgress, WorkerChecks, WorkerRead,
      WorkerReadWaits, WorkerReadEnds, WorkerWrite,
          WorkerWriteEnds, WriteReturns
    <3> QED
      BY <3>1 DEF OwnInv
  <2> QED
    BY <2>1, <2>2
<1>6. ASSUME NEW c \in Conns, Peer(c) PROVE OwnInv'
  BY <1>1, <1>6
  DEF Peer, Connect, Greet, SendGarbage, Leave, PeerMoves, Send, serverVars,
      workerVars
<1>7. CASE UNCHANGED vars
  BY <1>1, <1>7 DEF vars, workerVars
<1> QED
  BY <1>3, <1>4, <1>5, <1>6, <1>7 DEF Next

\* There are no workers at the start.
LEMMA OwnInit == Init => OwnInv
  BY DEF Init, WorkerInit, OwnInv

\* As long as ::close reports no error, a served session keeps the descriptor
\* its connection was accepted on: no interleaving of workers, server thread and
\* callers closes or reuses the number under it.
THEOREM SessionsKeepTheirDescriptor ==
    ASSUME CloseWorks
    PROVE  Spec => []OwnDescriptor
<1>1. Init => TypeOK /\ WaitsForAWorker /\ ThreadInv /\ ServeInv /\ ListenInv /\ OwnInv
  BY TypeInit, ThreadInit, ServeInit, ListenInit, OwnInit
<1>2. /\ TypeOK /\ WaitsForAWorker /\ ThreadInv /\ ServeInv /\ ListenInv /\ OwnInv
      /\ [Next]_vars
      => (TypeOK /\ WaitsForAWorker /\ ThreadInv /\ ServeInv /\ ListenInv /\ OwnInv)'
  BY TypeStep, WaitsForAWorkerStep, ThreadStep, ServeStep, ListenStep, OwnStep
<1>3. OwnInv => OwnDescriptor
  BY DEF OwnInv, OwnDescriptor, Carrier
<1> QED
  BY <1>1, <1>2, <1>3, PTL DEF Spec

\* The step formula of ReleasedByOwner.
OwnerReleases ==
    \A f \in Fds, c \in Conns :
        desc[f] = c /\ desc'[f] # c =>
            \/ wPc[c] = "close" /\ wPc'[c] = "finished"
            \/ srvPc \in {"begin", "handshake"} /\ clientSocket = f
            \/ wPc[c] = "finished" /\ wPc'[c] = "joined"

\* If ::close succeeds, a step frees the descriptor of its own connection only.
LEMMA OwnerReleasesStep ==
    ASSUME CloseWorks
    PROVE  /\ TypeOK /\ ThreadInv /\ WaitsForAWorker /\ ServeInv /\ ListenInv
           /\ OwnInv /\ [Next]_vars
           => OwnerReleases
<1> SUFFICES ASSUME TypeOK, ThreadInv, WaitsForAWorker, ServeInv, ListenInv,
                    OwnInv, [Next]_vars,
                    NEW f \in Fds, NEW c \in Conns, desc[f] = c, desc'[f] # c
             PROVE  \/ wPc[c] = "close" /\ wPc'[c] = "finished"
                    \/ srvPc \in {"begin", "handshake"} /\ clientSocket = f
                    \/ wPc[c] = "finished" /\ wPc'[c] = "joined"
  BY DEF OwnerReleases
<1>0. desc \in Tables /\ wPc \in [Conns -> WorkerPcs] /\ desc[f] # Free
  BY DescriptorsAssumption DEF TypeOK, WorkerTypeOK
<1> USE <1>0, DescriptorsAssumption
\* What the listening socket does is no concern of a connection.
<1>1. ASSUME CloseListenSocket, listenSocket \in Fds => desc[listenSocket] \notin Conns
      PROVE  FALSE
  BY <1>1, OnlyThatDescriptor DEF CloseListenSocket, Release
<1>2. ASSUME NEW t \in Callers, Caller(t) PROVE FALSE
  <2>1. CASE OpenSocket(t)
    <3>1. CASE /\ listenSocket' \in LowestFree(desc)
               /\ desc' = Install(desc, listenSocket', Unbound)
      BY <3>1, LowestFreeIsFree, OnlyThatDescriptor
    <3> QED
      BY <2>1, <3>1 DEF OpenSocket
  <2>2. CASE OpenListen(t)
    <3>1. listenSocket \in Fds /\ desc[listenSocket] = Unbound
      BY <2>2 DEF OpenListen, ListenInv
    <3>2. CASE desc' = Install(desc, listenSocket, Listening)
      BY <3>1, <3>2, OnlyThatDescriptor
    <3> QED
      BY <1>1, <2>2, <3>1, <3>2 DEF OpenListen
  <2>3. CASE CloseJoined(t)
    <3>1. srvPc = "finished"
      BY <2>3 DEF CloseJoined, ThreadInv
    <3>2. listenSocket \notin Fds
      BY <3>1 DEF ListenInv, Fds, NoFd
    <3> QED
      BY <1>1, <2>3, <3>2 DEF CloseJoined
  <2> QED
    BY <1>2, <2>1, <2>2, <2>3
    DEF Caller, InsideCall, Open, Close, CheckName, OpenContext, OpenStart, AssignName
<1>3. ASSUME ServerThread PROVE srvPc \in {"begin", "handshake"} /\ clientSocket = f
  <2>1. ASSUME NEW d \in Conns, Accept(d) PROVE FALSE
    BY <2>1, LowestFreeIsFree, OnlyThatDescriptor DEF Accept
  <2>2. ASSUME NEW d \in Conns, HandshakeFails(d)
        PROVE  srvPc \in {"begin", "handshake"} /\ clientSocket = f
    BY <2>2, ReleaseCarries DEF HandshakeFails
  <2>3. CASE JoinWorker
    <3>1. PICK h \in Conns : h = Head(workers)
      BY <2>3 DEF JoinWorker, WaitsForAWorker, TypeOK
    <3>2. wSock[h] = NoFd /\ NoFd \notin Fds
      BY <2>3, <3>1 DEF JoinWorker, ReapWorker, OwnInv, Fds, NoFd
    <3> QED
      BY <2>3, <3>1, <3>2 DEF JoinWorker, ReapWorker, Release
  <2>4. CASE FinishRun
    <3>1. listenSocket \in Fds => desc[listenSocket] \notin Conns
      BY <2>4 DEF FinishRun, ListenInv, RunOwnsResources
    <3> QED
      BY <1>1, <2>4, <3>1 DEF FinishRun
  <2> QED
    BY <1>3, <2>1, <2>2, <2>3, <2>4
    DEF ServerThread, CheckEnabled, SelectTimeout, SelectFails, SelectReady, Move,
        StopsBeforeAccept, AcceptFails, BeginHandshake, GoesToAccept, GoesToBegin, StopsAfterAccept,
        NonBlockingFails, Abandon, HandshakeDone, StopWorker, SignalWorker
<1>4. ASSUME NEW d \in Conns, Worker(d)
      PROVE  wPc[c] = "close" /\ wPc'[c] = "finished"
  <2>1. CASE WorkerCloses(d)
    <3>1. desc[wSock[d]] = d /\ wPc[d] = "close" /\ wPc'[d] = "finished"
      BY <2>1 DEF WorkerCloses, OwnInv
    <3>2. f = wSock[d]
      BY <2>1, ReleaseCarries DEF WorkerCloses
    <3> QED
      BY <3>1, <3>2
  <2> QED
    BY <1>4, <2>1
    DEF Worker, WorkerThread, WorkerProgress, WorkerChecks, WorkerRead,
      WorkerReadWaits, WorkerReadEnds, WorkerWrite,
        WorkerWriteEnds, WriteReturns
<1>5. ASSUME NEW d \in Conns, Peer(d) PROVE FALSE
  BY <1>5 DEF Peer, Connect, Greet, SendGarbage, Leave, PeerMoves, Send
<1>6. CASE UNCHANGED vars
  BY <1>6 DEF vars
<1> QED
  BY <1>2, <1>3, <1>4, <1>5, <1>6 DEF Next

\* As long as ::close reports no error, the descriptor of a connection is closed
\* by its worker or, before it has one, by the server thread that accepted it,
\* and never because some other connection's number was closed again.
THEOREM OnlyOwnersRelease ==
    ASSUME CloseWorks
    PROVE  Spec => ReleasedByOwner
<1>1. Init => TypeOK /\ WaitsForAWorker /\ ThreadInv /\ ServeInv /\ ListenInv /\ OwnInv
  BY TypeInit, ThreadInit, ServeInit, ListenInit, OwnInit
<1>2. /\ TypeOK /\ WaitsForAWorker /\ ThreadInv /\ ServeInv /\ ListenInv /\ OwnInv
      /\ [Next]_vars
      => (TypeOK /\ WaitsForAWorker /\ ThreadInv /\ ServeInv /\ ListenInv /\ OwnInv)'
  BY TypeStep, WaitsForAWorkerStep, ThreadStep, ServeStep, ListenStep, OwnStep
<1>3. /\ TypeOK /\ WaitsForAWorker /\ ThreadInv /\ ServeInv /\ ListenInv /\ OwnInv
      /\ [Next]_vars
      => [OwnerReleases]_vars
  BY OwnerReleasesStep
<1>4. ReleasedByOwner <=> [][OwnerReleases]_vars
  BY PTL DEF ReleasedByOwner, OwnerReleases
<1> QED
  BY <1>1, <1>2, <1>3, <1>4, PTL DEF Spec
-----------------------------------------------------------------------------
\* The step formula of LostOnlyWhenAbandoned.
LosesAbandoned ==
    \A f \in Fds :
        ~Lost(f) /\ Lost(f)' => srvPc \in {"accepted", "begin"} /\ clientSocket = f

\* A descriptor is lost only where run abandons what accept returned.
LEMMA LosesAbandonedStep ==
    TypeOK /\ WaitsForAWorker /\ ServeInv /\ [Next]_vars => LosesAbandoned
<1> SUFFICES ASSUME TypeOK, WaitsForAWorker, ServeInv, [Next]_vars,
                    NEW f \in Fds, ~Lost(f), Lost(f)'
             PROVE  srvPc \in {"accepted", "begin"} /\ clientSocket = f
  BY DEF LosesAbandoned
<1>0. /\ desc \in Tables /\ wSock \in [Conns -> MaybeFd]
      /\ desc'[f] \in Conns /\ clientSocket' # f /\ \A c \in Conns : wSock'[c] # f
  BY DEF TypeOK, WorkerTypeOK, Lost
<1>1. desc[f] \notin Conns \/ clientSocket = f \/ \E c \in Conns : wSock[c] = f
  BY DEF Lost
<1>2. NoFd \notin Fds /\ {Free, Unbound, Listening} \cap Conns = {}
  BY DescriptorsAssumption DEF Fds, NoFd
<1> USE <1>0
<1>3. ASSUME UNCHANGED clientSocket, desc'[f] = desc[f], UNCHANGED wSock PROVE FALSE
  BY <1>1, <1>3
<1>4. ASSUME NEW g, desc' = Release(desc, g), UNCHANGED clientSocket,
             \A c \in Conns : wSock'[c] = wSock[c] \/ wSock[c] = g
      PROVE  FALSE
  <2>1. desc'[f] = desc[f] /\ f # g
    BY <1>2, <1>4, OnlyThatDescriptor DEF Release
  <2> QED
    BY <1>1, <1>4, <2>1
<1>5. ASSUME NEW t \in Callers, Caller(t) PROVE FALSE
  <2>1. UNCHANGED <<clientSocket, wSock>>
    BY <1>5
    DEF Caller, InsideCall, Open, Close, CheckName, OpenContext, OpenSocket,
        OpenListen, OpenStart, CloseJoined, AssignName, workerVars
  <2>2. CASE \E g \in Fds, file \in {Unbound, Listening} : desc' = Install(desc, g, file)
    BY <1>2, <1>3, <2>1, <2>2, OnlyThatDescriptor
  <2>3. CASE desc' = Install(desc, listenSocket, Listening)
    BY <1>2, <1>3, <2>1, <2>3, OnlyThatDescriptor
  <2>4. CASE OpenSocket(t)
    <3>1. CASE /\ listenSocket' \in LowestFree(desc)
               /\ desc' = Install(desc, listenSocket', Unbound)
      BY <2>2, <3>1, LowestFreeIsFree
    <3> QED
      BY <1>3, <2>1, <2>4, <3>1 DEF OpenSocket
  <2>5. CASE CloseListenSocket
    BY <1>4, <2>1, <2>5 DEF CloseListenSocket
  <2> QED
    BY <1>3, <1>5, <2>1, <2>3, <2>4, <2>5
    DEF Caller, InsideCall, Open, Close, CheckName, OpenContext, OpenListen,
        OpenStart, CloseJoined, AssignName
<1>6. ASSUME ServerThread PROVE srvPc \in {"accepted", "begin"} /\ clientSocket = f
  <2>1. CASE \/ CheckEnabled \/ SelectTimeout \/ SelectFails \/ SelectReady
             \/ StopsBeforeAccept \/ AcceptFails \/ GoesToAccept \/ GoesToBegin \/ BeginHandshake \/ StopWorker
    BY <1>3, <2>1
    DEF CheckEnabled, SelectTimeout, SelectFails, SelectReady, Move, workerVars,
        StopsBeforeAccept, AcceptFails, BeginHandshake, GoesToAccept, GoesToBegin, StopWorker, SignalWorker
  <2>2. CASE StopsAfterAccept \/ NonBlockingFails
    BY <1>1, <2>2 DEF StopsAfterAccept, NonBlockingFails, Abandon, workerVars
  <2>3. ASSUME NEW c \in Conns, Accept(c) PROVE FALSE
    <3>1. clientSocket = NoFd /\ wSock' = wSock
      BY <2>3 DEF Accept, ServeInv, InHand, workerVars
    <3>2. f # clientSocket' /\ desc'[f] = desc[f]
      BY <2>3, LowestFreeIsFree, OnlyThatDescriptor DEF Accept
    <3> QED
      BY <1>1, <1>2, <3>1, <3>2
  <2>4. ASSUME NEW c \in Conns, HandshakeDone(c) PROVE FALSE
    <3>1. wSock'[c] = clientSocket /\ desc' = desc
      BY <2>4 DEF HandshakeDone, StartWorker
    <3>2. \A d \in Conns : wSock[d] = f => d = c
      BY <2>4 DEF HandshakeDone, StartWorker
    <3>3. wSock[c] = NoFd
      BY <2>4 DEF HandshakeDone, ServeInv, InHand, Unserved
    <3> QED
      BY <1>1, <1>2, <3>1, <3>2, <3>3
  <2>5. ASSUME NEW c \in Conns, HandshakeFails(c) PROVE FALSE
    <3>1. desc'[f] = desc[f] /\ f # clientSocket /\ wSock' = wSock
      BY <1>2, <2>5, OnlyThatDescriptor DEF HandshakeFails, Release, workerVars
    <3> QED
      BY <1>1, <3>1
  <2>6. CASE JoinWorker
    <3>1. PICK h \in Conns : h = Head(workers)
      BY <2>6 DEF JoinWorker, WaitsForAWorker, TypeOK
    <3> QED
      BY <1>4, <2>6, <3>1 DEF JoinWorker, ReapWorker
  <2>7. CASE FinishRun
    BY <1>4, <2>7 DEF FinishRun, CloseListenSocket, workerVars
  <2> QED
    BY <1>6, <2>1, <2>2, <2>3, <2>4, <2>5, <2>6, <2>7 DEF ServerThread
<1>7. ASSUME NEW c \in Conns, Worker(c) PROVE FALSE
  <2>1. CASE WorkerCloses(c)
    BY <1>4, <1>7, <2>1 DEF WorkerCloses, Worker, serverVars
  <2> QED
    BY <1>3, <1>7, <2>1
    DEF Worker, WorkerThread, WorkerProgress, WorkerChecks, WorkerRead,
      WorkerReadWaits, WorkerReadEnds, WorkerWrite,
        WorkerWriteEnds, WriteReturns, serverVars
<1>8. ASSUME NEW c \in Conns, Peer(c) PROVE FALSE
  BY <1>3, <1>8
  DEF Peer, Connect, Greet, SendGarbage, Leave, PeerMoves, Send, serverVars,
      workerVars
<1>9. CASE UNCHANGED vars
  BY <1>3, <1>9 DEF vars, serverVars, workerVars
<1> QED
  BY <1>5, <1>6, <1>7, <1>8, <1>9 DEF Next

\* Whatever fails, ::close included, a descriptor that carries a connection is
\* lost at one place only: the break or continue of run() between accept() and
\* the handshake.
THEOREM LostThereOnly == Spec => LostOnlyWhenAbandoned
<1>1. Init => TypeOK /\ WaitsForAWorker /\ ThreadInv /\ ServeInv
  BY TypeInit, ThreadInit, ServeInit
<1>2. TypeOK /\ WaitsForAWorker /\ ThreadInv /\ ServeInv /\ [Next]_vars
        => (TypeOK /\ WaitsForAWorker /\ ThreadInv /\ ServeInv)'
  BY TypeStep, WaitsForAWorkerStep, ThreadStep, ServeStep
<1>3. TypeOK /\ WaitsForAWorker /\ ServeInv /\ [Next]_vars => [LosesAbandoned]_vars
  BY LosesAbandonedStep
<1>4. LostOnlyWhenAbandoned <=> [][LosesAbandoned]_vars
  BY PTL DEF LostOnlyWhenAbandoned, LosesAbandoned
<1> QED
  BY <1>1, <1>2, <1>3, <1>4, PTL DEF Spec
-----------------------------------------------------------------------------
(* The names the server uses.  A setter assigns after it has given the mutex back,
   so this is about programs with one caller: with two the other one may be
   inside open(), or past it. *)
OneCaller == \A t, u \in Callers : t = u

NamesInv ==
    /\ NamesFixedWhileOpen
    /\ \A t \in Callers :
          /\ pc[t] \in {"socket", "listen", "start"} => context = fileNames
          /\ pc[t] \in {"setKey", "setCert"} => ~enabled

\* Nobody is inside a method at the start.
LEMMA NamesInit == Init => NamesInv
  BY DEF Init, NamesInv, NamesFixedWhileOpen

\* With one caller, no step changes a name while a context uses it.
LEMMA NamesStep ==
    ASSUME OneCaller, TypeOK, ThreadInv, NamesInv, [Next]_vars
    PROVE  NamesInv'
<1> USE ServerAssumption DEF NamesInv, NamesFixedWhileOpen
<1>1. ASSUME NEW t \in Callers, Caller(t) PROVE NamesInv'
  <2>1. pc \in [Callers -> CallerPcs] /\ mutex \in Callers \cup {NoOne}
    BY DEF TypeOK
  <2>2. /\ pc[t] \in InOpen => ~enabled
        /\ pc[t] = "join" => ~enabled
    BY DEF ThreadInv
  <2>3. \A u \in Callers : u = t
    BY DEF OneCaller
  <2> USE <2>1, <2>2, <2>3 DEF Goto, Return, InOpen
  <2>4. CASE Open(t) \/ Close(t)
    BY <2>4 DEF Open, Close
  <2>5. CASE CheckName(t)
    BY <2>5 DEF CheckName, IsOpen
  <2>6. CASE OpenContext(t)
    BY <2>6 DEF OpenContext
  <2>7. CASE OpenSocket(t)
    BY <2>7 DEF OpenSocket
  <2>8. CASE OpenListen(t)
    BY <2>8 DEF OpenListen
  <2>9. CASE OpenStart(t)
    BY <2>9 DEF OpenStart
  <2>10. CASE CloseJoined(t)
    BY <2>10 DEF CloseJoined
  <2>11. CASE AssignName(t)
    BY <2>11 DEF AssignName
  <2> QED
    BY <1>1, <2>4, <2>5, <2>6, <2>7, <2>8, <2>9, <2>10, <2>11 DEF Caller, InsideCall
<1>2. ASSUME ServerThread PROVE NamesInv'
  <2>1. UNCHANGED <<pc, enabled, context, fileNames>>
    BY <1>2
    DEF ServerThread, Move, Abandon, CheckEnabled, SelectTimeout, SelectFails,
        SelectReady, StopsBeforeAccept, AcceptFails, StopsAfterAccept,
        NonBlockingFails, BeginHandshake, GoesToAccept, GoesToBegin, Accept, HandshakeDone, HandshakeFails,
        StopWorker, JoinWorker, FinishRun
  <2> QED
    BY <2>1
<1>3. ASSUME NEW c \in Conns, Worker(c) \/ Peer(c) PROVE NamesInv'
  <2>1. UNCHANGED <<pc, enabled, context, fileNames>>
    BY <1>3
    DEF Worker, serverVars, Peer, Connect, Greet, SendGarbage, Leave, PeerMoves, Send
  <2> QED
    BY <2>1
<1>4. CASE UNCHANGED vars
  BY <1>4 DEF vars, serverVars
<1> QED
  BY <1>1, <1>2, <1>3, <1>4 DEF Next

\* As long as one thread calls the methods, an open server was configured from
\* the names it reports: the check of the setters, which is not held until they
\* assign, is enough (setKeyFileName, setCertFileName, Server::open).
THEOREM ReportsTheNamesInUse ==
    ASSUME OneCaller
    PROVE  Spec => []NamesFixedWhileOpen
<1>1. Init => TypeOK /\ WaitsForAWorker /\ ThreadInv /\ NamesInv
  BY TypeInit, ThreadInit, NamesInit
<1>2. TypeOK /\ WaitsForAWorker /\ ThreadInv /\ NamesInv /\ [Next]_vars
        => (TypeOK /\ WaitsForAWorker /\ ThreadInv /\ NamesInv)'
  BY TypeStep, WaitsForAWorkerStep, ThreadStep, NamesStep
<1>3. NamesInv => NamesFixedWhileOpen
  BY DEF NamesInv
<1> QED
  BY <1>1, <1>2, <1>3, PTL DEF Spec
-----------------------------------------------------------------------------
(* How close() gets to its end.  That it does under fairness is for TLC to check
   (CloseReturns); here is what that rests on.  The vector holds each worker
   once, none that has been joined, and only the one that is waited for has been
   told to end.  Without the second invariant run() might find in its hand a
   number that carries no connection. *)
Serving == {"read", "reading", "write", "close"}

\* run() calls accept() with a connection waiting: nobody else takes it away.
SomeoneWaits == srvPc \in {"ready", "accept"} => backlog # {}

VectorInv ==
    /\ \A i, j \in 1..Len(workers) : workers[i] = workers[j] => i = j
    /\ \A i \in 1..Len(workers) :
          /\ wPc[workers[i]] \in Serving \cup {"finished"}
          /\ wEnabled[workers[i]] <=> ~(srvPc = "join" /\ i = 1)

HandInv ==
    /\ InHand => desc[clientSocket] \in Conns
    /\ srvPc \notin {"stop", "join"} =>
          \A c \in Conns : wPc[c] \in Serving => wSock[c] \in Fds /\ desc[wSock[c]] = c

\* A worker that serves does not do so while no thread runs.
LEMMA NobodyServing ==
    ASSUME ServeInv, srvPc \in {"none", "finished"}
    PROVE  \A c \in Conns : wPc[c] \notin Serving
  BY DEF ServeInv, Listed, Serving

\* Every step keeps the vector free of repetitions and of workers that are gone.
LEMMA VectorStep ==
    TypeOK /\ ThreadInv /\ WaitsForAWorker /\ ServeInv /\ VectorInv /\ [Next]_vars
    => VectorInv'
<1> SUFFICES ASSUME TypeOK, ThreadInv, WaitsForAWorker, ServeInv, VectorInv, [Next]_vars
             PROVE  VectorInv'
  OBVIOUS
<1>0. /\ wPc \in [Conns -> WorkerPcs] /\ wEnabled \in [Conns -> BOOLEAN]
      /\ workers \in Seq(Conns) /\ Len(workers) \in Nat
  BY DEF TypeOK, WorkerTypeOK
<1> USE <1>0 DEF Serving
<1>1. ASSUME UNCHANGED <<workers, wPc, wEnabled>>, srvPc = "join" <=> srvPc' = "join"
      PROVE  VectorInv'
  BY <1>1 DEF VectorInv
<1>2. ASSUME NEW t \in Callers, Caller(t) PROVE VectorInv'
  <2>1. UNCHANGED <<workers, wPc, wEnabled>>
    BY <1>2
    DEF Caller, InsideCall, Open, Close, CheckName, OpenContext, OpenSocket,
        OpenListen, OpenStart, CloseJoined, AssignName, workerVars
  <2>2. srvPc = "join" <=> srvPc' = "join"
    BY <1>2
    DEF Caller, InsideCall, Open, Close, CheckName, OpenContext, OpenSocket,
        OpenListen, OpenStart, CloseJoined, AssignName, ThreadInv, InOpen
  <2> QED
    BY <1>1, <2>1, <2>2
<1>3. ASSUME ServerThread PROVE VectorInv'
  <2>1. CASE \/ CheckEnabled \/ SelectTimeout \/ SelectFails \/ SelectReady
             \/ StopsBeforeAccept \/ AcceptFails \/ GoesToAccept \/ GoesToBegin \/ BeginHandshake
             \/ StopsAfterAccept \/ NonBlockingFails \/ FinishRun
             \/ \E c \in Conns : Accept(c) \/ HandshakeFails(c)
    BY <1>1, <2>1
    DEF CheckEnabled, SelectTimeout, SelectFails, SelectReady, Move,
        StopsBeforeAccept, AcceptFails, BeginHandshake, GoesToAccept, GoesToBegin, StopsAfterAccept,
        NonBlockingFails, Abandon, FinishRun, Accept, HandshakeFails, workerVars
  <2>2. ASSUME NEW c \in Conns, HandshakeDone(c) PROVE VectorInv'
    <3>1. wPc[c] = "none" /\ srvPc = "handshake" /\ srvPc' = "loop"
      BY <2>2 DEF HandshakeDone, ServeInv, InHand
    <3>2. /\ \A d \in Conns : wPc'[d] = IF d = c THEN "read" ELSE wPc[d]
          /\ \A d \in Conns : wEnabled'[d] = IF d = c THEN TRUE ELSE wEnabled[d]
      BY <2>2 DEF HandshakeDone, StartWorker
    <3>3. /\ Len(workers') = Len(workers) + 1
          /\ \A i \in 1..Len(workers) : workers'[i] = workers[i]
          /\ workers'[Len(workers) + 1] = c
      BY <2>2 DEF HandshakeDone
    <3>4. \A i \in 1..Len(workers) : workers[i] \in Conns /\ workers[i] # c
      BY <3>1 DEF VectorInv
    <3>5. \A i \in 1..Len(workers') : i \in 1..Len(workers) \/ i = Len(workers) + 1
      BY <3>3
    <3>6. \A i, j \in 1..Len(workers') : workers'[i] = workers'[j] => i = j
      BY <3>3, <3>4, <3>5 DEF VectorInv
    <3>7. ASSUME NEW i \in 1..Len(workers')
          PROVE  /\ wPc'[workers'[i]] \in Serving \cup {"finished"}
                 /\ wEnabled'[workers'[i]]
      <4>1. CASE i \in 1..Len(workers)
        <5>1. workers'[i] = workers[i] /\ workers[i] \in Conns /\ workers[i] # c
          BY <3>3, <3>4, <4>1
        <5>2. wPc'[workers'[i]] = wPc[workers[i]] /\ wEnabled'[workers'[i]] = wEnabled[workers[i]]
          BY <3>2, <5>1
        <5>3. wPc[workers[i]] \in Serving \cup {"finished"} /\ wEnabled[workers[i]]
          BY <3>1, <4>1 DEF VectorInv
        <5> QED
          BY <5>2, <5>3
      <4>2. CASE i = Len(workers) + 1
        BY <3>2, <3>3, <4>2
      <4> QED
        BY <3>5, <4>1, <4>2
    <3> QED
      BY <3>1, <3>6, <3>7 DEF VectorInv
  <2>3. CASE StopWorker
    <3>1. Len(workers) > 0 /\ Head(workers) = workers[1] /\ workers[1] \in Conns
      BY <2>3 DEF StopWorker
    <3>2. /\ UNCHANGED <<workers, wPc>> /\ srvPc # "join" /\ srvPc' = "join"
          /\ wEnabled' = [wEnabled EXCEPT ![workers[1]] = FALSE]
      BY <2>3, <3>1 DEF StopWorker, SignalWorker
    <3>3. \A i \in 1..Len(workers) : wEnabled'[workers[i]] <=> i # 1
      BY <3>1, <3>2 DEF VectorInv
    <3> QED
      BY <3>2, <3>3 DEF VectorInv
  <2>4. CASE JoinWorker
    <3>1. Len(workers) > 0 /\ Head(workers) = workers[1] /\ workers[1] \in Conns
      BY <2>4 DEF JoinWorker, WaitsForAWorker
    <3>2. /\ srvPc = "join" /\ srvPc' = "stop" /\ wEnabled' = wEnabled
          /\ wPc' = [wPc EXCEPT ![workers[1]] = "joined"]
          /\ workers' = Tail(workers)
      BY <2>4, <3>1 DEF JoinWorker, ReapWorker
    <3>3. /\ Len(workers') = Len(workers) - 1
          /\ \A i \in 1..Len(workers') : workers'[i] = workers[i + 1] /\ i + 1 \in 1..Len(workers)
      BY <3>1, <3>2
    <3>4. ASSUME NEW i \in 1..Len(workers')
          PROVE  /\ wPc'[workers'[i]] \in Serving \cup {"finished"}
                 /\ wEnabled'[workers'[i]]
      <4>1. workers'[i] = workers[i + 1] /\ i + 1 \in 1..Len(workers) /\ i + 1 # 1
        BY <3>3
      <4>2. workers[i + 1] # workers[1] /\ wEnabled[workers[i + 1]]
            /\ wPc[workers[i + 1]] \in Serving \cup {"finished"}
        BY <3>1, <4>1 DEF VectorInv
      <4> QED
        BY <3>2, <4>1, <4>2
    <3>5. \A i, j \in 1..Len(workers') : workers'[i] = workers'[j] => i = j
      <4>1. ASSUME NEW i \in 1..Len(workers'), NEW j \in 1..Len(workers'),
                   workers'[i] = workers'[j]
            PROVE  i = j
        <5>1. i + 1 = j + 1
          BY <3>3, <4>1 DEF VectorInv
        <5> QED
          BY <5>1
      <4> QED
        BY <4>1
    <3> QED
      BY <3>2, <3>4, <3>5 DEF VectorInv
  <2> QED
    BY <1>3, <2>1, <2>2, <2>3, <2>4 DEF ServerThread
<1>4. ASSUME NEW c \in Conns, Worker(c) PROVE VectorInv'
  <2>1. /\ UNCHANGED <<workers, srvPc, wEnabled>>
        /\ \E to \in Serving \cup {"finished"} : wPc' = [wPc EXCEPT ![c] = to]
    BY <1>4
    DEF Worker, WorkerThread, WorkerProgress, WorkerChecks, WorkerRead,
      WorkerReadWaits, WorkerReadEnds, WorkerWrite,
        WorkerWriteEnds, WriteReturns, WorkerCloses, serverVars
  <2> QED
    BY <2>1 DEF VectorInv
<1>5. ASSUME NEW c \in Conns, Peer(c) PROVE VectorInv'
  BY <1>1, <1>5
  DEF Peer, Connect, Greet, SendGarbage, Leave, PeerMoves, Send, workerVars, serverVars
<1>6. CASE UNCHANGED vars
  BY <1>1, <1>6 DEF vars, workerVars, serverVars
<1> QED
  BY <1>2, <1>3, <1>4, <1>5, <1>6 DEF Next

\* Every step leaves the connection that run() brings into service in its hand,
\* and each session the descriptor it was accepted on until run() stops them.
LEMMA HandStep ==
    TypeOK /\ ThreadInv /\ WaitsForAWorker /\ ServeInv /\ ListenInv /\ HandInv /\ [Next]_vars
    => HandInv'
<1> SUFFICES ASSUME TypeOK, ThreadInv, WaitsForAWorker, ServeInv, ListenInv, HandInv,
                    [Next]_vars
             PROVE  HandInv'
  OBVIOUS
<1>0. /\ desc \in Tables /\ clientSocket \in MaybeFd /\ listenSocket \in MaybeFd
      /\ wPc \in [Conns -> WorkerPcs] /\ wSock \in [Conns -> MaybeFd]
      /\ {Free, Unbound, Listening} \cap Conns = {} /\ NoFd \notin Fds
  BY DescriptorsAssumption DEF TypeOK, WorkerTypeOK, Fds, NoFd
<1> USE <1>0
\* A step that moves no worker and takes from no descriptor the connection it carries.
<1>1. ASSUME UNCHANGED <<wPc, wSock, clientSocket>>,
             InHand' => InHand,
             srvPc' \notin {"stop", "join"} =>
                 srvPc \notin {"stop", "join"} \/ \A c \in Conns : wPc[c] \notin Serving,
             \A f \in Fds : desc[f] \in Conns => desc'[f] = desc[f]
      PROVE  HandInv'
  <2>1. InHand' => desc'[clientSocket'] \in Conns
    BY <1>1 DEF HandInv, ServeInv
  <2>2. ASSUME NEW c \in Conns, srvPc' \notin {"stop", "join"}, wPc'[c] \in Serving
        PROVE  wSock'[c] \in Fds /\ desc'[wSock'[c]] = c
    BY <1>1, <2>2 DEF HandInv
  <2> QED
    BY <2>1, <2>2 DEF HandInv
\* Closing the listening socket takes no connection's descriptor.
<1>2. ASSUME CloseListenSocket, listenSocket \in Fds => desc[listenSocket] \notin Conns
      PROVE  \A f \in Fds : desc[f] \in Conns => desc'[f] = desc[f]
  BY <1>2, OnlyThatDescriptor DEF CloseListenSocket, Release
<1>3. ASSUME NEW t \in Callers, Caller(t) PROVE HandInv'
  <2>1. UNCHANGED <<wPc, wSock, clientSocket>>
    BY <1>3
    DEF Caller, InsideCall, Open, Close, CheckName, OpenContext, OpenSocket,
        OpenListen, OpenStart, CloseJoined, AssignName, workerVars
  <2>2. /\ InHand' => InHand
        /\ srvPc' = srvPc \/ srvPc \in {"none", "finished"}
    BY <1>3
    DEF Caller, InsideCall, Open, Close, CheckName, OpenContext, OpenSocket, InHand,
        OpenListen, OpenStart, CloseJoined, AssignName, ThreadInv, InOpen
  <2>3. \A f \in Fds : desc[f] \in Conns => desc'[f] = desc[f]
    <3>1. CASE UNCHANGED desc
      BY <3>1
    <3>2. CASE OpenSocket(t)
      <4>1. CASE /\ listenSocket' \in LowestFree(desc)
                 /\ desc' = Install(desc, listenSocket', Unbound)
        BY <4>1, LowestFreeIsFree, OnlyThatDescriptor
      <4> QED
        BY <3>1, <3>2, <4>1 DEF OpenSocket
    <3>3. CASE OpenListen(t)
      <4>1. listenSocket \in Fds /\ desc[listenSocket] = Unbound
        BY <3>3 DEF OpenListen, ListenInv
      <4>2. CASE desc' = Install(desc, listenSocket, Listening)
        BY <4>1, <4>2, OnlyThatDescriptor
      <4> QED
        BY <1>2, <3>3, <4>1, <4>2 DEF OpenListen
    <3>4. CASE CloseJoined(t)
      <4>1. listenSocket = NoFd
        BY <3>4 DEF CloseJoined, ThreadInv, ListenInv
      <4> QED
        BY <1>2, <3>4, <4>1 DEF CloseJoined
    <3> QED
      BY <1>3, <3>1, <3>2, <3>3, <3>4
      DEF Caller, InsideCall, Open, Close, CheckName, OpenContext, OpenStart, AssignName
  <2> QED
    BY <1>1, <2>1, <2>2, <2>3, NobodyServing
<1>4. ASSUME ServerThread PROVE HandInv'
  <2>1. CASE \/ CheckEnabled \/ SelectTimeout \/ SelectFails \/ SelectReady
             \/ StopsBeforeAccept \/ AcceptFails \/ GoesToAccept \/ GoesToBegin \/ BeginHandshake \/ StopWorker
    BY <1>1, <2>1
    DEF CheckEnabled, SelectTimeout, SelectFails, SelectReady, Move, InHand, workerVars,
        StopsBeforeAccept, AcceptFails, BeginHandshake, GoesToAccept, GoesToBegin, StopWorker, SignalWorker
  <2>2. CASE StopsAfterAccept \/ NonBlockingFails
    BY <2>2 DEF StopsAfterAccept, NonBlockingFails, Abandon, HandInv, InHand, workerVars
  <2>3. ASSUME NEW c \in Conns, Accept(c) PROVE HandInv'
    <3>1. clientSocket' \in Fds /\ desc[clientSocket'] = Free
      BY <2>3, LowestFreeIsFree DEF Accept
    <3>2. /\ desc'[clientSocket'] = c
          /\ \A f \in Fds : f # clientSocket' => desc'[f] = desc[f]
      BY <2>3, <3>1, OnlyThatDescriptor DEF Accept
    <3>3. UNCHANGED <<wPc, wSock>> /\ srvPc = "accept"
      BY <2>3 DEF Accept, workerVars
    <3>4. ASSUME NEW d \in Conns, wPc[d] \in Serving PROVE wSock[d] \in Fds /\ desc'[wSock[d]] = d
      BY <3>1, <3>2, <3>3, <3>4 DEF HandInv
    <3> QED
      BY <3>2, <3>3, <3>4 DEF HandInv
  <2>4. ASSUME NEW c \in Conns, HandshakeDone(c) PROVE HandInv'
    <3>1. /\ clientSocket \in Fds /\ desc' = desc /\ desc[clientSocket] = c
          /\ srvPc = "handshake" /\ srvPc' = "loop"
          /\ \A d \in Conns : wSock'[d] = IF d = c THEN clientSocket ELSE wSock[d]
          /\ \A d \in Conns : d # c => wPc'[d] = wPc[d]
      BY <2>4 DEF HandshakeDone, StartWorker, ServeInv, InHand
    <3> QED
      BY <3>1 DEF HandInv, InHand
  <2>5. ASSUME NEW c \in Conns, HandshakeFails(c) PROVE HandInv'
    <3>1. /\ wPc[c] = "none" /\ desc[clientSocket] = c
          /\ UNCHANGED <<wPc, wSock>>
          /\ srvPc \in {"begin", "handshake"} /\ srvPc' = "loop"
      BY <2>5 DEF HandshakeFails, ServeInv, InHand, workerVars
    <3>2. \A f \in Fds : f # clientSocket => desc'[f] = desc[f]
      BY <2>5, OnlyThatDescriptor DEF HandshakeFails, Release
    <3>3. ASSUME NEW d \in Conns, wPc[d] \in Serving PROVE wSock[d] \in Fds /\ desc'[wSock[d]] = d
      <4>1. d # c
        BY <3>1, <3>3 DEF Serving
      <4> QED
        BY <3>1, <3>2, <3>3, <4>1 DEF HandInv
    <3> QED
      BY <3>1, <3>3 DEF HandInv, InHand
  <2>6. CASE JoinWorker
    BY <2>6 DEF JoinWorker, HandInv, InHand
  <2>7. CASE FinishRun
    <3>1. \A c \in Conns : wPc[c] \notin Serving
      BY <2>7 DEF FinishRun, ServeInv, Listed, Serving
    <3> QED
      BY <2>7, <3>1 DEF FinishRun, HandInv, InHand, workerVars
  <2> QED
    BY <1>4, <2>1, <2>2, <2>3, <2>4, <2>5, <2>6, <2>7 DEF ServerThread
<1>5. ASSUME NEW c \in Conns, Worker(c) PROVE HandInv'
  <2>1. /\ UNCHANGED <<clientSocket, srvPc>> /\ wPc[c] \in Serving
        /\ \A d \in Conns : d # c => wPc'[d] = wPc[d] /\ wSock'[d] = wSock[d]
    BY <1>5
    DEF Worker, WorkerThread, WorkerProgress, WorkerChecks, WorkerRead,
      WorkerReadWaits, WorkerReadEnds, WorkerWrite, Serving,
        WorkerWriteEnds, WriteReturns, WorkerCloses, serverVars
  <2>2. CASE UNCHANGED <<desc, wSock>>
    BY <2>1, <2>2 DEF HandInv, InHand
  <2>3. CASE WorkerCloses(c)
    <3>1. wPc'[c] = "finished" /\ desc' = Release(desc, wSock[c])
      BY <2>3 DEF WorkerCloses
    <3>2. \A f \in Fds : f # wSock[c] => desc'[f] = desc[f]
      BY <3>1, OnlyThatDescriptor DEF Release
    <3>3. ASSUME srvPc \notin {"stop", "join"}
          PROVE  \A f \in Fds : desc[f] \in Conns \ {c} => desc'[f] = desc[f]
      BY <2>1, <3>2, <3>3 DEF HandInv
    <3>4. ASSUME InHand PROVE desc'[clientSocket] \in Conns
      <4>1. desc[clientSocket] \in Conns /\ clientSocket \in Fds /\ srvPc \notin {"stop", "join"}
        BY <3>4 DEF HandInv, ServeInv, InHand
      <4>2. desc[clientSocket] # c
        BY <2>1, <3>4 DEF ServeInv, Serving
      <4> QED
        BY <3>3, <4>1, <4>2
    <3>5. ASSUME NEW d \in Conns, srvPc \notin {"stop", "join"}, wPc'[d] \in Serving
          PROVE  wSock'[d] \in Fds /\ desc'[wSock'[d]] = d
      <4>1. d # c
        BY <3>1, <3>5 DEF Serving
      <4>2. wSock'[d] = wSock[d] /\ wPc[d] \in Serving
        BY <2>1, <3>5, <4>1
      <4>3. wSock[d] \in Fds /\ desc[wSock[d]] = d
        BY <3>5, <4>2 DEF HandInv
      <4> QED
        BY <3>3, <3>5, <4>1, <4>2, <4>3
    <3> QED
      BY <2>1, <3>4, <3>5 DEF HandInv, InHand
  <2> QED
    BY <1>5, <2>2, <2>3
    DEF Worker, WorkerThread, WorkerProgress, WorkerChecks, WorkerRead,
      WorkerReadWaits, WorkerReadEnds, WorkerWrite,
        WorkerWriteEnds, WriteReturns
<1>6. ASSUME NEW c \in Conns, Peer(c) PROVE HandInv'
  BY <1>1, <1>6
  DEF Peer, Connect, Greet, SendGarbage, Leave, PeerMoves, Send, workerVars, serverVars,
      InHand
<1>7. CASE UNCHANGED vars
  BY <1>1, <1>7 DEF vars, workerVars, serverVars, InHand
<1> QED
  BY <1>3, <1>4, <1>5, <1>6, <1>7 DEF Next

\* Every step keeps a connection waiting for a run() that will accept it.
LEMMA SomeoneWaitsStep ==
    TypeOK /\ ThreadInv /\ SomeoneWaits /\ [Next]_vars => SomeoneWaits'
<1> SUFFICES ASSUME TypeOK, ThreadInv, SomeoneWaits, [Next]_vars PROVE SomeoneWaits'
  OBVIOUS
<1> USE DEF SomeoneWaits
<1>1. ASSUME NEW t \in Callers, Caller(t) PROVE SomeoneWaits'
  <2>1. CASE OpenListen(t)
    <3>1. srvPc = "none" /\ srvPc' = srvPc
      BY <2>1 DEF OpenListen, ThreadInv, InOpen
    <3> QED
      BY <3>1
  <2> QED
    BY <1>1, <2>1
    DEF Caller, InsideCall, Open, Close, CheckName, OpenContext, OpenSocket,
        OpenStart, CloseJoined, AssignName
<1>2. ASSUME ServerThread PROVE SomeoneWaits'
  BY <1>2
  DEF ServerThread, Move, Abandon, CheckEnabled, SelectTimeout, SelectFails,
      SelectReady, StopsBeforeAccept, GoesToAccept, AcceptFails, StopsAfterAccept,
      GoesToBegin, NonBlockingFails, BeginHandshake, Accept, HandshakeDone,
      HandshakeFails, StopWorker, JoinWorker, FinishRun
<1>3. ASSUME NEW c \in Conns, Worker(c) \/ Peer(c) PROVE SomeoneWaits'
  BY <1>3
  DEF Worker, serverVars, Peer, Connect, Greet, SendGarbage, Leave, PeerMoves, Send
<1>4. CASE UNCHANGED vars
  BY <1>4 DEF vars, serverVars
<1> QED
  BY <1>1, <1>2, <1>3, <1>4 DEF Next

\* At the start the vector is empty and nobody has anything in hand.
LEMMA CloseInit == Init => VectorInv /\ HandInv /\ SomeoneWaits
  BY DEF Init, WorkerInit, VectorInv, HandInv, InHand, Serving, SomeoneWaits

\* What a step of close() makes of the steps that are left.
Advances ==
    InClose /\ InClose' =>
        \/ StepsLeft' < StepsLeft
        \/ StepsLeft' = StepsLeft /\ UNCHANGED <<srvPc, workers>>

\* Every step lowers the steps left, or is one of somebody close() does not wait for.
LEMMA AdvancesStep ==
    TypeOK /\ ThreadInv /\ WaitsForAWorker /\ ServeInv /\ VectorInv /\ [Next]_vars
    => Advances
<1> SUFFICES ASSUME TypeOK, ThreadInv, WaitsForAWorker, ServeInv, VectorInv, [Next]_vars,
                    InClose, InClose'
             PROVE  \/ StepsLeft' < StepsLeft
                    \/ StepsLeft' = StepsLeft /\ UNCHANGED <<srvPc, workers>>
  BY DEF Advances
<1>0. /\ wPc \in [Conns -> WorkerPcs] /\ workers \in Seq(Conns) /\ Len(workers) \in Nat
      /\ pc \in [Callers -> CallerPcs] /\ ~enabled
  BY DEF TypeOK, WorkerTypeOK, InClose, ThreadInv
<1> USE <1>0
<1>1. \A c : StepsOfWorker(c) \in 0..4 /\ StepsOfWorker(c)' \in 0..4
  BY DEF StepsOfWorker
<1>2. ASSUME UNCHANGED <<srvPc, workers>>,
             srvPc = "join" => wPc'[Head(workers)] = wPc[Head(workers)]
      PROVE  StepsLeft' = StepsLeft
  BY <1>2 DEF StepsLeft, StepsOfWorker
<1>3. ASSUME NEW t \in Callers, Caller(t) PROVE StepsLeft' = StepsLeft /\ UNCHANGED <<srvPc, workers>>
  <2>1. PICK u \in Callers : pc[u] = "join" /\ mutex = u
    BY DEF InClose, ThreadInv, Inside
  <2>2. pc[t] \notin InOpen /\ (pc[t] = "join" => t = u)
    BY <2>1 DEF ThreadInv, Inside, InOpen
  <2>3. ~Open(t) /\ ~Close(t) /\ ~CheckName(t) /\ ~OpenContext(t) /\ ~OpenSocket(t)
        /\ ~OpenListen(t) /\ ~OpenStart(t)
    BY <2>1, <2>2, ServerAssumption
    DEF Open, Close, CheckName, OpenContext, OpenSocket, OpenListen, OpenStart, InOpen
  <2>4. ~CloseJoined(t)
    <3>1. SUFFICES ASSUME CloseJoined(t) PROVE FALSE
      OBVIOUS
    <3>2. \A v \in Callers : pc[v] = "join" => v = t
      BY <2>1, <3>1 DEF CloseJoined, ThreadInv, Inside
    <3>3. \A v \in Callers : pc'[v] = "join" => pc[v] = "join" /\ v # t
      BY <3>1 DEF CloseJoined, Return, Goto
    <3> QED
      BY <3>2, <3>3 DEF InClose
  <2>5. AssignName(t)
    BY <1>3, <2>3, <2>4 DEF Caller, InsideCall
  <2> QED
    BY <1>2, <2>5 DEF AssignName, workerVars
<1>4. ASSUME ServerThread PROVE StepsLeft' < StepsLeft
  <2>1. CASE \/ CheckEnabled \/ SelectTimeout \/ SelectFails \/ SelectReady
             \/ StopsBeforeAccept \/ AcceptFails \/ StopsAfterAccept \/ NonBlockingFails
             \/ BeginHandshake \/ \E c \in Conns : Accept(c)
    <3>1. /\ workers' = workers
          /\ \/ srvPc = "loop" /\ srvPc' = "stop"
             \/ srvPc = "select" /\ srvPc' \in {"loop", "stop", "ready"}
             \/ srvPc \in {"ready", "accepted"} /\ srvPc' = "stop"
             \/ srvPc = "accept" /\ srvPc' \in {"loop", "accepted"}
             \/ srvPc = "begin" /\ srvPc' \in {"loop", "handshake"}
      BY <2>1
      DEF CheckEnabled, SelectTimeout, SelectFails, SelectReady, Move, Abandon, Accept,
          StopsBeforeAccept, AcceptFails, StopsAfterAccept, NonBlockingFails,
          BeginHandshake
    <3> QED
      BY <3>1 DEF StepsLeft
  <2>2. ~GoesToAccept /\ ~GoesToBegin
    BY DEF GoesToAccept, GoesToBegin
  <2>3. ASSUME NEW c \in Conns, HandshakeDone(c) PROVE StepsLeft' < StepsLeft
    <3>1. Len(workers') = Len(workers) + 1 /\ srvPc = "handshake" /\ srvPc' = "loop"
      BY <2>3 DEF HandshakeDone
    <3> QED
      BY <3>1 DEF StepsLeft
  <2>4. ASSUME NEW c \in Conns, HandshakeFails(c) PROVE StepsLeft' < StepsLeft
    <3>1. workers' = workers /\ srvPc \in {"begin", "handshake"} /\ srvPc' = "loop"
      BY <2>4 DEF HandshakeFails
    <3> QED
      BY <3>1 DEF StepsLeft
  <2>5. CASE StopWorker
    <3>1. workers' = workers /\ srvPc = "stop" /\ srvPc' = "join"
      BY <2>5 DEF StopWorker
    <3>2. StepsLeft = 6 * Len(workers) + 1
          /\ StepsLeft' = 6 * Len(workers) + (StepsOfWorker(Head(workers))' - 4)
      BY <3>1 DEF StepsLeft, StepsOfWorker
    <3> QED
      BY <1>1, <3>2
  <2>6. CASE JoinWorker
    <3>1. /\ workers # <<>> /\ workers' = Tail(workers)
          /\ srvPc = "join" /\ srvPc' = "stop"
      BY <2>6 DEF JoinWorker, WaitsForAWorker
    <3>2. Len(workers') = Len(workers) - 1
      BY <3>1
    <3>3. StepsLeft = 6 * Len(workers) + (StepsOfWorker(Head(workers)) - 4)
          /\ StepsLeft' = 6 * Len(workers') + 1
      BY <3>1 DEF StepsLeft
    <3> QED
      BY <1>1, <3>2, <3>3
  <2>7. CASE FinishRun
    BY <2>7 DEF FinishRun, StepsLeft
  <2> QED
    BY <1>4, <2>1, <2>2, <2>3, <2>4, <2>5, <2>6, <2>7 DEF ServerThread
<1>5. ASSUME NEW c \in Conns, Worker(c)
      PROVE  /\ StepsLeft' < StepsLeft \/ StepsLeft' = StepsLeft
             /\ UNCHANGED <<srvPc, workers>>
  <2>1. UNCHANGED <<srvPc, workers>>
    BY <1>5 DEF Worker, serverVars
  <2>2. CASE srvPc = "join" /\ c = Head(workers)
    <3>1. workers # <<>> /\ c = workers[1] /\ ~wEnabled[c]
      BY <2>2 DEF VectorInv, WaitsForAWorker
    <3>2. \/ wPc[c] = "read" /\ wPc'[c] = "close"
          \/ wPc[c] = "reading" /\ wPc'[c] \in {"read", "write", "close"}
          \/ wPc[c] = "write" /\ wPc'[c] = "read"
          \/ wPc[c] = "close" /\ wPc'[c] = "finished"
      BY <1>5, <3>1
      DEF Worker, WorkerThread, WorkerProgress, WorkerChecks, WorkerRead,
      WorkerReadWaits, WorkerReadEnds, WorkerWrite,
          WorkerWriteEnds, WriteReturns, WorkerCloses
    <3>3. StepsOfWorker(c)' < StepsOfWorker(c)
      BY <3>2 DEF StepsOfWorker
    <3>4. /\ StepsLeft = 6 * Len(workers) + (StepsOfWorker(c) - 4)
          /\ StepsLeft' = 6 * Len(workers) + (StepsOfWorker(c)' - 4)
      BY <2>1, <2>2 DEF StepsLeft, StepsOfWorker
    <3>5. StepsOfWorker(c) \in 0..4 /\ StepsOfWorker(c)' \in 0..4
      BY DEF StepsOfWorker
    <3>6. StepsLeft' < StepsLeft
      BY <3>3, <3>4, <3>5
    <3> QED
      BY <2>1, <3>6
  <2>3. CASE ~(srvPc = "join" /\ c = Head(workers))
    <3>1. \A d \in Conns : d # c => wPc'[d] = wPc[d]
      BY <1>5
      DEF Worker, WorkerThread, WorkerProgress, WorkerChecks, WorkerRead,
      WorkerReadWaits, WorkerReadEnds, WorkerWrite,
          WorkerWriteEnds, WriteReturns, WorkerCloses
    <3>2. srvPc = "join" => Head(workers) \in Conns
      BY DEF WaitsForAWorker
    <3> QED
      BY <1>2, <2>1, <2>3, <3>1, <3>2
  <2> QED
    BY <2>2, <2>3
<1>6. ASSUME NEW c \in Conns, Peer(c) PROVE StepsLeft' = StepsLeft /\ UNCHANGED <<srvPc, workers>>
  BY <1>2, <1>6
  DEF Peer, Connect, Greet, SendGarbage, Leave, PeerMoves, Send, workerVars, serverVars
<1>7. CASE UNCHANGED vars
  BY <1>2, <1>7 DEF vars, workerVars, serverVars
<1> QED
  BY <1>3, <1>4, <1>5, <1>6, <1>7 DEF Next

\* The invariants close() rests on hold in every state.
LEMMA CloseAlways ==
    Spec => [](/\ TypeOK /\ WaitsForAWorker /\ ThreadInv /\ ServeInv /\ ListenInv
               /\ VectorInv /\ HandInv /\ SomeoneWaits)
<1>1. Init => /\ TypeOK /\ WaitsForAWorker /\ ThreadInv /\ ServeInv /\ ListenInv
              /\ VectorInv /\ HandInv /\ SomeoneWaits
  BY TypeInit, ThreadInit, ServeInit, ListenInit, CloseInit
<1>2. /\ TypeOK /\ WaitsForAWorker /\ ThreadInv /\ ServeInv /\ ListenInv
      /\ VectorInv /\ HandInv /\ SomeoneWaits /\ [Next]_vars
      => (/\ TypeOK /\ WaitsForAWorker /\ ThreadInv /\ ServeInv /\ ListenInv
          /\ VectorInv /\ HandInv /\ SomeoneWaits)'
  BY TypeStep, WaitsForAWorkerStep, ThreadStep, ServeStep, ListenStep, VectorStep,
     HandStep, SomeoneWaitsStep
<1> QED
  BY <1>1, <1>2, PTL DEF Spec

\* For any number of connections and callers and whatever fails: while close()
\* waits, every step of the thread it waits for brings it nearer its end; no step
\* of anybody else, a peer that connects or sends included, takes it back
\* (Server::close, Server::run, Worker::close, Worker::run).  What had looked at
\* enabled before close() cleared it is still done: one accept(), one connection
\* taken into service and, of each worker, one SSL_read; none of it a second time.
THEOREM CloseComesNearer == Spec => CloseAdvances
<1>1. TypeOK /\ ThreadInv /\ WaitsForAWorker /\ ServeInv /\ VectorInv /\ [Next]_vars
      => [Advances]_vars
  BY AdvancesStep
<1>2. CloseAdvances <=> [][Advances]_vars
  BY PTL DEF CloseAdvances, Advances
<1> QED
  BY <1>1, <1>2, CloseAlways, PTL DEF Spec

\* The one thing that can hold close() up, for as long as it lasts, is a peer that
\* has connected and says nothing: acceptTls waits for it and does not look at
\* enabled (OpenSslWrapper.cpp:116).  In every other state of a waiting close()
\* there is such a step: run() never calls accept() with nobody waiting, never
\* finds a number without a connection in its hand, and never comes to a worker
\* that has been told to end before, or that has been joined.
THEOREM CloseWaitsForSilenceOnly == Spec => []OnlySilenceStalls
<1>1. /\ TypeOK /\ WaitsForAWorker /\ ThreadInv /\ ServeInv /\ VectorInv /\ HandInv
      /\ SomeoneWaits
      => OnlySilenceStalls
  <2> SUFFICES ASSUME TypeOK, WaitsForAWorker, ThreadInv, ServeInv, VectorInv, HandInv,
                      SomeoneWaits, InClose, ~SilentHandshake
               PROVE  \/ srvPc \in {"loop", "select", "ready", "accepted", "begin",
                                   "finished"}
                      \/ srvPc = "accept" /\ backlog # {}
                      \/ /\ srvPc = "handshake"
                         /\ \E c \in Conns : /\ desc[clientSocket] = c
                                             /\ peer[c] \in {"greeted", "garbage", "gone"}
                      \/ srvPc = "stop" /\ (workers # <<>> => wEnabled[Head(workers)])
                      \/ /\ srvPc = "join" /\ ~wEnabled[Head(workers)]
                         /\ wPc[Head(workers)] \in {"read", "reading", "write", "close", "finished"}
    BY DEF OnlySilenceStalls
  <2>1. srvPc \in ServerPcs /\ srvPc # "none" /\ workers \in Seq(Conns)
    BY DEF TypeOK, InClose, ThreadInv
  <2>2. CASE srvPc = "handshake"
    <3>1. clientSocket \in Fds /\ desc[clientSocket] \in Conns
      BY <2>2 DEF HandInv, ServeInv, InHand
    <3>2. peer[desc[clientSocket]] \in Peers \ {"away", "silent"}
      BY <2>2, <3>1 DEF ServeInv, Carried, SilentHandshake, TypeOK, WorkerTypeOK
    <3> QED
      BY <2>2, <3>1, <3>2 DEF Peers
  <2>3. CASE srvPc \in {"stop", "join"} /\ workers # <<>>
    <3>1. 1 \in 1..Len(workers)
      <4>1. Len(workers) \in Nat /\ Len(workers) # 0
        BY <2>1, <2>3
      <4> QED
        BY <4>1
    <3>2. Head(workers) = workers[1]
      BY <2>1, <2>3
    <3>3. /\ wPc[workers[1]] \in {"read", "reading", "write", "close", "finished"}
          /\ wEnabled[workers[1]] <=> srvPc # "join"
      BY <3>1 DEF VectorInv, Serving
    <3> QED
      BY <2>3, <3>2, <3>3
  <2> QED
    BY <2>1, <2>2, <2>3 DEF ServerPcs, WaitsForAWorker, SomeoneWaits
<1> QED
  BY <1>1, CloseAlways, PTL
=============================================================================
