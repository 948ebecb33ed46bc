------------------------- MODULE PlainServer_proofs -------------------------
(* Machine-checked facts about PlainServer, for both platforms and every number
   of callers, connections and sockets, with and without failing calls. *)
EXTENDS PlainServer, TLAPS

\* Closing or installing a descriptor keeps the table well formed.
LEMMA TableTypes ==
    ASSUME NEW table \in Tables, NEW f, NEW file \in Files
    PROVE  Install(table, f, file) \in Tables /\ Release(table, f) \in Tables
  BY DEF Install, Release, Tables, Files

\* A call changes what its number refers to, and nothing else in the table.
LEMMA OnlyThatDescriptor ==
    ASSUME NEW table \in Tables, NEW f, NEW file
    PROVE  \A g \in Fds :
              /\ Install(table, f, file)[g] = IF g = f THEN file ELSE table[g]
              /\ Release(table, f)[g] = IF g = f THEN Free ELSE table[g]
  BY DEF Install, Release, Tables

\* run() waits for a worker only while its vector still holds that worker.
WaitsForAWorker == run.at = "join" => workers # <<>>

\* Closing the listening socket, which resets the backlog, keeps the types.
LEMMA CloseListenSocketTypes ==
    ASSUME TypeOK, CloseListenSocket
    PROVE  /\ desc' \in Tables /\ peer' \in [Conns -> {"away", "here", "gone"}]
           /\ backlog' \in SUBSET Conns
<1>1. desc' \in Tables
  BY TableTypes DEF CloseListenSocket, TypeOK, Files
<1>2. peer' \in [Conns -> {"away", "here", "gone"}]
  BY DEF CloseListenSocket, TypeOK
<1> QED
  BY <1>1, <1>2 DEF CloseListenSocket, TypeOK

\* What a worker remembers after closing is a number or none.
LEMMA AfterCloseType ==
    ASSUME TypeOK
    PROVE  AfterClose \in MaybeFd
  BY DEF AfterClose, TypeOK, ServerType, MaybeFd

(* The steps in which run() goes on, and those in which it forgets the socket it
   has just accepted. *)
GoesOn ==
    \/ LeaveLoop \/ SelectReady \/ StopsBeforeAccept
    \/ GoesToAccept \/ AcceptFails \/ GoesToBegin
GivesUp == StopsAfterAccept \/ NonBlockingFails

\* To go on changes the control point of run() only.
LEMMA GoesOnSteps ==
    ASSUME run \in RunType, GoesOn
    PROVE  /\ UNCHANGED <<platform, desc, peer, backlog, pc, mutex, server, workers, worker>>
           /\ run.at \in {"loop", "ready", "accept", "accepted"}
           /\ run'.at \in {"loop", "stop", "ready", "accept", "begin"}
           /\ run'.at = "begin" <=> run.at = "accepted"
           /\ run'.clientSocket = run.clientSocket /\ run' \in RunType
<1>1. ASSUME NEW from, NEW to, Move(from, to)
      PROVE  /\ UNCHANGED <<platform, desc, peer, backlog, pc, mutex, server, workers, worker>>
             /\ run.at = from /\ run'.at = to /\ run'.clientSocket = run.clientSocket
             /\ to \in RunPcs => run' \in RunType
  BY <1>1 DEF Move, RunType
<1> QED
  BY <1>1
  DEF GoesOn, LeaveLoop, SelectReady, StopsBeforeAccept, GoesToAccept, AcceptFails,
      GoesToBegin, RunPcs

\* To give up forgets the socket, and closes nothing.
LEMMA GivesUpSteps ==
    ASSUME run \in RunType, GivesUp
    PROVE  /\ UNCHANGED <<platform, desc, peer, backlog, pc, mutex, server, workers, worker>>
           /\ run.at \in {"accepted", "begin"} /\ run'.at \in {"loop", "stop"}
           /\ run'.clientSocket = NoFd /\ run' \in RunType
  BY DEF GivesUp, StopsAfterAccept, NonBlockingFails, Abandon, RunType, RunPcs, MaybeFd

\* What the server's thread may do.
LEMMA ServerSteps ==
    ASSUME ServerThread
    PROVE  \/ GoesOn \/ GivesUp \/ StopWorker \/ JoinWorker \/ FinishRun
           \/ \E c \in Conns : Accept(c) \/ StartWorker(c)
  BY DEF ServerThread, GoesOn, GivesUp

\* Every step keeps every variable in its type.
LEMMA TypeStep ==
    TypeOK /\ WaitsForAWorker /\ [Next]_vars => TypeOK' /\ WaitsForAWorker'
<1> SUFFICES ASSUME TypeOK, WaitsForAWorker, [Next]_vars
             PROVE  TypeOK' /\ WaitsForAWorker'
  OBVIOUS
<1> USE DEF TypeOK, WaitsForAWorker, CallerPcs, RunPcs
<1>1. ASSUME NEW t \in Callers, Open(t) \/ Close(t) \/ InsideCall(t)
      PROVE  TypeOK' /\ WaitsForAWorker'
  <2> USE DEF Goto, Return
  <2>1. CASE Open(t) \/ Close(t)
    BY <2>1 DEF Open, Close, ServerType
  <2>2. CASE OpenSocket(t)
    <3>1. desc' \in Tables
      BY <2>2, TableTypes DEF OpenSocket, Files
    <3>2. server' \in ServerType
      BY <2>2 DEF OpenSocket, ServerType, MaybeFd
    <3> QED
      BY <2>2, <3>1, <3>2 DEF OpenSocket
  <2>3. CASE OpenListen(t)
    <3>1. /\ desc' \in Tables /\ peer' \in [Conns -> {"away", "here", "gone"}]
          /\ backlog' \in SUBSET Conns
      BY <2>3, CloseListenSocketTypes, TableTypes DEF OpenListen, Files
    <3>2. server' \in ServerType
      BY <2>3, AfterCloseType DEF OpenListen, ServerType
    <3> QED
      BY <2>3, <3>1, <3>2 DEF OpenListen
  <2>4. CASE OpenStart(t)
    BY <2>4 DEF OpenStart, ServerType, RunType
  <2>5. CASE CloseJoined(t)
    <3>1. /\ desc' \in Tables /\ peer' \in [Conns -> {"away", "here", "gone"}]
          /\ backlog' \in SUBSET Conns
      BY <2>5, CloseListenSocketTypes DEF CloseJoined
    <3>2. server' \in ServerType /\ run' \in RunType /\ run'.at = "none"
      BY <2>5, AfterCloseType DEF CloseJoined, ServerType, RunType
    <3> QED
      BY <2>5, <3>1, <3>2 DEF CloseJoined
  <2> QED
    BY <1>1, <2>1, <2>2, <2>3, <2>4, <2>5 DEF InsideCall
<1>2. ASSUME ServerThread PROVE TypeOK' /\ WaitsForAWorker'
  <2>2. CASE GoesOn
    BY <2>2, GoesOnSteps
  <2>3. CASE GivesUp
    BY <2>3, GivesUpSteps
  <2>4. ASSUME NEW c \in Conns, Accept(c) PROVE TypeOK' /\ WaitsForAWorker'
    <3>1. desc' \in Tables
      BY <2>4, TableTypes DEF Accept, Files
    <3>2. run' \in RunType /\ run'.at = "accepted"
      BY <2>4 DEF Accept, RunType, MaybeFd
    <3> QED
      BY <2>4, <3>1, <3>2 DEF Accept
  <2>5. ASSUME NEW c \in Conns, StartWorker(c) PROVE TypeOK' /\ WaitsForAWorker'
    <3>1. worker' \in [Conns -> WorkerType]
      BY <2>5 DEF StartWorker, WorkerType, RunType
    <3> QED
      BY <2>5, <3>1 DEF StartWorker, RunType, MaybeFd
  <2>6. CASE StopWorker
    <3>1. Head(workers) \in Conns
      BY <2>6 DEF StopWorker
    <3>2. worker' \in [Conns -> WorkerType]
      BY <2>6, <3>1 DEF StopWorker, WorkerType
    <3> QED
      BY <2>6, <3>2 DEF StopWorker, RunType
  <2>7. CASE JoinWorker
    <3>1. Head(workers) \in Conns /\ workers' \in Seq(Conns)
      BY <2>7 DEF JoinWorker
    <3>2. worker' \in [Conns -> WorkerType]
      BY <2>7, <3>1 DEF JoinWorker, WorkerType, MaybeFd
    <3>3. desc' \in Tables
      BY <2>7, TableTypes DEF JoinWorker, Files
    <3> QED
      BY <2>7, <3>1, <3>2, <3>3 DEF JoinWorker, RunType
  <2>8. CASE FinishRun
    <3>1. server' \in ServerType /\ run' \in RunType /\ run'.at = "finished"
      BY <2>8, AfterCloseType DEF FinishRun, ServerType, RunType
    <3> QED
      BY <2>8, <3>1, CloseListenSocketTypes DEF FinishRun
  <2> QED
    BY <1>2, <2>2, <2>3, <2>4, <2>5, <2>6, <2>7, <2>8, ServerSteps
<1>3. ASSUME NEW c \in Conns, WorkerThread(c) PROVE TypeOK' /\ WaitsForAWorker'
  <2>1. CASE WorkerStops(c)
    BY <2>1 DEF WorkerStops, WorkerType
  <2>2. CASE WorkerCloses(c)
    <3>1. desc' \in Tables
      BY <2>2, TableTypes DEF WorkerCloses, Files
    <3>2. worker' \in [Conns -> WorkerType]
      <4>1. PICK n \in {NoFd, worker[c].clientSocket} :
               worker' = [worker EXCEPT ![c].at = "finished", ![c].running = FALSE,
                                        ![c].clientSocket = n]
        BY <2>2 DEF WorkerCloses
      <4> QED
        BY <4>1 DEF WorkerType, MaybeFd
    <3> QED
      BY <2>2, <3>1, <3>2 DEF WorkerCloses
  <2> QED
    BY <1>3, <2>1, <2>2 DEF WorkerThread
<1>4. ASSUME NEW c \in Conns, Connect(c) \/ Leave(c) PROVE TypeOK' /\ WaitsForAWorker'
  BY <1>4 DEF Connect, Leave
<1>5. CASE UNCHANGED vars
  BY <1>5 DEF vars
<1> QED
  BY <1>1, <1>2, <1>3, <1>4, <1>5 DEF Next

\* The types hold of a server that was never opened.
LEMMA TypeInit == Init => TypeOK /\ WaitsForAWorker
<1> SUFFICES ASSUME Init PROVE TypeOK /\ WaitsForAWorker
  OBVIOUS
<1>1. desc \in Tables /\ workers \in Seq(Conns)
  BY DEF Init, Tables, Files
<1>2. server \in ServerType /\ run \in RunType /\ worker \in [Conns -> WorkerType]
  BY DEF Init, ServerType, RunType, RunPcs, WorkerType, MaybeFd
<1> QED
  BY <1>1, <1>2 DEF Init, TypeOK, CallerPcs, WaitsForAWorker

\* The variables keep their types in every behaviour.
THEOREM TypeCorrect == Spec => []TypeOK
  BY TypeInit, TypeStep, PTL DEF Spec
-----------------------------------------------------------------------------
(* Who may have a server thread: the mutex decides, and whenever nobody holds
   it enabled and joinable agree. *)
InOpen == {"socket", "listen", "start"}
Running == run.at \notin {"none", "finished"}

ThreadInv ==
    /\ \A t \in Callers : pc[t] # "idle" <=> mutex = t
    /\ \A t \in Callers : pc[t] \in InOpen => ~server.enabled /\ ~server.joinable
    /\ \A t \in Callers : pc[t] = "join" => ~server.enabled /\ server.joinable
    /\ mutex = NoOne => (server.enabled <=> server.joinable)
    /\ server.joinable <=> run.at # "none"

(* Connections and their workers, as in the TLS server: nobody is served twice
   and every worker at work is in the vector. *)
InHand == run.at \in {"accepted", "begin"}
Carried(c) == \E f \in Fds : desc[f] = c
Listed(c) == \E i \in 1..Len(workers) : workers[i] = c

ServeInv ==
    /\ InHand => run.clientSocket \in Fds
    /\ ~InHand => run.clientSocket = NoFd
    /\ InHand => \A c \in Conns : desc[run.clientSocket] = c => worker[c].at = "none"
    /\ \A c \in Conns : c \in backlog => worker[c].at = "none" /\ ~Carried(c)
    /\ \A c \in Conns :
          peer[c] = "away" =>
             worker[c].at = "none" /\ c \notin backlog /\ ~Carried(c)
    /\ \A c \in Conns : worker[c].at \notin {"none", "joined"} => Listed(c)
    /\ \A c \in Conns :
          worker[c].at \in {"none", "joined"} => worker[c].clientSocket = NoFd
    /\ ~Running => workers = <<>>

(* The listening socket.  Only Linux lets go of it; while run() executes it is
   there on both platforms and no worker holds its number. *)
ListenInv ==
    /\ \A t \in Callers :
          /\ pc[t] = "listen" =>
                server.listenSocket \in Fds /\ desc[server.listenSocket] = Unbound
          /\ pc[t] = "start" =>
                server.listenSocket \in Fds /\ desc[server.listenSocket] = Listening
    /\ RunListens
    /\ Running => /\ run.clientSocket # server.listenSocket
                  /\ \A c \in Conns : worker[c].clientSocket # server.listenSocket
    /\ platform = "linux" =>
          /\ \A f \in Fds : desc[f] \in {Unbound, Listening} => f = server.listenSocket
          /\ \A t \in Callers : pc[t] = "socket" => server.listenSocket = NoFd
          /\ mutex = NoOne /\ run.at = "none" => server.listenSocket = NoFd
          /\ run.at = "finished" => server.listenSocket = NoFd

(* The socket of a connection that is served. *)
Forgets == platform = "windows" \/ ~CloseMayFail

OwnInv ==
    Forgets =>
        \A c \in Conns :
            /\ worker[c].at \in {"serve", "close"} =>
                  /\ worker[c].clientSocket \in Fds
                  /\ desc[worker[c].clientSocket] = c
            /\ worker[c].at = "finished" => worker[c].clientSocket = NoFd
-----------------------------------------------------------------------------
\* Every step keeps callers, mutex, enabled and the thread in agreement.
LEMMA ThreadStep == TypeOK /\ ThreadInv /\ [Next]_vars => ThreadInv'
<1> SUFFICES ASSUME TypeOK, ThreadInv, [Next]_vars PROVE ThreadInv'
  OBVIOUS
<1>0. /\ pc \in [Callers -> CallerPcs] /\ mutex \in Callers \cup {NoOne}
      /\ server \in ServerType /\ run \in RunType
  BY DEF TypeOK
<1> USE <1>0, PlainAssumption DEF ThreadInv, InOpen
<1>1. ASSUME NEW t \in Callers, Open(t) \/ Close(t) \/ InsideCall(t)
      PROVE  ThreadInv'
  <2> USE DEF Goto, Return, ServerType, RunType
  <2>1. CASE Open(t)
    BY <2>1 DEF Open
  <2>2. CASE Close(t)
    BY <2>2 DEF Close
  <2>3. CASE OpenSocket(t)
    BY <2>3 DEF OpenSocket
  <2>4. CASE OpenListen(t)
    BY <2>4 DEF OpenListen
  <2>5. CASE OpenStart(t)
    BY <2>5 DEF OpenStart
  <2>6. CASE CloseJoined(t)
    BY <2>6 DEF CloseJoined
  <2> QED
    BY <1>1, <2>1, <2>2, <2>3, <2>4, <2>5, <2>6 DEF InsideCall
<1>2. ASSUME ServerThread PROVE ThreadInv'
  <2>1. /\ UNCHANGED <<pc, mutex>> /\ server'.enabled = server.enabled
        /\ server'.joinable = server.joinable
        /\ run.at # "none" /\ run'.at # "none"
    <3>2. CASE GoesOn \/ GivesUp
      BY <3>2, GoesOnSteps, GivesUpSteps
    <3>3. CASE FinishRun
      BY <3>3 DEF FinishRun, RunType, ServerType
    <3>4. CASE \/ StopWorker \/ JoinWorker
               \/ \E c \in Conns : Accept(c) \/ StartWorker(c)
      BY <3>4 DEF Accept, StartWorker, StopWorker, JoinWorker, RunType
    <3> QED
      BY <1>2, <3>2, <3>3, <3>4, ServerSteps
  <2> QED
    BY <2>1
<1>3. ASSUME NEW c \in Conns, WorkerThread(c) \/ Connect(c) \/ Leave(c)
      PROVE  ThreadInv'
  BY <1>3 DEF WorkerThread, WorkerStops, WorkerCloses, Connect, Leave
<1>4. CASE UNCHANGED vars
  BY <1>4 DEF vars
<1> QED
  BY <1>1, <1>2, <1>3, <1>4 DEF Next

\* A new server has no thread, and nobody is in a method.
LEMMA ThreadInit == Init => ThreadInv
  BY PlainAssumption DEF Init, ThreadInv, InOpen
-----------------------------------------------------------------------------
\* Releasing a number gives no connection a descriptor.
LEMMA ReleaseCarries ==
    ASSUME desc \in Tables, NEW g, desc' = Release(desc, g)
    PROVE  /\ \A c \in Conns : Carried(c)' => Carried(c)
           /\ \A f \in Fds, c \in Conns : desc'[f] = c => desc[f] = c
           /\ \A f \in Fds : f # g => desc'[f] = desc[f]
           /\ \A f \in Fds : desc'[f] \in {desc[f], Free}
  BY DescriptorsAssumption DEF Release, Carried, Tables

\* Installing a file that is not a connection, neither.
LEMMA InstallCarries ==
    ASSUME desc \in Tables, NEW g \in Fds, NEW file \in {Unbound, Listening},
           desc' = Install(desc, g, file)
    PROVE  /\ \A c \in Conns : Carried(c)' => Carried(c)
           /\ \A f \in Fds, c \in Conns : desc'[f] = c => desc[f] = c
           /\ \A f \in Fds : f # g => desc'[f] = desc[f]
           /\ desc'[g] = file
  BY DescriptorsAssumption DEF Install, Carried, Tables

\* Every step keeps workers that are not joined in the vector.
LEMMA ServeStep ==
    TypeOK /\ ThreadInv /\ WaitsForAWorker /\ ServeInv /\ [Next]_vars => ServeInv'
<1> SUFFICES ASSUME TypeOK, ThreadInv, WaitsForAWorker, ServeInv, [Next]_vars
             PROVE  ServeInv'
  OBVIOUS
<1>0. /\ desc \in Tables /\ peer \in [Conns -> {"away", "here", "gone"}]
      /\ worker \in [Conns -> WorkerType] /\ run \in RunType
      /\ workers \in Seq(Conns) /\ pc \in [Callers -> CallerPcs]
  BY DEF TypeOK
<1> USE <1>0
\* A step that gives no connection a descriptor and no worker anything to do.
<1>1. ASSUME UNCHANGED <<worker, workers>>, run'.clientSocket = run.clientSocket,
             InHand' <=> InHand,
             run'.at \in {"none", "finished"} => workers = <<>>,
             \A c \in Conns : Carried(c)' => Carried(c),
             \A f \in Fds, c \in Conns : desc'[f] = c => desc[f] = c,
             \A c \in Conns : peer'[c] = "away" => peer[c] = "away",
             backlog' \subseteq backlog
      PROVE  ServeInv'
  BY <1>1 DEF ServeInv, Listed, Running
<1>2. ASSUME CloseListenSocket
      PROVE  /\ \A c \in Conns : Carried(c)' => Carried(c)
             /\ \A f \in Fds, c \in Conns : desc'[f] = c => desc[f] = c
             /\ \A c \in Conns : peer'[c] = "away" => peer[c] = "away"
             /\ backlog' \subseteq backlog
  BY <1>2, ReleaseCarries DEF CloseListenSocket, Carried
<1>3. ASSUME NEW t \in Callers, Open(t) \/ Close(t) \/ InsideCall(t) PROVE ServeInv'
  <2>0. ~Running => workers = <<>>
    BY DEF ServeInv
  <2>1. CASE Open(t) \/ Close(t)
    BY <2>0, <2>1, <1>1 DEF Open, Close, Running, Carried, InHand
  <2>2. CASE OpenSocket(t)
    <3>1. CASE UNCHANGED desc
      BY <2>0, <2>2, <3>1, <1>1 DEF OpenSocket, Running, Carried, InHand
    <3>2. CASE \E f \in Fds : desc' = Install(desc, f, Unbound)
      BY <2>0, <2>2, <3>2, <1>1, InstallCarries DEF OpenSocket, Running, InHand
    <3> QED
      BY <2>2, <3>1, <3>2 DEF OpenSocket
  <2>3. CASE OpenListen(t)
    <3>1. CASE desc' = Install(desc, server.listenSocket, Listening) /\ UNCHANGED <<peer, backlog>>
      <4>1. /\ \A c \in Conns : Carried(c)' => Carried(c)
            /\ \A f \in Fds, c \in Conns : desc'[f] = c => desc[f] = c
        BY <3>1, DescriptorsAssumption DEF Install, Carried, Tables
      <4> QED
        BY <2>0, <2>3, <3>1, <4>1, <1>1 DEF OpenListen, Running, InHand
    <3>2. CASE CloseListenSocket
      BY <2>0, <2>3, <3>2, <1>1, <1>2 DEF OpenListen, Running, InHand
    <3> QED
      BY <2>3, <3>1, <3>2 DEF OpenListen
  <2>4. CASE OpenStart(t)
    <3>1. run.at = "none"
      BY <2>4 DEF OpenStart, ThreadInv, InOpen
    <3>2. run'.at = "loop" /\ run'.clientSocket = run.clientSocket
      BY <2>4 DEF OpenStart, RunType
    <3> QED
      BY <2>4, <3>1, <3>2, <1>1 DEF OpenStart, Carried, InHand
  <2>5. CASE CloseJoined(t)
    <3>1. run'.at = "none" /\ run'.clientSocket = run.clientSocket /\ run.at = "finished"
      BY <2>5 DEF CloseJoined, RunType
    <3> QED
      BY <2>0, <2>5, <3>1, <1>1, <1>2 DEF CloseJoined, Running, InHand
  <2> QED
    BY <1>3, <2>1, <2>2, <2>3, <2>4, <2>5 DEF InsideCall
<1>4. ASSUME ServerThread PROVE ServeInv'
  <2>1. CASE GoesOn
    BY <2>1, <1>1, GoesOnSteps DEF Carried, InHand
  <2>2. CASE GivesUp
    BY <2>2, GivesUpSteps DEF ServeInv, InHand, Carried, Listed, Running
  <2>3. ASSUME NEW c \in Conns, Accept(c) PROVE ServeInv'
    <3>0. PICK n \in Fds : /\ NewSocket(n) /\ desc' = Install(desc, n, c)
                           /\ run' = [at |-> "accepted", clientSocket |-> n]
      BY <2>3 DEF Accept
    <3>1. desc[n] = Free /\ run'.at = "accepted" /\ run'.clientSocket = n
      BY <3>0 DEF NewSocket, FreeFds
    <3>2. \A f \in Fds : desc'[f] = IF f = n THEN c ELSE desc[f]
      BY <3>0, OnlyThatDescriptor
    <3>3. worker[c].at = "none" /\ ~Carried(c) /\ peer[c] # "away"
      BY <2>3 DEF ServeInv, Accept
    <3>4. \A d \in Conns : d # c => (Carried(d)' <=> Carried(d))
      BY <3>1, <3>2, DescriptorsAssumption DEF Carried
    <3>5. UNCHANGED <<peer, worker, workers>> /\ backlog' = backlog \ {c}
      BY <2>3 DEF Accept
    <3> QED
      BY <3>1, <3>2, <3>3, <3>4, <3>5 DEF ServeInv, Listed, InHand, Running
  <2>4. ASSUME NEW c \in Conns, StartWorker(c) PROVE ServeInv'
    <3>1. Carried(c) /\ worker[c].at = "none" /\ UNCHANGED <<desc, peer, backlog>>
      BY <2>4 DEF StartWorker, ServeInv, Carried, InHand
    <3>2. /\ \A d \in Conns : Listed(d) => Listed(d)'
          /\ Listed(c)'
      BY <2>4 DEF StartWorker, Listed
    <3>3. \A d \in Conns : d # c => worker'[d] = worker[d]
      BY <2>4 DEF StartWorker
    <3>4. worker'[c].at = "serve" /\ c \notin backlog /\ peer[c] # "away"
      BY <2>4, <3>1 DEF StartWorker, ServeInv
    <3>5. run'.at = "loop" /\ run'.clientSocket = NoFd
      BY <2>4 DEF StartWorker
    <3>6. \A d \in Conns : Carried(d)' <=> Carried(d)
      BY <3>1 DEF Carried
    <3> QED
      BY <3>1, <3>2, <3>3, <3>4, <3>5, <3>6 DEF ServeInv, InHand, Running
  <2>5. CASE StopWorker
    <3>1. /\ UNCHANGED <<desc, peer, backlog, workers>>
          /\ run.at = "stop" /\ run'.at = "join" /\ run'.clientSocket = run.clientSocket
      BY <2>5 DEF StopWorker, RunType
    <3>2. \A d \in Conns : /\ worker'[d].at = worker[d].at
                           /\ worker'[d].clientSocket = worker[d].clientSocket
      <4>1. PICK h \in Conns : worker' = [worker EXCEPT ![h].enabled = FALSE]
        <5>1. Head(workers) \in Conns
          BY <2>5 DEF StopWorker
        <5> QED
          BY <2>5, <5>1 DEF StopWorker
      <4> QED
        BY <4>1 DEF WorkerType
    <3> QED
      BY <3>1, <3>2 DEF ServeInv, InHand, Carried, Listed, Running
  <2>6. CASE JoinWorker
    <3>0. PICK h \in Conns : h = Head(workers)
      BY <2>6 DEF JoinWorker, WaitsForAWorker
    <3>1. /\ run.at = "join" /\ run'.at = "stop" /\ UNCHANGED <<peer, backlog>>
          /\ run'.clientSocket = run.clientSocket
      BY <2>6 DEF JoinWorker, RunType
    <3>2. \A d \in Conns : d # h => (Listed(d) => Listed(d)')
      <4>1. workers # <<>> /\ workers' = Tail(workers)
        BY <2>6 DEF JoinWorker, WaitsForAWorker
      <4>2. ASSUME NEW d \in Conns, d # h, NEW i \in 1..Len(workers), workers[i] = d
            PROVE  Listed(d)'
        <5>1. i # 1
          BY <3>0, <4>1, <4>2
        <5>2. i - 1 \in 1..Len(workers') /\ workers'[i - 1] = d
          BY <4>1, <4>2, <5>1
        <5> QED
          BY <5>2 DEF Listed
      <4> QED
        BY <4>2 DEF Listed
    <3>3. /\ worker[h].at = "finished" /\ worker'[h].at = "joined"
          /\ worker'[h].clientSocket = NoFd
          /\ \A d \in Conns : d # h => worker'[d] = worker[d]
      BY <2>6, <3>0 DEF JoinWorker, WorkerType
    <3>4. \A d \in Conns : Carried(d)' => Carried(d)
      BY <2>6, ReleaseCarries DEF JoinWorker
    <3> QED
      BY <3>1, <3>2, <3>3, <3>4 DEF ServeInv, InHand, Running
  <2>7. CASE FinishRun
    <3>1. run'.at = "finished" /\ run'.clientSocket = run.clientSocket /\ run.at = "stop"
      BY <2>7 DEF FinishRun, RunType
    <3> QED
      BY <2>7, <3>1, <1>1, <1>2 DEF FinishRun, InHand
  <2> QED
    BY <1>4, <2>1, <2>2, <2>3, <2>4, <2>5, <2>6, <2>7, ServerSteps
<1>5. ASSUME NEW c \in Conns, WorkerThread(c) PROVE ServeInv'
  <2>1. /\ UNCHANGED <<run, workers, peer, backlog>>
        /\ worker[c].at \in {"serve", "close"} /\ worker'[c].at \in {"close", "finished"}
        /\ \A d \in Conns : d # c => worker'[d] = worker[d]
    BY <1>5 DEF WorkerThread, WorkerStops, WorkerCloses, WorkerType
  <2>2. /\ \A d \in Conns : Carried(d)' => Carried(d)
        /\ \A f \in Fds, d \in Conns : desc'[f] = d => desc[f] = d
    <3>1. CASE UNCHANGED desc
      BY <3>1 DEF Carried
    <3>2. CASE desc' = Release(desc, worker[c].clientSocket)
      BY <3>2, ReleaseCarries
    <3> QED
      BY <1>5, <3>1, <3>2 DEF WorkerThread, WorkerStops, WorkerCloses
  <2> QED
    BY <2>1, <2>2 DEF ServeInv, InHand, Listed, Running
<1>6. ASSUME NEW c \in Conns, Connect(c) PROVE ServeInv'
  BY <1>6 DEF Connect, ServeInv, InHand, Carried, Listed, Running
<1>7. ASSUME NEW c \in Conns, Leave(c) PROVE ServeInv'
  BY <1>7 DEF Leave, ServeInv, InHand, Carried, Listed, Running
<1>8. CASE UNCHANGED vars
  BY <1>8, <1>1 DEF vars, Carried, ServeInv, Running, InHand
<1> QED
  BY <1>3, <1>4, <1>5, <1>6, <1>7, <1>8 DEF Next

\* A new server serves nobody.
LEMMA ServeInit == Init => ServeInv
<1> SUFFICES ASSUME Init PROVE ServeInv
  OBVIOUS
<1>1. run.at = "none" /\ run.clientSocket = NoFd /\ workers = <<>> /\ backlog = {}
  BY DEF Init
<1>2. \A c \in Conns : worker[c].at = "none" /\ worker[c].clientSocket = NoFd
  BY DEF Init
<1>3. \A c \in Conns : ~Carried(c)
  BY DescriptorsAssumption DEF Init, Carried
<1> QED
  BY <1>1, <1>2, <1>3 DEF ServeInv, InHand, Running
-----------------------------------------------------------------------------
\* When no thread of the server is left, no worker is at work or holds a number.
LEMMA NobodyServes ==
    ASSUME ServeInv, ~Running
    PROVE  /\ run.clientSocket = NoFd
           /\ \A c \in Conns : /\ worker[c].at \in {"none", "joined"}
                               /\ worker[c].clientSocket = NoFd
<1>1. \A c \in Conns : ~Listed(c)
  BY DEF ServeInv, Listed
<1> QED
  BY <1>1 DEF ServeInv, InHand, Running

\* open() starts a thread only when the last one is joined and all its workers
\* are, on both platforms and whichever socket call failed before.
THEOREM OpensWithoutLeftovers == Spec => []StartsAlone
<1>1. Init => TypeOK /\ WaitsForAWorker /\ ThreadInv /\ ServeInv
  BY TypeInit, ThreadInit, ServeInit
<1>2. TypeOK /\ WaitsForAWorker /\ ThreadInv /\ ServeInv /\ [Next]_vars
        => (TypeOK /\ WaitsForAWorker /\ ThreadInv /\ ServeInv)'
  BY TypeStep, ThreadStep, ServeStep
<1>3. ThreadInv /\ ServeInv => StartsAlone
  <2> SUFFICES ASSUME ThreadInv, ServeInv, NEW t \in Callers, pc[t] = "start"
               PROVE  /\ ~server.joinable /\ run.at = "none"
                      /\ \A c \in Conns : worker[c].at \in {"none", "joined"}
    BY DEF StartsAlone
  <2>1. ~server.joinable /\ run.at = "none"
    BY DEF ThreadInv, InOpen
  <2> QED
    BY <2>1, NobodyServes DEF Running
<1> QED
  BY <1>1, <1>2, <1>3, PTL DEF Spec
-----------------------------------------------------------------------------
(* The refinement of ServerLife, in the words of its refinement mapping. *)
LifeNow ==
    IF server.enabled THEN "open"
    ELSE IF \E t \in Callers : pc[t] = "join" THEN "closing" ELSE "closed"
ServedNow == {c \in Conns : worker[c].at \in {"serve", "close"}}
EndedNow == {c \in Conns : worker[c].at \in {"finished", "joined"}}

\* Every step is one of ServerLife or changes nothing of it.
LEMMA LifeStep ==
    /\ TypeOK /\ ThreadInv /\ WaitsForAWorker /\ ServeInv
    /\ [Next]_vars
    => [Life!Next]_(Life!lifeVars)
<1> SUFFICES ASSUME TypeOK, ThreadInv, WaitsForAWorker, ServeInv, [Next]_vars
             PROVE  [Life!Next]_(Life!lifeVars)
  OBVIOUS
<1>0. /\ worker \in [Conns -> WorkerType] /\ pc \in [Callers -> CallerPcs]
      /\ mutex \in Callers \cup {NoOne} /\ server \in ServerType /\ run \in RunType
  BY DEF TypeOK
<1> USE <1>0
\* A stutter, an Opens, a Closes, a Closed, a Serves and a Finishes, in the
\* words of the mapping.
<1>1. \/ UNCHANGED <<LifeNow, ServedNow, EndedNow>>
      \/ LifeNow = "closed" /\ LifeNow' = "open" /\ UNCHANGED <<ServedNow, EndedNow>>
      \/ LifeNow = "open" /\ LifeNow' = "closing" /\ UNCHANGED <<ServedNow, EndedNow>>
      \/ /\ LifeNow = "closing" /\ ServedNow = {} /\ LifeNow' = "closed"
         /\ UNCHANGED <<ServedNow, EndedNow>>
      \/ \E c \in Conns :
            \/ /\ LifeNow # "closed" /\ c \notin ServedNow \cup EndedNow
               /\ ServedNow' = ServedNow \cup {c} /\ UNCHANGED <<LifeNow, EndedNow>>
            \/ /\ c \in ServedNow /\ ServedNow' = ServedNow \ {c}
               /\ EndedNow' = EndedNow \cup {c} /\ UNCHANGED LifeNow
      => [Life!Next]_(Life!lifeVars)
  BY Zenon
  DEF LifeNow, ServedNow, EndedNow, Life!lifeVars, Life!Next, Life!Opens,
      Life!Closes, Life!Closed, Life!Serves, Life!Finishes
<1>2. UNCHANGED worker => UNCHANGED <<ServedNow, EndedNow>>
  BY DEF ServedNow, EndedNow
<1>3. UNCHANGED pc /\ server'.enabled = server.enabled => UNCHANGED LifeNow
  BY DEF LifeNow
<1>4. ASSUME NEW t \in Callers, Open(t) \/ Close(t) \/ InsideCall(t)
      PROVE  [Life!Next]_(Life!lifeVars)
  <2> USE PlainAssumption DEF Goto, Return
  <2>1. UNCHANGED worker
    BY <1>4 DEF InsideCall, Open, Close, OpenSocket, OpenListen, OpenStart, CloseJoined
  <2>2. CASE Open(t) \/ OpenSocket(t) \/ OpenListen(t)
    <3>1. /\ server'.enabled = server.enabled
          /\ pc[t] # "join" /\ \E at : at # "join" /\ pc' = [pc EXCEPT ![t] = at]
      BY <2>2 DEF Open, OpenSocket, OpenListen, ServerType
    <3>2. \A u \in Callers : pc'[u] = "join" <=> pc[u] = "join"
      BY <3>1
    <3>3. UNCHANGED LifeNow
      BY <3>1, <3>2 DEF LifeNow
    <3> QED
      BY <1>1, <1>2, <2>1, <3>3
  <2>3. CASE OpenStart(t)
    <3>1. ~server.enabled /\ server'.enabled /\ \A u \in Callers : pc[u] # "join"
      BY <2>3 DEF OpenStart, ThreadInv, InOpen, ServerType
    <3>2. LifeNow = "closed" /\ LifeNow' = "open"
      BY <3>1 DEF LifeNow
    <3> QED
      BY <1>1, <1>2, <2>1, <3>2
  <2>4. CASE Close(t)
    <3>1. server.enabled /\ ~server'.enabled /\ pc'[t] = "join"
      BY <2>4 DEF Close, ServerType
    <3>2. LifeNow = "open" /\ LifeNow' = "closing"
      BY <3>1 DEF LifeNow
    <3> QED
      BY <1>1, <1>2, <2>1, <3>2
  <2>5. CASE CloseJoined(t)
    <3>1. /\ ~server.enabled /\ ~server'.enabled /\ pc[t] = "join"
          /\ run.at = "finished" /\ \A u \in Callers : pc'[u] # "join"
      BY <2>5 DEF CloseJoined, ThreadInv, ServerType
    <3>2. LifeNow = "closing" /\ LifeNow' = "closed"
      BY <3>1 DEF LifeNow
    <3>3. ServedNow = {}
      BY <3>1, NobodyServes DEF ServedNow, Running
    <3> QED
      BY <1>1, <1>2, <2>1, <3>2, <3>3
  <2> QED
    BY <1>4, <2>2, <2>3, <2>4, <2>5 DEF InsideCall
<1>5. ASSUME ServerThread PROVE [Life!Next]_(Life!lifeVars)
  <2>1. UNCHANGED pc /\ server'.enabled = server.enabled
    BY <1>5, ServerSteps, GoesOnSteps, GivesUpSteps
    DEF Accept, StartWorker, StopWorker, JoinWorker, FinishRun, ServerType
  <2>2. CASE GoesOn \/ GivesUp \/ FinishRun \/ \E c \in Conns : Accept(c)
    <3>1. UNCHANGED worker
      BY <2>2, GoesOnSteps, GivesUpSteps DEF FinishRun, Accept
    <3> QED
      BY <1>1, <1>2, <1>3, <2>1, <3>1
  <2>3. ASSUME NEW c \in Conns, StartWorker(c) PROVE [Life!Next]_(Life!lifeVars)
    <3>1. LifeNow # "closed"
      <4>1. run.at # "none"
        BY <2>3 DEF StartWorker
      <4>2. \A t \in Callers : mutex = t /\ ~server.enabled => pc[t] = "join"
        BY <4>1 DEF ThreadInv, InOpen, CallerPcs
      <4> QED
        BY <4>1, <4>2 DEF LifeNow, ThreadInv
    <3>2. worker[c].at = "none" /\ worker'[c].at = "serve"
      BY <2>3 DEF StartWorker, ServeInv, InHand
    <3>3. \A d \in Conns : d # c => worker'[d] = worker[d]
      BY <2>3 DEF StartWorker
    <3>4. /\ c \notin ServedNow \cup EndedNow
          /\ ServedNow' = ServedNow \cup {c} /\ EndedNow' = EndedNow
      BY <3>2, <3>3 DEF ServedNow, EndedNow
    <3> QED
      BY <1>1, <1>3, <2>1, <3>1, <3>4
  <2>4. CASE StopWorker \/ JoinWorker
    <3>1. Head(workers) \in Conns
      BY <2>4 DEF StopWorker, JoinWorker, WaitsForAWorker, TypeOK
    <3>2. \A d \in Conns : \/ worker'[d].at = worker[d].at
                           \/ worker[d].at = "finished" /\ worker'[d].at = "joined"
      BY <2>4, <3>1 DEF StopWorker, JoinWorker, WorkerType
    <3>3. UNCHANGED <<ServedNow, EndedNow>>
      BY <3>2 DEF ServedNow, EndedNow
    <3> QED
      BY <1>1, <1>3, <2>1, <3>3
  <2> QED
    BY <1>5, <2>2, <2>3, <2>4, ServerSteps
<1>6. ASSUME NEW c \in Conns, WorkerThread(c) PROVE [Life!Next]_(Life!lifeVars)
  <2>1. UNCHANGED <<pc, server>>
    BY <1>6 DEF WorkerThread, WorkerStops, WorkerCloses
  <2>2. \A d \in Conns : d # c => worker'[d] = worker[d]
    BY <1>6 DEF WorkerThread, WorkerStops, WorkerCloses
  <2>3. CASE WorkerStops(c)
    <3>1. worker[c].at = "serve" /\ worker'[c].at = "close"
      BY <2>3 DEF WorkerStops, WorkerType
    <3>2. UNCHANGED <<ServedNow, EndedNow>>
      BY <2>2, <3>1 DEF ServedNow, EndedNow
    <3> QED
      BY <1>1, <1>3, <2>1, <3>2
  <2>4. CASE WorkerCloses(c)
    <3>1. worker[c].at = "close" /\ worker'[c].at = "finished"
      BY <2>4 DEF WorkerCloses, WorkerType
    <3>2. /\ c \in ServedNow /\ ServedNow' = ServedNow \ {c}
          /\ EndedNow' = EndedNow \cup {c}
      BY <2>2, <3>1 DEF ServedNow, EndedNow
    <3> QED
      BY <1>1, <1>3, <2>1, <3>2
  <2> QED
    BY <1>6, <2>3, <2>4 DEF WorkerThread
<1>7. ASSUME NEW c \in Conns, Connect(c) \/ Leave(c)
      PROVE  [Life!Next]_(Life!lifeVars)
  BY <1>1, <1>2, <1>3, <1>7 DEF Connect, Leave
<1>8. CASE UNCHANGED vars
  BY <1>1, <1>2, <1>3, <1>8 DEF vars
<1> QED
  BY <1>4, <1>5, <1>6, <1>7, <1>8 DEF Next

\* A new server is closed in ServerLife.
LEMMA LifeInit == Init => Life!Init
<1> SUFFICES ASSUME Init PROVE Life!Init
  OBVIOUS
<1>1. ~server.enabled /\ \A t \in Callers : pc[t] # "join"
  BY DEF Init
<1>2. \A c \in Conns : worker[c].at = "none"
  BY DEF Init
<1> QED
  BY <1>1, <1>2 DEF Life!Init

\* The plain server implements ServerLife on both platforms, for every number of
\* callers, connections and sockets and whatever fails.
THEOREM ImplementsServerLife == Spec => LivesAsPromised
<1>1. Init => TypeOK /\ WaitsForAWorker /\ ThreadInv /\ ServeInv
  BY TypeInit, ThreadInit, ServeInit
<1>2. TypeOK /\ WaitsForAWorker /\ ThreadInv /\ ServeInv /\ [Next]_vars
        => (TypeOK /\ WaitsForAWorker /\ ThreadInv /\ ServeInv)'
  BY TypeStep, ThreadStep, ServeStep
<1>3. TypeOK /\ WaitsForAWorker /\ ThreadInv /\ ServeInv /\ [Next]_vars
        => [Life!Next]_(Life!lifeVars)
  BY LifeStep
<1> QED
  BY <1>1, <1>2, <1>3, LifeInit, PTL DEF Spec, LivesAsPromised, Life!Spec
-----------------------------------------------------------------------------
\* Every step keeps the listening socket as far as the platform does.
LEMMA ListenStep ==
    TypeOK /\ ThreadInv /\ WaitsForAWorker /\ ServeInv /\ ListenInv /\ [Next]_vars
    => ListenInv'
<1> SUFFICES ASSUME TypeOK, ThreadInv, WaitsForAWorker, ServeInv, ListenInv,
                    [Next]_vars
             PROVE  ListenInv'
  OBVIOUS
<1>0. /\ desc \in Tables /\ worker \in [Conns -> WorkerType]
      /\ pc \in [Callers -> CallerPcs] /\ mutex \in Callers \cup {NoOne}
      /\ server \in ServerType /\ run \in RunType
      /\ NoFd \notin Fds
  BY DEF TypeOK, Fds, NoFd
<1> USE <1>0, DescriptorsAssumption, PlainAssumption
\* A step that leaves callers, flags and numbers of the server alone and touches
\* no descriptor but those of connections.
<1>1. ASSUME UNCHANGED <<platform, pc, mutex>>,
             server'.listenSocket = server.listenSocket,
             Running' <=> Running, run'.at = "none" <=> run.at = "none",
             \A f \in Fds : f # server.listenSocket =>
                desc'[f] = desc[f] \/ desc'[f] \notin {Unbound, Listening},
             server.listenSocket \in Fds =>
                desc'[server.listenSocket] = desc[server.listenSocket],
             Running => /\ run'.clientSocket # server.listenSocket
                        /\ \A c \in Conns : worker'[c].clientSocket # server.listenSocket
      PROVE  ListenInv'
  <2>1. run'.at = "finished" <=> run.at = "finished"
    BY <1>1 DEF Running
  <2>2. RunListens'
    BY <1>1 DEF ListenInv, RunListens, Running
  <2>3. Running' => /\ run'.clientSocket # server'.listenSocket
                    /\ \A c \in Conns : worker'[c].clientSocket # server'.listenSocket
    BY <1>1
  <2> HIDE DEF Running
  <2> QED
    BY <1>1, <2>1, <2>2, <2>3 DEF ListenInv
\* closeSocket() on Linux: no listening or unbound socket is left.
<1>2. ASSUME CloseListenSocket, platform = "linux"
      PROVE  /\ AfterClose = NoFd
             /\ \A f \in Fds : desc'[f] \notin {Unbound, Listening}
  <2>1. CASE server.listenSocket = NoFd
    BY <1>2, <2>1 DEF CloseListenSocket, ClosesListenSocket, AfterClose, ListenInv
  <2>2. CASE server.listenSocket # NoFd
    <3>1. desc' = Release(desc, server.listenSocket) /\ AfterClose = NoFd
      BY <1>2, <2>2 DEF CloseListenSocket, ClosesListenSocket, AfterClose
    <3>2. \A f \in Fds : desc'[f] = IF f = server.listenSocket THEN Free ELSE desc[f]
      BY <3>1 DEF Release, Tables
    <3>3. \A f \in Fds : desc[f] \in {Unbound, Listening} => f = server.listenSocket
      BY <1>2 DEF ListenInv
    <3> QED
      BY <3>1, <3>2, <3>3
  <2> QED
    BY <2>1, <2>2
<1>3. ASSUME NEW t \in Callers, Open(t) \/ Close(t) \/ InsideCall(t) PROVE ListenInv'
  <2> USE DEF Goto, Return
  <2>1. CASE Open(t)
    <3>1. run.at = "none"
      BY <2>1 DEF Open, ThreadInv
    <3> QED
      BY <2>1, <3>1 DEF Open, ListenInv, RunListens, Running, ThreadInv
  <2>2. CASE OpenSocket(t)
    <3>1. run.at = "none" /\ mutex = t
      BY <2>2 DEF OpenSocket, ThreadInv, InOpen
    <3>2. ASSUME NEW f \in Fds, NewSocket(f), desc' = Install(desc, f, Unbound),
                 server' = [server EXCEPT !.listenSocket = f],
                 Goto(t, "listen"), UNCHANGED mutex
          PROVE  ListenInv'
      <4>1. \A g \in Fds : desc'[g] = IF g = f THEN Unbound ELSE desc[g]
        BY <3>2, OnlyThatDescriptor
      <4>2. server'.listenSocket = f
        BY <3>2 DEF ServerType
      <4>3. \A u \in Callers : u # t => pc[u] = "idle" /\ pc'[u] = "idle"
        BY <3>1, <3>2 DEF ThreadInv
      <4>4. platform = "linux" => \A g \in Fds : desc[g] \notin {Unbound, Listening}
        BY <2>2 DEF OpenSocket, ListenInv
      <4>5. pc'[t] = "listen" /\ run' = run /\ platform' = platform
        BY <2>2, <3>2 DEF OpenSocket
      <4> QED
        BY <3>1, <3>2, <4>1, <4>2, <4>3, <4>4, <4>5
        DEF ListenInv, RunListens, Running
    <3>3. CASE /\ server' = [server EXCEPT !.listenSocket = NoFd]
               /\ Return(t) /\ UNCHANGED desc
      <4>1. server'.listenSocket = NoFd
        BY <3>3 DEF ServerType
      <4>2. \A u \in Callers : pc'[u] = "idle"
        BY <3>1, <3>3 DEF ThreadInv
      <4>3. platform = "linux" => \A g \in Fds : desc[g] \notin {Unbound, Listening}
        BY <2>2 DEF OpenSocket, ListenInv
      <4> QED
        BY <2>2, <3>1, <3>3, <4>1, <4>2, <4>3
        DEF OpenSocket, ListenInv, RunListens, Running
    <3> QED
      BY <2>2, <3>2, <3>3 DEF OpenSocket
  <2>3. CASE OpenListen(t)
    <3>1. /\ run.at = "none" /\ mutex = t /\ pc[t] = "listen"
          /\ server.listenSocket \in Fds /\ desc[server.listenSocket] = Unbound
          /\ \A u \in Callers : u # t => pc[u] = "idle"
      BY <2>3 DEF OpenListen, ThreadInv, InOpen, ListenInv
    <3>2. CASE /\ desc' = Install(desc, server.listenSocket, Listening)
               /\ Goto(t, "start") /\ UNCHANGED <<mutex, server, peer, backlog>>
      <4>1. \A g \in Fds : desc'[g] = IF g = server.listenSocket THEN Listening ELSE desc[g]
        BY <3>2, OnlyThatDescriptor
      <4> QED
        BY <2>3, <3>1, <3>2, <4>1 DEF OpenListen, ListenInv, RunListens, Running
    <3>3. CASE /\ CloseListenSocket /\ Return(t)
               /\ server' = [server EXCEPT !.listenSocket = AfterClose]
      <4>1. server'.listenSocket = AfterClose /\ \A u \in Callers : pc'[u] = "idle"
        BY <3>1, <3>3 DEF ServerType
      <4> QED
        BY <1>2, <2>3, <3>1, <3>3, <4>1 DEF OpenListen, ListenInv, RunListens, Running
    <3> QED
      BY <2>3, <3>2, <3>3 DEF OpenListen
  <2>4. CASE OpenStart(t)
    <3>1. /\ server.listenSocket \in Fds /\ desc[server.listenSocket] = Listening
          /\ run.at = "none" /\ \A u \in Callers : u # t => pc[u] = "idle"
      BY <2>4 DEF OpenStart, ListenInv, ThreadInv, InOpen
    <3>2. /\ server'.listenSocket = server.listenSocket /\ run'.at = "loop"
          /\ run'.clientSocket = NoFd /\ \A c \in Conns : worker[c].clientSocket = NoFd
          /\ \A u \in Callers : pc'[u] = "idle"
      BY <2>4, <3>1, NobodyServes DEF OpenStart, ServerType, RunType, Running
    <3> QED
      BY <2>4, <3>1, <3>2 DEF OpenStart, ListenInv, RunListens, Running
  <2>5. CASE Close(t)
    <3>1. /\ run.at # "none" /\ server'.listenSocket = server.listenSocket
          /\ \A u \in Callers : pc'[u] \in {"idle", "join"}
      BY <2>5 DEF Close, ThreadInv, ServerType
    <3> QED
      BY <2>5, <3>1 DEF Close, ListenInv, RunListens, Running
  <2>6. CASE CloseJoined(t)
    <3>1. /\ run'.at = "none" /\ server'.listenSocket = AfterClose
          /\ \A u \in Callers : pc'[u] = "idle"
      BY <2>6 DEF CloseJoined, ThreadInv, ServerType, RunType
    <3> QED
      BY <1>2, <2>6, <3>1 DEF CloseJoined, ListenInv, RunListens, Running
  <2> QED
    BY <1>3, <2>1, <2>2, <2>3, <2>4, <2>5, <2>6 DEF InsideCall
<1>4. ASSUME ServerThread PROVE ListenInv'
  <2>0. Running => /\ run.clientSocket # server.listenSocket
                   /\ \A c \in Conns : worker[c].clientSocket # server.listenSocket
                   /\ server.listenSocket \in Fds
                   /\ desc[server.listenSocket] = Listening
    BY DEF ListenInv, RunListens, Running
  <2>2. CASE GoesOn
    BY <1>1, <2>0, <2>2, GoesOnSteps DEF Running
  <2>3. CASE GivesUp
    BY <1>1, <2>0, <2>3, GivesUpSteps DEF Running
  <2>4. ASSUME NEW c \in Conns, Accept(c) PROVE ListenInv'
    <3>1. PICK n \in Fds : /\ NewSocket(n) /\ desc' = Install(desc, n, c)
                           /\ run' = [at |-> "accepted", clientSocket |-> n]
      BY <2>4 DEF Accept
    <3>2. desc[n] = Free /\ \A f \in Fds : desc'[f] = IF f = n THEN c ELSE desc[f]
      BY <3>1, OnlyThatDescriptor DEF NewSocket, FreeFds
    <3>3. run.at = "accept" /\ run'.at = "accepted" /\ run'.clientSocket = n
          /\ UNCHANGED <<platform, pc, mutex, server, worker>>
      BY <2>4, <3>1 DEF Accept
    <3> QED
      BY <1>1, <2>0, <3>2, <3>3 DEF Running
  <2>5. ASSUME NEW c \in Conns, StartWorker(c) PROVE ListenInv'
    <3>1. /\ run.at = "begin" /\ run'.at = "loop" /\ run'.clientSocket = NoFd
          /\ UNCHANGED <<platform, desc, pc, mutex, server>>
      BY <2>5 DEF StartWorker
    <3>2. \A d \in Conns : worker'[d].clientSocket \in
                              {worker[d].clientSocket, run.clientSocket}
      BY <2>5 DEF StartWorker
    <3> QED
      BY <1>1, <2>0, <3>1, <3>2 DEF Running
  <2>6. CASE StopWorker
    <3>1. /\ run.at = "stop" /\ run'.at = "join" /\ run'.clientSocket = run.clientSocket
          /\ UNCHANGED <<platform, desc, pc, mutex, server>>
      BY <2>6 DEF StopWorker, RunType
    <3>2. Head(workers) \in Conns
      BY <2>6 DEF StopWorker, TypeOK
    <3>3. \A d \in Conns : worker'[d].clientSocket = worker[d].clientSocket
      BY <2>6, <3>2 DEF StopWorker, WorkerType
    <3> QED
      BY <1>1, <2>0, <3>1, <3>3 DEF Running
  <2>7. CASE JoinWorker
    <3>0. PICK h \in Conns : h = Head(workers)
      BY <2>7 DEF JoinWorker, WaitsForAWorker, TypeOK
    <3>1. /\ run.at = "join" /\ run'.at = "stop" /\ run'.clientSocket = run.clientSocket
          /\ UNCHANGED <<platform, pc, mutex, server>>
      BY <2>7 DEF JoinWorker, RunType
    <3>2. /\ \A f \in Fds : f # worker[h].clientSocket => desc'[f] = desc[f]
          /\ \A f \in Fds : desc'[f] \in {desc[f], Free}
      BY <2>7, <3>0, ReleaseCarries DEF JoinWorker
    <3>3. \A d \in Conns : worker'[d].clientSocket \in {worker[d].clientSocket, NoFd}
      BY <2>7, <3>0 DEF JoinWorker, WorkerType
    <3> QED
      BY <1>1, <2>0, <3>1, <3>2, <3>3 DEF Running
  <2>8. CASE FinishRun
    <3>1. /\ run.at = "stop" /\ run'.at = "finished" /\ server'.listenSocket = AfterClose
          /\ UNCHANGED <<platform, pc, mutex>>
      BY <2>8 DEF FinishRun, RunType, ServerType
    <3>2. \A u \in Callers : pc[u] \in {"idle", "join"}
      BY <3>1 DEF ThreadInv, InOpen, CallerPcs
    <3> QED
      BY <1>2, <2>8, <3>1, <3>2 DEF FinishRun, ListenInv, RunListens, Running
  <2> QED
    BY <1>4, <2>2, <2>3, <2>4, <2>5, <2>6, <2>7, <2>8, ServerSteps
<1>5. ASSUME NEW c \in Conns, WorkerThread(c) PROVE ListenInv'
  <2>0. Running => /\ run.clientSocket # server.listenSocket
                   /\ \A d \in Conns : worker[d].clientSocket # server.listenSocket
    BY DEF ListenInv
  <2>1. UNCHANGED <<platform, pc, mutex, server, run>>
    BY <1>5 DEF WorkerThread, WorkerStops, WorkerCloses
  <2>2. \A d \in Conns : worker'[d].clientSocket \in {worker[d].clientSocket, NoFd}
    BY <1>5 DEF WorkerThread, WorkerStops, WorkerCloses, WorkerType
  <2>3. CASE UNCHANGED desc
    BY <1>1, <2>0, <2>1, <2>2, <2>3 DEF Running, ListenInv, RunListens
  <2>4. CASE WorkerCloses(c)
    <3>1. /\ \A f \in Fds : f # worker[c].clientSocket => desc'[f] = desc[f]
          /\ \A f \in Fds : desc'[f] \in {desc[f], Free}
      BY <2>4, ReleaseCarries DEF WorkerCloses
    <3>2. Running
      <4>1. worker[c].at = "close"
        BY <2>4 DEF WorkerCloses
      <4> QED
        BY <4>1, NobodyServes
    <3> QED
      BY <1>1, <2>0, <2>1, <2>2, <3>1, <3>2 DEF Running, ListenInv, RunListens
  <2> QED
    BY <1>5, <2>3, <2>4 DEF WorkerThread, WorkerStops
<1>6. ASSUME NEW c \in Conns, Connect(c) \/ Leave(c) PROVE ListenInv'
  BY <1>6 DEF Connect, Leave, ListenInv, RunListens, Running
<1>7. CASE UNCHANGED vars
  BY <1>7 DEF vars, ListenInv, RunListens, Running
<1> QED
  BY <1>3, <1>4, <1>5, <1>6, <1>7 DEF Next

\* A new server has no listening socket.
LEMMA ListenInit == Init => ListenInv
  BY DescriptorsAssumption DEF Init, ListenInv, RunListens, Running

\* On both platforms run() selects on a socket that listens, until it closes it
\* itself.
THEOREM RunAlwaysListens == Spec => []RunListens
<1>1. Init => TypeOK /\ WaitsForAWorker /\ ThreadInv /\ ServeInv /\ ListenInv
  BY TypeInit, ThreadInit, ServeInit, ListenInit
<1>2. TypeOK /\ WaitsForAWorker /\ ThreadInv /\ ServeInv /\ ListenInv /\ [Next]_vars
        => (TypeOK /\ WaitsForAWorker /\ ThreadInv /\ ServeInv /\ ListenInv)'
  BY TypeStep, ThreadStep, ServeStep, ListenStep
<1>3. ListenInv => RunListens
  BY DEF ListenInv
<1> QED
  BY <1>1, <1>2, <1>3, PTL DEF Spec

\* On Linux no failure of open() leaves a socket that a later open() meets.
THEOREM LinuxPortIsFree == Spec => []PortIsFree
<1>1. Init => TypeOK /\ WaitsForAWorker /\ ThreadInv /\ ServeInv /\ ListenInv
  BY TypeInit, ThreadInit, ServeInit, ListenInit
<1>2. TypeOK /\ WaitsForAWorker /\ ThreadInv /\ ServeInv /\ ListenInv /\ [Next]_vars
        => (TypeOK /\ WaitsForAWorker /\ ThreadInv /\ ServeInv /\ ListenInv)'
  BY TypeStep, ThreadStep, ServeStep, ListenStep
<1>3. ListenInv => PortIsFree
  <2> SUFFICES ASSUME ListenInv, platform = "linux", NEW f \in Fds
               PROVE  /\ \A t \in Callers :
                            pc[t] \in {"socket", "listen"} => desc[f] # Listening
                      /\ mutex = NoOne => desc[f] # Unbound
    BY DEF PortIsFree
  <2>1. NoFd \notin Fds /\ Unbound # Listening
    BY DescriptorsAssumption DEF Fds, NoFd
  <2>2. desc[f] \in {Unbound, Listening} => f = server.listenSocket
    BY DEF ListenInv
  <2>3. ASSUME NEW t \in Callers, pc[t] \in {"socket", "listen"}
        PROVE  desc[f] # Listening
    BY <2>1, <2>2, <2>3 DEF ListenInv
  <2>4. ASSUME mutex = NoOne PROVE desc[f] # Unbound
    BY <2>1, <2>2, <2>4 DEF ListenInv, RunListens
  <2> QED
    BY <2>3, <2>4
<1> QED
  BY <1>1, <1>2, <1>3, PTL DEF Spec
-----------------------------------------------------------------------------
\* The number a worker remembers is that of its connection.
LEMMA OwnStep ==
    /\ TypeOK /\ ThreadInv /\ WaitsForAWorker /\ ServeInv /\ ListenInv /\ OwnInv
    /\ [Next]_vars
    => OwnInv'
<1> SUFFICES ASSUME TypeOK, ThreadInv, WaitsForAWorker, ServeInv, ListenInv, OwnInv,
                    [Next]_vars, Forgets'
             PROVE  \A c \in Conns :
                       /\ worker'[c].at \in {"serve", "close"} =>
                             /\ worker'[c].clientSocket \in Fds
                             /\ desc'[worker'[c].clientSocket] = c
                       /\ worker'[c].at = "finished" => worker'[c].clientSocket = NoFd
  BY DEF OwnInv
<1> DEFINE Own == \A c \in Conns :
                     /\ worker[c].at \in {"serve", "close"} =>
                           /\ worker[c].clientSocket \in Fds
                           /\ desc[worker[c].clientSocket] = c
                     /\ worker[c].at = "finished" => worker[c].clientSocket = NoFd
<1>0. platform' = platform
  <2>1. ServerThread => platform' = platform
    BY ServerSteps, GoesOnSteps, GivesUpSteps
    DEF TypeOK, Accept, StartWorker, StopWorker, JoinWorker, FinishRun
  <2> QED
    BY <2>1
    DEF Next, InsideCall, Open, Close, OpenSocket, OpenListen, OpenStart, CloseJoined,
        WorkerThread, WorkerStops, WorkerCloses, Connect, Leave, vars
<1>1. Own /\ Forgets
  BY <1>0 DEF OwnInv, Forgets
<1>2. /\ desc \in Tables /\ worker \in [Conns -> WorkerType]
      /\ server \in ServerType /\ run \in RunType
      /\ NoFd \notin Fds
  BY DEF TypeOK, Fds, NoFd
<1> USE <1>2, DescriptorsAssumption
\* A step that leaves the workers and the sockets of connections alone.
<1>3. ASSUME UNCHANGED worker,
             \A f \in Fds : desc[f] \in Conns /\ worker[desc[f]].at # "none"
                              => desc'[f] = desc[f]
      PROVE  Own'
  BY <1>1, <1>3
\* The listening socket is not a connection.
<1>4. ASSUME CloseListenSocket,
             server.listenSocket \in Fds => desc[server.listenSocket] \notin Conns
      PROVE  \A f \in Fds : desc[f] \in Conns => desc'[f] = desc[f]
  <2>1. CASE UNCHANGED desc
    BY <2>1
  <2>2. CASE desc' = Release(desc, server.listenSocket)
    BY <1>4, <2>2 DEF Release, Tables
  <2> QED
    BY <1>4, <2>1, <2>2 DEF CloseListenSocket
<1>5. ASSUME NEW t \in Callers, Open(t) \/ Close(t) \/ InsideCall(t) PROVE Own'
  <2>1. UNCHANGED worker
    BY <1>5 DEF InsideCall, Open, Close, OpenSocket, OpenListen, OpenStart, CloseJoined
  <2>2. CASE UNCHANGED desc
    BY <1>3, <2>1, <2>2
  <2>3. ASSUME NEW f \in Fds, NewSocket(f), desc' = Install(desc, f, Unbound)
        PROVE  Own'
    <3>1. desc[f] = Free /\ \A g \in Fds : g # f => desc'[g] = desc[g]
      BY <2>3, OnlyThatDescriptor DEF NewSocket, FreeFds
    <3> QED
      BY <1>3, <2>1, <3>1
  <2>4. CASE OpenListen(t)
    <3>1. server.listenSocket \in Fds /\ desc[server.listenSocket] = Unbound
      BY <2>4 DEF OpenListen, ListenInv
    <3>2. CASE desc' = Install(desc, server.listenSocket, Listening)
      <4>1. \A g \in Fds : g # server.listenSocket => desc'[g] = desc[g]
        BY <3>2, OnlyThatDescriptor
      <4> QED
        BY <1>3, <2>1, <3>1, <4>1
    <3>3. CASE CloseListenSocket
      BY <1>3, <1>4, <2>1, <3>1, <3>3
    <3> QED
      BY <2>4, <3>2, <3>3 DEF OpenListen
  <2>5. CASE CloseJoined(t)
    <3>1. CloseListenSocket /\ run.at = "finished"
      BY <2>5 DEF CloseJoined
    <3>2. ClosesListenSocket => server.listenSocket \notin Fds
      BY <3>1 DEF ClosesListenSocket, ListenInv
    <3>3. UNCHANGED desc
      BY <3>1, <3>2 DEF CloseListenSocket, Release
    <3> QED
      BY <1>3, <2>1, <3>3
  <2> QED
    BY <1>5, <2>2, <2>3, <2>4, <2>5 DEF InsideCall, Open, Close, OpenSocket, OpenStart
<1>6. ASSUME ServerThread PROVE Own'
  <2>1. CASE GoesOn \/ GivesUp
    BY <1>3, <2>1, GoesOnSteps, GivesUpSteps
  <2>2. ASSUME NEW c \in Conns, Accept(c) PROVE Own'
    <3>1. PICK f \in Fds : NewSocket(f) /\ desc' = Install(desc, f, c)
      BY <2>2 DEF Accept
    <3>2. desc[f] = Free /\ \A g \in Fds : g # f => desc'[g] = desc[g]
      BY <3>1, OnlyThatDescriptor DEF NewSocket, FreeFds
    <3> QED
      BY <1>3, <2>2, <3>2 DEF Accept
  <2>3. ASSUME NEW c \in Conns, StartWorker(c) PROVE Own'
    <3>1. run.clientSocket \in Fds /\ desc[run.clientSocket] = c
      BY <2>3 DEF StartWorker, ServeInv, InHand
    <3>2. /\ worker'[c].at = "serve" /\ worker'[c].clientSocket = run.clientSocket
          /\ \A d \in Conns : d # c => worker'[d] = worker[d]
          /\ UNCHANGED desc
      BY <2>3 DEF StartWorker
    <3> QED
      BY <1>1, <3>1, <3>2
  <2>4. CASE StopWorker
    <3>1. Head(workers) \in Conns /\ UNCHANGED desc
      BY <2>4 DEF StopWorker, TypeOK
    <3>2. \A d \in Conns : /\ worker'[d].at = worker[d].at
                           /\ worker'[d].clientSocket = worker[d].clientSocket
      BY <2>4, <3>1 DEF StopWorker, WorkerType
    <3> QED
      BY <1>1, <3>1, <3>2
  <2>5. CASE JoinWorker
    <3>1. PICK h \in Conns : h = Head(workers)
      BY <2>5 DEF JoinWorker, WaitsForAWorker, TypeOK
    <3>2. worker[h].at = "finished" /\ worker[h].clientSocket = NoFd
      BY <1>1, <2>5, <3>1 DEF JoinWorker
    <3>3. UNCHANGED desc
      BY <2>5, <3>1, <3>2 DEF JoinWorker, Release
    <3>4. /\ worker'[h].at = "joined"
          /\ \A d \in Conns : d # h => worker'[d] = worker[d]
      BY <2>5, <3>1 DEF JoinWorker, WorkerType
    <3> QED
      BY <1>1, <3>3, <3>4
  <2>6. CASE FinishRun
    <3>1. server.listenSocket \in Fds => desc[server.listenSocket] \notin Conns
      BY <2>6 DEF FinishRun, ListenInv, RunListens
    <3> QED
      BY <1>3, <1>4, <2>6, <3>1 DEF FinishRun
  <2> QED
    BY <1>6, <2>1, <2>2, <2>3, <2>4, <2>5, <2>6, ServerSteps
<1>7. ASSUME NEW c \in Conns, WorkerThread(c) PROVE Own'
  <2>1. \A d \in Conns : d # c => worker'[d] = worker[d]
    BY <1>7 DEF WorkerThread, WorkerStops, WorkerCloses
  <2>2. CASE WorkerStops(c)
    <3>1. /\ worker[c].at = "serve" /\ worker'[c].at = "close" /\ UNCHANGED desc
          /\ worker'[c].clientSocket = worker[c].clientSocket
      BY <2>2 DEF WorkerStops, WorkerType
    <3> QED
      BY <1>1, <2>1, <3>1
  <2>3. CASE WorkerCloses(c)
    <3>1. worker[c].at = "close" /\ worker[c].clientSocket \in Fds
          /\ desc[worker[c].clientSocket] = c
      BY <1>1, <2>3 DEF WorkerCloses
    <3>2. worker'[c].at = "finished" /\ worker'[c].clientSocket = NoFd
      BY <1>1, <2>3 DEF WorkerCloses, WorkerType, Forgets, ForgetsSocket
    <3>3. \A f \in Fds : f # worker[c].clientSocket => desc'[f] = desc[f]
      BY <2>3, ReleaseCarries DEF WorkerCloses
    <3> QED
      BY <1>1, <2>1, <3>1, <3>2, <3>3
  <2> QED
    BY <1>7, <2>2, <2>3 DEF WorkerThread
<1>8. ASSUME NEW c \in Conns, Connect(c) \/ Leave(c) PROVE Own'
  BY <1>3, <1>8 DEF Connect, Leave
<1>9. CASE UNCHANGED vars
  BY <1>3, <1>9 DEF vars
<1>10. Own'
  BY <1>5, <1>6, <1>7, <1>8, <1>9 DEF Next
<1> QED
  BY <1>10

\* There are no workers at the start.
LEMMA OwnInit == Init => OwnInv
  BY DEF Init, OwnInv

\* The step formula of ReleasedByOwner.
OwnerReleases ==
    platform = "windows" \/ ~CloseMayFail =>
        \A f \in Fds, c \in Conns :
            desc[f] = c /\ desc'[f] # c =>
                worker[c].at = "close" /\ worker'[c].at = "finished"

\* A step frees the descriptor of its own connection only.
LEMMA OwnerReleasesStep ==
    /\ TypeOK /\ ThreadInv /\ WaitsForAWorker /\ ServeInv /\ ListenInv /\ OwnInv
    /\ [Next]_vars
    => OwnerReleases
<1> SUFFICES ASSUME TypeOK, ThreadInv, WaitsForAWorker, ServeInv, ListenInv, OwnInv,
                    [Next]_vars, Forgets,
                    NEW f \in Fds, NEW c \in Conns, desc[f] = c, desc'[f] # c
             PROVE  worker[c].at = "close" /\ worker'[c].at = "finished"
  BY DEF OwnerReleases, Forgets
<1>1. /\ desc \in Tables /\ worker \in [Conns -> WorkerType] /\ desc[f] # Free
      /\ NoFd \notin Fds
  BY DescriptorsAssumption DEF TypeOK, Fds, NoFd
<1> USE <1>1, DescriptorsAssumption
\* Closing a number closes this connection only if it carries it.
<1>2. ASSUME NEW n, desc' = Release(desc, n) PROVE f = n
  BY <1>2 DEF Release, Tables
<1>3. ASSUME CloseListenSocket PROVE ClosesListenSocket /\ f = server.listenSocket
  BY <1>2, <1>3 DEF CloseListenSocket
<1>4. ASSUME NEW n \in Fds, NewSocket(n), NEW file, desc' = Install(desc, n, file)
      PROVE  FALSE
  BY <1>4 DEF NewSocket, FreeFds, Install, Tables
<1>5. ASSUME NEW t \in Callers, Open(t) \/ Close(t) \/ InsideCall(t) PROVE FALSE
  <2>1. CASE OpenSocket(t)
    BY <1>4, <2>1 DEF OpenSocket
  <2>2. CASE OpenListen(t)
    <3>1. server.listenSocket \in Fds /\ desc[server.listenSocket] = Unbound
      BY <2>2 DEF OpenListen, ListenInv
    <3>2. CASE desc' = Install(desc, server.listenSocket, Listening)
      BY <3>1, <3>2 DEF Install, Tables
    <3> QED
      BY <1>3, <2>2, <3>1, <3>2 DEF OpenListen
  <2>3. CASE CloseJoined(t)
    BY <1>3, <2>3 DEF CloseJoined, ClosesListenSocket, ListenInv
  <2> QED
    BY <1>5, <2>1, <2>2, <2>3 DEF InsideCall, Open, Close, OpenStart
<1>6. ASSUME ServerThread PROVE FALSE
  <2>1. ASSUME NEW d \in Conns, Accept(d) PROVE FALSE
    BY <1>4, <2>1 DEF Accept
  <2>2. CASE JoinWorker
    <3>1. PICK h \in Conns : h = Head(workers)
      BY <2>2 DEF JoinWorker, WaitsForAWorker, TypeOK
    <3>2. worker[h].clientSocket = NoFd
      BY <2>2, <3>1 DEF JoinWorker, OwnInv
    <3> QED
      BY <1>2, <2>2, <3>1, <3>2 DEF JoinWorker
  <2>3. CASE FinishRun
    <3>1. server.listenSocket \in Fds /\ desc[server.listenSocket] = Listening
      BY <2>3 DEF FinishRun, ListenInv, RunListens
    <3> QED
      BY <1>3, <2>3, <3>1 DEF FinishRun
  <2> QED
    BY <1>6, <2>1, <2>2, <2>3, ServerSteps, GoesOnSteps, GivesUpSteps
    DEF TypeOK, StartWorker, StopWorker
<1>7. ASSUME NEW d \in Conns, WorkerThread(d)
      PROVE  worker[c].at = "close" /\ worker'[c].at = "finished"
  <2>1. CASE WorkerCloses(d)
    <3>1. worker[d].at = "close" /\ f = worker[d].clientSocket
      BY <1>2, <2>1 DEF WorkerCloses
    <3>2. desc[f] = d
      BY <3>1 DEF OwnInv
    <3>3. worker'[d].at = "finished"
      BY <2>1 DEF WorkerCloses, WorkerType
    <3> QED
      BY <3>1, <3>2, <3>3
  <2> QED
    BY <1>7, <2>1 DEF WorkerThread, WorkerStops
<1>8. ASSUME NEW d \in Conns, Connect(d) \/ Leave(d) PROVE FALSE
  BY <1>8 DEF Connect, Leave
<1>9. CASE UNCHANGED vars
  BY <1>9 DEF vars
<1> QED
  BY <1>5, <1>6, <1>7, <1>8, <1>9 DEF Next

\* A connection's socket is closed by its own worker and by nobody else: on
\* Windows even if closing reports errors, on Linux as long as it does not.
THEOREM OnlyOwnersRelease == Spec => ReleasedByOwner
<1>1. Init => TypeOK /\ WaitsForAWorker /\ ThreadInv /\ ServeInv /\ ListenInv /\ OwnInv
  BY TypeInit, ThreadInit, ServeInit, ListenInit, OwnInit
<1>2. /\ TypeOK /\ WaitsForAWorker /\ ThreadInv /\ ServeInv /\ ListenInv /\ OwnInv
      /\ [Next]_vars
      => (TypeOK /\ WaitsForAWorker /\ ThreadInv /\ ServeInv /\ ListenInv /\ OwnInv)'
  BY TypeStep, ThreadStep, ServeStep, ListenStep, OwnStep
<1>3. /\ TypeOK /\ WaitsForAWorker /\ ThreadInv /\ ServeInv /\ ListenInv /\ OwnInv
      /\ [Next]_vars
      => [OwnerReleases]_vars
  BY OwnerReleasesStep
<1>4. ReleasedByOwner <=> [][OwnerReleases]_vars
  BY PTL DEF ReleasedByOwner, OwnerReleases
<1> QED
  BY <1>1, <1>2, <1>3, <1>4, PTL DEF Spec
-----------------------------------------------------------------------------
(* How close() gets to its end, on both platforms and whatever fails.  Without
   TLS nobody outside the program has a part in it: what close() waits for never
   waits for a peer.  run() may have looked at enabled just before close()
   cleared it, so that it may still accept one connection or take one into
   service, but never a second one. *)
InClose == \E t \in Callers : pc[t] = "join"

\* The steps of run(), and of the workers it waits for, that are left.  A
\* connection that is still taken into service costs the four of a worker.
StepsOfWorker(c) ==
    IF worker[c].at = "serve" THEN 2 ELSE IF worker[c].at = "close" THEN 1 ELSE 0
StepsLeft ==
    4 * Len(workers) +
       (IF run.at = "begin" THEN 7
        ELSE IF run.at = "accept" THEN 3
        ELSE IF run.at \in {"loop", "ready", "accepted"} THEN 2
        ELSE IF run.at = "stop" THEN 1
        ELSE IF run.at = "join" THEN StepsOfWorker(Head(workers)) - 2 ELSE 0)

\* What a step of close() makes of the steps that are left.
Advances ==
    InClose /\ InClose' =>
        \/ StepsLeft' < StepsLeft
        \/ StepsLeft' = StepsLeft /\ UNCHANGED <<run, workers>>

\* Each step lowers the steps left or is one of somebody close() does not wait for.
CloseAdvances == [][Advances]_vars

\* What run() or the worker it waits for needs for its next step, and has.
CloseNeverStuck ==
    InClose =>
        /\ ~server.enabled
        /\ \/ run.at \in {"loop", "ready", "accepted", "begin", "stop", "finished"}
           \/ run.at = "accept" /\ backlog # {}
           \/ /\ run.at = "join"
              /\ \/ worker[Head(workers)].at = "serve" /\ ~worker[Head(workers)].enabled
                 \/ worker[Head(workers)].at \in {"close", "finished"}

(* The vector holds each worker once, none that has been joined, and the one that
   is waited for has been told to end. *)
VectorInv ==
    /\ \A i, j \in 1..Len(workers) : workers[i] = workers[j] => i = j
    /\ \A i \in 1..Len(workers) :
          /\ worker[workers[i]].at \in {"serve", "close", "finished"}
          /\ run.at = "join" /\ i = 1 => ~worker[workers[i]].enabled

\* Every step keeps the vector free of repetitions and of workers that are gone.
LEMMA VectorStep ==
    TypeOK /\ WaitsForAWorker /\ ServeInv /\ VectorInv /\ [Next]_vars => VectorInv'
<1> SUFFICES ASSUME TypeOK, WaitsForAWorker, ServeInv, VectorInv, [Next]_vars
             PROVE  VectorInv'
  OBVIOUS
<1>0. /\ worker \in [Conns -> WorkerType] /\ run \in RunType
      /\ workers \in Seq(Conns) /\ Len(workers) \in Nat
  BY DEF TypeOK
<1> USE <1>0
\* A step that moves no worker and does not begin to wait for one.
<1>1. ASSUME UNCHANGED <<worker, workers>>, run'.at = "join" => run.at = "join"
      PROVE  VectorInv'
  BY <1>1 DEF VectorInv
<1>2. ASSUME NEW t \in Callers, Open(t) \/ Close(t) \/ InsideCall(t) PROVE VectorInv'
  <2>1. UNCHANGED <<worker, workers>> /\ (run'.at = "join" => run.at = "join")
    BY <1>2
    DEF InsideCall, Open, Close, OpenSocket, OpenListen, OpenStart, CloseJoined, RunType
  <2> QED
    BY <1>1, <2>1
<1>3. ASSUME ServerThread PROVE VectorInv'
  <2>1. CASE GoesOn \/ GivesUp \/ FinishRun \/ \E c \in Conns : Accept(c)
    <3>1. UNCHANGED <<worker, workers>> /\ run'.at # "join"
      BY <2>1, GoesOnSteps, GivesUpSteps DEF FinishRun, Accept, RunType
    <3> QED
      BY <1>1, <3>1
  <2>2. ASSUME NEW c \in Conns, StartWorker(c) PROVE VectorInv'
    <3>1. worker[c].at = "none" /\ run'.at = "loop"
      BY <2>2 DEF StartWorker, ServeInv, InHand
    <3>2. /\ worker'[c].at = "serve"
          /\ \A d \in Conns : d # c => worker'[d] = worker[d]
      BY <2>2 DEF StartWorker
    <3>3. /\ Len(workers') = Len(workers) + 1
          /\ \A i \in 1..Len(workers) : workers'[i] = workers[i]
          /\ workers'[Len(workers) + 1] = c
      BY <2>2 DEF StartWorker
    <3>4. \A i \in 1..Len(workers) : workers[i] \in Conns /\ workers[i] # c
      BY <3>1 DEF VectorInv
    <3>5. \A i \in 1..Len(workers') : i \in 1..Len(workers) \/ i = Len(workers) + 1
      BY <3>3
    <3>6. \A i, j \in 1..Len(workers') : workers'[i] = workers'[j] => i = j
      BY <3>3, <3>4, <3>5 DEF VectorInv
    <3>7. ASSUME NEW i \in 1..Len(workers')
          PROVE  worker'[workers'[i]].at \in {"serve", "close", "finished"}
      <4>1. CASE i \in 1..Len(workers)
        <5>1. workers'[i] = workers[i] /\ worker'[workers[i]] = worker[workers[i]]
          BY <3>2, <3>3, <3>4, <4>1
        <5> QED
          BY <4>1, <5>1 DEF VectorInv
      <4> QED
        BY <3>2, <3>3, <3>5, <4>1
    <3> QED
      BY <3>1, <3>6, <3>7 DEF VectorInv
  <2>3. CASE StopWorker
    <3>1. Len(workers) > 0 /\ Head(workers) = workers[1] /\ workers[1] \in Conns
      BY <2>3 DEF StopWorker
    <3>2. /\ workers' = workers
          /\ worker' = [worker EXCEPT ![workers[1]].enabled = FALSE]
      BY <2>3, <3>1 DEF StopWorker
    <3>3. ~worker'[workers[1]].enabled /\ \A d \in Conns : worker'[d].at = worker[d].at
      BY <3>1, <3>2 DEF WorkerType
    <3>4. \A i \in 1..Len(workers) : workers[i] \in Conns
      OBVIOUS
    <3> QED
      BY <3>2, <3>3, <3>4 DEF VectorInv
  <2>4. CASE JoinWorker
    <3>1. Len(workers) > 0 /\ Head(workers) = workers[1] /\ workers[1] \in Conns
      BY <2>4 DEF JoinWorker, WaitsForAWorker
    <3>2. /\ run'.at = "stop" /\ workers' = Tail(workers)
          /\ \A d \in Conns : d # workers[1] => worker'[d] = worker[d]
      BY <2>4, <3>1 DEF JoinWorker, RunType
    <3>3. /\ Len(workers') = Len(workers) - 1
          /\ \A i \in 1..Len(workers') :
                workers'[i] = workers[i + 1] /\ i + 1 \in 1..Len(workers)
      BY <3>1, <3>2
    <3>4. ASSUME NEW i \in 1..Len(workers')
          PROVE  worker'[workers'[i]].at \in {"serve", "close", "finished"}
      <4>1. workers'[i] = workers[i + 1] /\ i + 1 \in 1..Len(workers) /\ i + 1 # 1
        BY <3>3
      <4>2. /\ workers[i + 1] # workers[1] /\ workers[i + 1] \in Conns
            /\ worker[workers[i + 1]].at \in {"serve", "close", "finished"}
        BY <3>1, <4>1 DEF VectorInv
      <4> QED
        BY <3>2, <4>1, <4>2
    <3>5. ASSUME NEW i \in 1..Len(workers'), NEW j \in 1..Len(workers'),
                 workers'[i] = workers'[j]
          PROVE  i = j
      <4>1. i + 1 = j + 1
        BY <3>3, <3>5 DEF VectorInv
      <4> QED
        BY <4>1
    <3> QED
      BY <3>2, <3>4, <3>5 DEF VectorInv
  <2> QED
    BY <1>3, <2>1, <2>2, <2>3, <2>4, ServerSteps
<1>4. ASSUME NEW c \in Conns, WorkerThread(c) PROVE VectorInv'
  <2>1. /\ UNCHANGED <<workers, run>>
        /\ \A d \in Conns : d # c => worker'[d] = worker[d]
        /\ worker'[c].at \in {"close", "finished"}
        /\ worker'[c].enabled = worker[c].enabled
    BY <1>4 DEF WorkerThread, WorkerStops, WorkerCloses, WorkerType
  <2>2. \A i \in 1..Len(workers) : workers[i] \in Conns
    OBVIOUS
  <2> QED
    BY <2>1, <2>2 DEF VectorInv
<1>5. ASSUME NEW c \in Conns, Connect(c) \/ Leave(c) PROVE VectorInv'
  BY <1>1, <1>5 DEF Connect, Leave
<1>6. CASE UNCHANGED vars
  BY <1>1, <1>6 DEF vars
<1> QED
  BY <1>2, <1>3, <1>4, <1>5, <1>6 DEF Next

\* At the start the vector is empty.
LEMMA VectorInit == Init => VectorInv
  BY DEF Init, VectorInv

\* Every step lowers the steps left, or is one of somebody close() does not wait for.
LEMMA AdvancesStep ==
    TypeOK /\ ThreadInv /\ WaitsForAWorker /\ VectorInv /\ [Next]_vars => Advances
<1> SUFFICES ASSUME TypeOK, ThreadInv, WaitsForAWorker, VectorInv, [Next]_vars,
                    InClose, InClose'
             PROVE  \/ StepsLeft' < StepsLeft
                    \/ StepsLeft' = StepsLeft /\ UNCHANGED <<run, workers>>
  BY DEF Advances
<1>0. /\ worker \in [Conns -> WorkerType] /\ run \in RunType
      /\ workers \in Seq(Conns) /\ Len(workers) \in Nat
      /\ pc \in [Callers -> CallerPcs] /\ ~server.enabled
  BY DEF TypeOK, InClose, ThreadInv
<1> USE <1>0
<1>1. \A c \in Conns : StepsOfWorker(c) \in 0..2 /\ StepsOfWorker(c)' \in 0..2
  BY DEF StepsOfWorker
<1>2. ASSUME UNCHANGED <<run, workers>>,
             run.at = "join" => worker'[Head(workers)].at = worker[Head(workers)].at
      PROVE  StepsLeft' = StepsLeft
  BY <1>2 DEF StepsLeft, StepsOfWorker
<1>3. ASSUME NEW t \in Callers, Open(t) \/ Close(t) \/ InsideCall(t) PROVE FALSE
  <2>1. PICK u \in Callers : pc[u] = "join" /\ mutex = u
    BY DEF InClose, ThreadInv
  <2>2. pc[t] \notin InOpen /\ (pc[t] # "idle" => t = u)
    BY <2>1 DEF ThreadInv, InOpen
  <2>3. CloseJoined(t)
    BY <1>3, <2>1, <2>2, PlainAssumption
    DEF Open, Close, InsideCall, OpenSocket, OpenListen, OpenStart, InOpen
  <2>4. \A v \in Callers : pc'[v] = "join" => pc[v] = "join" /\ v # t
    BY <2>3 DEF CloseJoined, Return, Goto
  <2> QED
    BY <2>1, <2>2, <2>3, <2>4 DEF InClose, ThreadInv, CloseJoined
<1>4. ASSUME ServerThread PROVE StepsLeft' < StepsLeft
  <2>1. CASE GoesOn
    <3>1. ~SelectReady /\ ~GoesToAccept /\ ~GoesToBegin /\ workers' = workers
      BY <2>1, GoesOnSteps DEF SelectReady, GoesToAccept, GoesToBegin
    <3>2. \/ run.at \in {"loop", "ready"} /\ run'.at = "stop"
          \/ run.at = "accept" /\ run'.at = "loop"
      BY <2>1, <3>1
      DEF GoesOn, LeaveLoop, StopsBeforeAccept, AcceptFails, Move, RunType
    <3> QED
      BY <3>1, <3>2 DEF StepsLeft
  <2>2. CASE GivesUp
    <3>1. /\ workers' = workers
          /\ \/ run.at = "accepted" /\ run'.at = "stop"
             \/ run.at = "begin" /\ run'.at = "loop"
      BY <2>2 DEF GivesUp, StopsAfterAccept, NonBlockingFails, Abandon
    <3> QED
      BY <3>1 DEF StepsLeft
  <2>6. ASSUME NEW c \in Conns, Accept(c) PROVE StepsLeft' < StepsLeft
    <3>1. workers' = workers /\ run.at = "accept" /\ run'.at = "accepted"
      BY <2>6 DEF Accept
    <3> QED
      BY <3>1 DEF StepsLeft
  <2>7. ASSUME NEW c \in Conns, StartWorker(c) PROVE StepsLeft' < StepsLeft
    <3>1. /\ Len(workers') = Len(workers) + 1
          /\ run.at = "begin" /\ run'.at = "loop"
      BY <2>7 DEF StartWorker
    <3> QED
      BY <3>1 DEF StepsLeft
  <2>3. CASE StopWorker
    <3>1. /\ workers' = workers /\ run.at = "stop" /\ run'.at = "join"
          /\ Head(workers) \in Conns
      BY <2>3 DEF StopWorker, RunType
    <3>2. /\ StepsLeft = 4 * Len(workers) + 1
          /\ StepsLeft' = 4 * Len(workers) + (StepsOfWorker(Head(workers))' - 2)
      BY <3>1 DEF StepsLeft, StepsOfWorker
    <3> QED
      BY <1>1, <3>1, <3>2
  <2>4. CASE JoinWorker
    <3>1. /\ workers # <<>> /\ workers' = Tail(workers) /\ Head(workers) \in Conns
          /\ run.at = "join" /\ run'.at = "stop"
      BY <2>4 DEF JoinWorker, WaitsForAWorker, RunType
    <3>2. Len(workers') = Len(workers) - 1
      BY <3>1
    <3>3. /\ StepsLeft = 4 * Len(workers) + (StepsOfWorker(Head(workers)) - 2)
          /\ StepsLeft' = 4 * Len(workers') + 1
      BY <3>1 DEF StepsLeft
    <3> QED
      BY <1>1, <3>1, <3>2, <3>3
  <2>5. CASE FinishRun
    <3>1. workers' = workers /\ run.at = "stop" /\ run'.at = "finished"
      BY <2>5 DEF FinishRun, RunType
    <3> QED
      BY <3>1 DEF StepsLeft
  <2> QED
    BY <1>4, <2>1, <2>2, <2>3, <2>4, <2>5, <2>6, <2>7, ServerSteps
<1>5. ASSUME NEW c \in Conns, WorkerThread(c)
      PROVE  /\ StepsLeft' < StepsLeft \/ StepsLeft' = StepsLeft
             /\ UNCHANGED <<run, workers>>
  <2>1. /\ UNCHANGED <<run, workers>>
        /\ \A d \in Conns : d # c => worker'[d] = worker[d]
        /\ \/ worker[c].at = "serve" /\ worker'[c].at = "close"
           \/ worker[c].at = "close" /\ worker'[c].at = "finished"
    BY <1>5 DEF WorkerThread, WorkerStops, WorkerCloses, WorkerType
  <2>2. CASE run.at = "join" /\ c = Head(workers)
    <3>1. StepsOfWorker(c)' < StepsOfWorker(c)
      BY <2>1 DEF StepsOfWorker
    <3>2. /\ StepsLeft = 4 * Len(workers) + (StepsOfWorker(c) - 2)
          /\ StepsLeft' = 4 * Len(workers) + (StepsOfWorker(c)' - 2)
      BY <2>1, <2>2 DEF StepsLeft, StepsOfWorker
    <3> QED
      BY <1>1, <2>1, <3>1, <3>2
  <2>3. CASE ~(run.at = "join" /\ c = Head(workers))
    <3>1. run.at = "join" => Head(workers) \in Conns
      BY DEF WaitsForAWorker
    <3> QED
      BY <1>2, <2>1, <2>3, <3>1
  <2> QED
    BY <2>2, <2>3
<1>6. ASSUME NEW c \in Conns, Connect(c) \/ Leave(c)
      PROVE  StepsLeft' = StepsLeft /\ UNCHANGED <<run, workers>>
  BY <1>2, <1>6 DEF Connect, Leave
<1>7. CASE UNCHANGED vars
  BY <1>2, <1>7 DEF vars
<1> QED
  BY <1>3, <1>4, <1>5, <1>6, <1>7 DEF Next

\* run() calls accept() with a connection waiting: nobody else takes it away.
SomeoneWaits == run.at \in {"ready", "accept"} => backlog # {}

\* Every step keeps a connection waiting for a run() that will accept it.
LEMMA SomeoneWaitsStep ==
    TypeOK /\ ThreadInv /\ SomeoneWaits /\ [Next]_vars => SomeoneWaits'
<1> SUFFICES ASSUME TypeOK, ThreadInv, SomeoneWaits, [Next]_vars PROVE SomeoneWaits'
  OBVIOUS
<1>0. run \in RunType /\ backlog \subseteq Conns
  BY DEF TypeOK
<1> USE <1>0 DEF SomeoneWaits
<1>1. ASSUME NEW t \in Callers, Open(t) \/ Close(t) \/ InsideCall(t) PROVE SomeoneWaits'
  <2>1. CASE OpenListen(t)
    <3>1. run.at = "none" /\ run' = run
      BY <2>1 DEF OpenListen, ThreadInv, InOpen
    <3> QED
      BY <3>1
  <2> QED
    BY <1>1, <2>1
    DEF InsideCall, Open, Close, OpenSocket, OpenStart, CloseJoined, RunType
<1>2. ASSUME ServerThread PROVE SomeoneWaits'
  <2>1. CASE GoesOn
    <3>1. CASE SelectReady \/ GoesToAccept
      BY <2>1, <3>1, GoesOnSteps DEF SelectReady, GoesToAccept, Move
    <3>2. CASE ~SelectReady /\ ~GoesToAccept
      BY <2>1, <3>2
      DEF GoesOn, LeaveLoop, StopsBeforeAccept, AcceptFails, GoesToBegin, Move, RunType
    <3> QED
      BY <3>1, <3>2
  <2>2. CASE ~GoesOn
    BY <1>2, <2>2, ServerSteps, GivesUpSteps
    DEF Accept, StartWorker, StopWorker, JoinWorker, FinishRun, RunType
  <2> QED
    BY <2>1, <2>2
<1>3. ASSUME NEW c \in Conns, WorkerThread(c) \/ Connect(c) \/ Leave(c)
      PROVE  SomeoneWaits'
  BY <1>3 DEF WorkerThread, WorkerStops, WorkerCloses, Connect, Leave
<1>4. CASE UNCHANGED vars
  BY <1>4 DEF vars
<1> QED
  BY <1>1, <1>2, <1>3, <1>4 DEF Next

\* The invariants close() rests on hold in every state.
LEMMA CloseAlways ==
    Spec => [](/\ TypeOK /\ WaitsForAWorker /\ ThreadInv /\ ServeInv
               /\ VectorInv /\ SomeoneWaits)
<1>1. Init => /\ TypeOK /\ WaitsForAWorker /\ ThreadInv /\ ServeInv
              /\ VectorInv /\ SomeoneWaits
  BY TypeInit, ThreadInit, ServeInit, VectorInit DEF Init, SomeoneWaits
<1>2. /\ TypeOK /\ WaitsForAWorker /\ ThreadInv /\ ServeInv
      /\ VectorInv /\ SomeoneWaits /\ [Next]_vars
      => (/\ TypeOK /\ WaitsForAWorker /\ ThreadInv /\ ServeInv
          /\ VectorInv /\ SomeoneWaits)'
  BY TypeStep, ThreadStep, ServeStep, VectorStep, SomeoneWaitsStep
<1> QED
  BY <1>1, <1>2, PTL DEF Spec

\* For any number of connections and callers, on both platforms and whatever
\* fails: while close() waits, every step of the thread it waits for brings it
\* nearer its end (Server::close, Server::run, Worker::close, Worker::run).
\* Having looked at enabled before close() cleared it, run() may still accept a
\* connection or take one into service, but this happens at most once: it has to
\* pass a point where it looks at enabled again.
THEOREM CloseComesNearer == Spec => CloseAdvances
<1>1. TypeOK /\ ThreadInv /\ WaitsForAWorker /\ VectorInv /\ [Next]_vars
      => [Advances]_vars
  BY AdvancesStep
<1> QED
  BY <1>1, CloseAlways, PTL DEF Spec, CloseAdvances

\* And there is always such a step, whatever the peers do: run() finds enabled
\* cleared wherever it looks, never calls accept() with nobody waiting, never
\* waits for a worker that has not been told to end, and never comes to one that
\* has been joined before.
THEOREM CloseWaitsForNoPeer == Spec => []CloseNeverStuck
<1>1. TypeOK /\ WaitsForAWorker /\ ThreadInv /\ VectorInv /\ SomeoneWaits
      => CloseNeverStuck
  <2> SUFFICES ASSUME TypeOK, WaitsForAWorker, ThreadInv, VectorInv, SomeoneWaits,
                      InClose
               PROVE  /\ ~server.enabled
                      /\ \/ run.at \in {"loop", "ready", "accepted", "begin", "stop",
                                       "finished"}
                         \/ run.at = "accept" /\ backlog # {}
                         \/ /\ run.at = "join"
                            /\ \/ /\ worker[Head(workers)].at = "serve"
                                  /\ ~worker[Head(workers)].enabled
                               \/ worker[Head(workers)].at \in {"close", "finished"}
    BY DEF CloseNeverStuck
  <2>1. ~server.enabled /\ run.at \in RunPcs \ {"none"} /\ workers \in Seq(Conns)
    BY DEF TypeOK, RunType, InClose, ThreadInv
  <2>2. CASE run.at = "join"
    <3>1. Len(workers) \in Nat /\ Len(workers) # 0 /\ Head(workers) = workers[1]
      BY <2>1, <2>2 DEF WaitsForAWorker
    <3>2. 1 \in 1..Len(workers)
      BY <3>1
    <3> QED
      BY <2>1, <2>2, <3>1, <3>2 DEF VectorInv
  <2> QED
    BY <2>1, <2>2 DEF RunPcs, SomeoneWaits
<1> QED
  BY <1>1, CloseAlways, PTL
=============================================================================
