# Verification of basics-cpp

TLA+ models of the programs in this repository that have state and behaviour
worth checking: the TLS echo server and client of `example-8` with its
certificate files and codecs, the plain socket variants of `example-6` on Linux
and Windows, and the plugin loader of `example-11`. The other examples are
toolchain templates around a placeholder class.

TLC checks small instances of every model; TLAPS proves the theorems listed
below for every value of the constants. `PROJECT.json` is the machine-readable
index: which definition models which lines, which run checks what, the known
hazards and the disagreements between code and documentation.

## 1. The system

| component | source | state it keeps | operations |
|---|---|---|---|
| TLS server | `example-8/src/ServerLinux.cpp` | `enabled`, `running`, `listenSocket`, `serverThread`, `tlsContextPtr`, file names, `mutexPublicMethods`; the vector of workers local to `run` | `open`, `close`, `isOpen`, the setters, `run` |
| TLS worker | `example-8/src/WorkerLinux.cpp` | `clientSocket`, `tlsPtr`, `enabled`, `running`, `workerThread` | `start`, `close`, `run`, `readString`, `write` |
| OpenSSL glue | `example-8/src/OpenSslWrapper.*` | none of its own; the deleters act on descriptors | handshakes, deleters, certificates, signatures |
| TLS client | `example-8/src/ClientLinux.cpp` | `clientSocket`, `enabled`, `tlsContextPtr`, `tlsPtr` | `open`, `close`, `write`, `tryReadString`, `readString` |
| plain server, worker, client | `example-6/src/*Linux.cpp` | as above without TLS | as above without TLS |
| Windows server, worker | `example-6/src/*Win.cpp`, `example-8/src/*Win.cpp` | as the plain ones | as the plain ones |
| algorithms | `example-8/src/Algorithm.cpp` | none | base64, base64url, hashes |
| programs | `example-*/src/main.cpp` | configuration | argument parsing, the server, client and algorithm dialogues |
| plugin loader | `example-11/.../SharedLibrary.h` | `libraryHandle`, `createHandle`, `destroyHandle` | `load`, `unload`, `create`, the instance deleter |

How they interact: threads that call the public methods serialise on
`mutexPublicMethods`. `open` starts the server thread, which alone accepts
connections, performs the handshake and starts one worker thread per
connection; it polls the atomic flag `enabled`, as does each worker. `close`
clears the flag and joins the server thread, which in turn stops and joins every
worker. All of them share the descriptor table of the process, where a closed
number is handed out again at once.

What makes it hard: flags polled between other steps, resources that only a
join protects, descriptor numbers that outlive their connection, calls that fail
half way through `open`, peers that leave or stall at any moment, partial
writes, and integer narrowing of lengths.

What makes each part correct:

- server: one server thread at a time; `close` returns, and leaves no thread, no
  descriptor and no worker; the running thread never loses what it reads; no
  connection is served by a closed server, or twice.
- worker: it uses and closes only its own connection's descriptor, and releases
  it when the peer leaves.
- write loop: bytes in order, once each, never behind the buffer; the result
  tells whether all were sent.
- plugin loader: cached functions are never those of an earlier mapping; every
  instance ends in the destroy function of its own library.
- client: it closes only a descriptor it opened; data pass only over the
  connection it opened, inside its session; reopening starts afresh.
- echo session: what comes back is a prefix of what was sent.
- certificate files: after any failure or restart, key and certificate match.
- command line: a program runs on the port that was typed.
- base64: decoding inverts encoding.

## 2. Modules

| module | models | extends |
|---|---|---|
| `Descriptors` | the kernel's descriptor table: lowest free number, release (external) | |
| `TlsWorker` | the TLS worker threads, all variables indexed by connection | `Descriptors` |
| `ServerLife` | abstract: what a server promises its callers and clients | |
| `TlsServer` | callers, server thread and peers, composed with the workers; implements `ServerLife` | `TlsWorker` |
| `Client` | the life of both clients over the same kind of table | `Descriptors` |
| `PlainServer` | server and workers without TLS, Linux and Windows; implements `ServerLife` | `Descriptors` |
| `WriteLoop` | the loop shared by the four `write` methods | |
| `EchoStream` | abstract: what an echo session promises | |
| `EchoSession` | console client, connection and worker, with TLS or without; implements `EchoStream` | |
| `SharedLibrary` | plugin loader with dlopen's reference counts | |
| `Base64` | the codecs of `Algorithm.cpp` as operators | |
| `Algorithm` | the encode, decode and file hash tasks | `Base64` |
| `Arguments` | the command line, as operators | |
| `KeyFiles` | the programs that create and use key and certificate, from their command line on | `Base64`, `Arguments` |
| `MCTlsServer`, `MCWriteLoop`, `MCSharedLibrary`, `MCKeyFiles` | symmetry and constants of the instances | |
| `*_proofs` | theorems about the module they are named after | that module |

### TLS server and worker

Control points follow the source: `srvPc` is where `Server::run` is, `wPc[c]`
where `Worker::run` of connection `c` is, `pc[t]` where caller `t` is inside a
public method. One action is what happens between two reads of shared state or
two calls that can block. A look at `enabled` and what is done on the strength of
it are two steps (`GoesToAccept` and `Accept`, `GoesToBegin` and `BeginHandshake`,
`WorkerChecks` and `WorkerRead`), so that a concurrent `close` can clear the flag
in between, and the step is still done.

- `open` is `Open`, `OpenContext`, `OpenSocket`, `OpenListen`, `OpenStart`; each
  may fail and then returns with what the code has cleaned up.
- `close` is `Close` (flag cleared) and `CloseJoined` (everything after the
  join). A call that returns at once (`open` when enabled, `close` when not)
  changes nothing and is not an action.
- `Server::run` is `CheckEnabled` .. `FinishRun`. The vector of workers is
  consumed from its head when they are stopped; nothing reads it afterwards.
- `Worker::close` is `SignalWorker` and `ReapWorker`; the latter resets the TLS
  session and closes the descriptor if `run` has not. `Carrier(c)` is what the
  session's descriptor number refers to at that moment.
- A retried `SSL_write` or `SSL_accept` changes nothing and is no step; a retried
  `SSL_read` takes the worker back to its look at `enabled` (`WorkerReadWaits`).
  The message itself is abstracted to "there is something to read".
- `BeginHandshake` is where `acceptTls` enters its loop, which `HandshakeDone` and
  `HandshakeFails` leave. With a peer that has said nothing (`SilentHandshake`)
  only a failure of `SSL_accept` for another reason does.
- `isOpen` appears as `IsOpen` in the setters, which check it under the mutex
  and assign later.
- The kernel resets connections left in the backlog of a closed listening
  socket. `::close` always releases the number; with `CloseMayFail` it may still
  report an error, after which `run` keeps the number.

Constants: `Callers`, `Setters` (callers that use the setters), `Conns` (each
connection is used once), `MaxFd`, `Backlog`, `Names`, and the two switches
`StepsMayFail` (system and OpenSSL calls) and `CloseMayFail`.

### What a server promises

`ServerLife` knows the server's life (`closed`, `open`, `closing`) and which
connections are served and have been. The refinement mapping `Life` of both
servers reads the life off `enabled` and a caller that waits in its join, and the
sets off where the workers are. A server whose `run` ended by itself, after
`select` failed, is still open in this sense: `isOpen` says so. A connection may
get its worker while the server is closing, because `run` does not look at
`enabled` again between the handshake and the start of the worker; it may not
afterwards.

### Client

`tls` says which client it is; without it `open` ends where `connectTls` would
begin, and there is never a session. One thread drives the client; another one of
the same process opens and closes descriptors of its own (`OtherOpens`,
`OtherCloses`). `open` is `Open` to `Handshake`, with a failing alternative for
each step. `tlsPtr` records the connection and the number its session was bound
to; deleting a session (`Goodbye`) writes on whatever that number is by then. The
constructor leaves `clientSocket` uninitialised, so `Init` gives it any value and
`assigned` says when that has ended. `write`, `tryReadString` and the blocking
`readString` change none of this state; what the bytes do is in `EchoSession` and
`WriteLoop`, and whose session and socket they use is what `SessionIsOwn` says.

### Server without TLS, on Linux and Windows

`platform` chooses the implementation. The two share their outline; the
differences are operators: `NewSocket` (lowest number or any free handle),
`ClosesListenSocket` (the Windows test is the wrong way round), `PortTaken`
(`SO_REUSEPORT` is set on Linux only), `ForgetsSocket` (what a worker does with a
number whose closing reported an error). As in the TLS server, looking at `enabled`
is a step of its own in `run`. A worker is a record; what it does
between its start and its end is one action, as its bytes are in `EchoSession`.
The two Windows files of `example-6` and `example-8` have the same code.

### Echo session

`at` is where `runClient` is, `workerAt` where `Worker::run` is; each direction
of the connection is a sequence bounded by `Cap`, each end has the rest of the
message it is writing. A `::write` takes any part that fits. The n-th byte of a
session is the number n, so that a lost, repeated or reordered byte shows. Either
end may stop at any moment, and closing with unread bytes may discard those still
on their way. The user may enter a line of any length up to `MaxMessage`, or an
empty one.

The two programs differ in what a read returns (`Chunk`). `::read` returns all
there is up to `Buf` bytes. `SSL_read` returns one record, and nothing as long as
the record is incomplete (`FirstRecord`). `ends` has the bytes that end a record:
`SSL_write` makes one record of what it is given, a line in the client and, as the
worker passes on what `SSL_read` gave it, the same line in the worker. Records
carry at most 16 KiB; a longer line would be several, and a record longer than the
read buffer would be returned in parts: `EchoAssumption` keeps lines within the
buffer, and `MaxMessage` stands for a line that is one record. The framing around a record takes no room in the model.

### Write loop

`length` is the size_t argument, `remaining` the int it is narrowed to, `wire`
the indices of the bytes the connection accepted. The width of int is the
constant `HalfRange` (2^31 in the program), so that TLC can go round it and
TLAPS can leave it open.

### Plugin loader

`mapped` is the linker's reference count of a file, `epoch` counts how often it
was unmapped, and a cached function pointer is the epoch it points into. The
user of the class may call everything in any order within the documented rule:
no unload and no destruction while an instance of the object lives. `main` of
`example-11` is one such user: its instances are destroyed before its libraries.

### Codecs, hash and key files

`Base64` has the structure of the code around OpenSSL's BIO filter with digit
and byte size as parameters: a digit is three and a byte four of some unit, so that
four digits are three bytes. A string is a sequence of digit numbers and of the
characters outside the alphabet; `WithoutPadding` is the loop at the end of
`encodeBase64Url`, undefined on an empty string, for which `runAlgorithm` does not
call it. `IntMax` is INT_MAX: the decoder refuses a string whose buffer would be
longer (`BufferFits`), and the encoder casts the length of its input unchecked,
which changes nothing of inputs no longer than that (`AlgorithmAssumption`).
`Algorithm` runs one task on every input and lets the user lose any part of the end
of an encoded string. `calcSha256File` is modelled by the bytes it hands to the
digest. It opens the file twice: `fileExists` fails in `FileMissing`, and in
`OpenFile` the second opening may fail (`opened`), which the code does not ask.

A command line is a sequence of tuples in `Arguments`: an action word, or a
parameter and its value. The last value of a parameter counts; a port that is no
number or too large is refused and leaves the previous one; `stoul` negates
modulo the width of unsigned long and throws beyond it, which nothing catches
(`Terminates`); the number is then narrowed (`Narrow`). `Selected` is the program
`main` runs.

`KeyFiles` has the two files, one program that is starting and one server that
may be running. `made` numbers the generated pairs. A file is absent, partial,
or holds the key or certificate of a pair. A program starts from a command line
of `Lines`, creates the files if one is missing (`Start`, `OpenKey`, `WriteKey`,
`OpenCert`, `WriteCert`), may be killed at every step, and then serves, signs or verifies. `Killed` in between and
a write that gets lost in `fclose` are the hard cases.

## 3. What the runs check

| run | instance | shows |
|---|---|---|
| `tls_two_callers` | 2 callers, 3 connections, 3 descriptors, calls may fail | refines `ServerLife` (`LivesAsPromised`), `OneServerThread`, `RunOwnsResources`, `Quiescent`, `OwnDescriptor`, `ReleasedByOwner`, `LostOnlyWhenAbandoned` |
| `tls_live` | 1 caller with setters, 2 connections, 2 descriptors, calls and `::close` may fail, fairness | `CloseReturns`, `CloseAdvances`, `OnlySilenceStalls`, `DepartedIsReleased`, `NamesFixedWhileOpen` |
| `tls_late_notify` | 1 caller, 2 connections, nothing fails | violated: a late `SSL_shutdown` reaches another client's connection |
| `write_loop` | 3 bit int, lengths 0..17 | `SendsAPrefix`, `HonestIfItFits` |
| `shared_library` | 3 objects over 2 files, 2 instances, 2 remappings | `CachedSymbolsCurrent`, `InstanceCodeMapped`, `PassedBack` |
| `plain_server` | both platforms, 2 callers, 2 connections, 3 sockets, calls and closing may fail, fairness | refines `ServerLife` (`LivesAsPromised`), `StartsAlone`, `RunListens`, `PortIsFree`, `ReleasedByOwner`, `CloseReturns` |
| `windows_close` | Windows, 1 caller, nothing fails | violated: a closed server still listens |
| `client` | with TLS and without, 3 connections, 3 descriptors, another thread | `SessionIsOwn`, `NothingLeaks`, `OthersIntact` |
| `client_reopen` | the same | violated: the old session's goodbye is sent on the new connection |
| `echo_session` | with TLS and without, 10 bytes, lines up to 2, read buffer 2, connection 3, fairness | refines `EchoStream` (`Echoes`), `Conserved`, `RecordsFollow`, `NeverBothWait`, `EchoReturns`, `WorkerEnds` |
| `algorithm` | inputs and files of up to 7 of 3 sampled bytes, an int up to 7, chunks of 2 | `RoundTrip`, `CutGivesPrefix`, `HashesWholeFile` |
| `key_files` | command lines of up to 3 arguments, 3 pairs, 2 inputs, failures, kills, lost data | `ServesItsPair`, `FilesUsable`, `VerdictIsRight`, `PortAsTyped` |

No run checks a `TypeOK`: that of every model is proved (section 4), in `Algorithm` also
what alphabet a string is in.

### Bounds

- TLS and plain server: three sockets leave two for connections, which includes
  reuse of a number while an earlier worker is still unreaped, exhaustion, and a
  connection waiting in the backlog. Opening and closing may be repeated as long
  as connections last. Two callers give every interleaving of two public calls,
  which one mutex serialises. Connections and callers are interchangeable, so
  `tls_two_callers` uses symmetry; the runs with liveness do not.
- Client: three connections are two reopenings. A connection is fresh when it is
  neither the last one nor open, so the run has no end.
- Plugin loader: two objects on one file give the shared reference count, the
  third an independent file.
- Write loop: lengths up to 17 with a 3 bit int wrap twice.
- Echo session: with a line of 2, a read buffer of 2 and a connection of 3 every
  buffer can be full, partly full and empty together with every other; ten
  bytes fill all of them (3 + 3 on the connection, 2 + 2 in the ends). With TLS
  they are also enough for both ends to wait: a short first line lets the reads
  fall behind the longer lines after it. `NeverBothWait` was also tried with
  connections of 2 to 6 and read buffers of 1 to 4.
- Codecs: seven bytes are two complete groups and a last one of every length. With an
  int up to 7 the decoder's buffer fits for inputs of up to 6 and is refused for 7,
  at the boundary. The three sampled bytes yield the digits 0, 6 and 7 among others,
  so both characters that differ in base64url. Eight digits with 16 byte values
  have the same regrouping, 4 figures for 3, as 64 with 256.
- Key files: with three pairs, a file of the first can meet two later ones.
- Command lines: every line of at most three of thirteen arguments that starts a
  program with key files. One of them is the action word, or two are word and
  task, so that two ports meet in either order with a server, and port or input
  with a task. Ports are in range, the first one out of it, beyond
  unsigned long, negative, and no number; with ports of two bits and an unsigned
  long of four, 3 is the last port, 4 the first that is refused, 16 terminates
  and -14 is taken for 2.

`CHECK_DEADLOCK FALSE` stands where a system really may stop: bounded
connections, instances, bytes and pairs are used up, or the program is at its end.

### Fairness

`TlsServer`: every thread that can step eventually does, which is what the
scheduler gives and, for `select` and the polling sleeps, what their timeouts give.
A successful `SSL_write` is excluded, since a peer that does not read can withhold
it; so is starting a public call. Peers promise nothing, and the handshake of a
silent one is excluded too (`ServerThread /\ ~SilentHandshake`): in the model
`SSL_accept` may fail there for another reason, but nothing brings that about.
`acceptTls` waits for such a peer without looking at `enabled`, so that
`CloseReturns` names the case in which `run` stays there for ever
(`<>[]SilentHandshake`) as its single exception. `PlainServer` needs nothing of the peers:
its fairness is that of its own threads. `EchoSession` assumes fairness of the
client's and the worker's thread; the user's typing is no part of it but a
premise of `EchoReturns`, because responses are read only after a line.

### Assumptions the properties rest on

- `EchoSession`: lines fit the read buffer and that fits the connection
  (`EchoAssumption`; 65535 bytes, against the socket buffers of both ends of a
  direction together, usually larger). With lines of 3 and a read buffer of 2, `NeverBothWait` does not hold: both ends retry a
  full socket and neither reads. `main` does not limit the length of a line.
- With TLS both ends can wait for each other even with lines that fit: a prompt
  reads one record and then writes a line that may be longer, so that records pile
  up. `EchoReturns` therefore has `BothWait` as an exception for TLS, and says that
  nothing else keeps an echo back.
- `Client`: `OthersIntact` holds from the first socket on; before it, closing a
  client whose `open` never got a socket closes an uninitialised number. It also
  needs `::close` to succeed. `SessionIsOwn` is about one thread: `open` sets
  `enabled` first and `write` and the reads do not take the mutex, so that another
  thread could write on the bare socket before the handshake.
- `HashesWholeFile` excepts a file that was there and cannot be opened again, and
  `CutGivesPrefix` the last byte when one character of a base64url group is left; in
  both cases the code succeeds with a result that is not one.
- `OwnDescriptor` and, on Linux, `ReleasedByOwner` need `::close` to succeed, in both
  servers: `run` keeps the number when `::close` reports an error, and
  `Worker::close` closes it again. The Windows worker forgets it in either case.
- `LostOnlyWhenAbandoned` names the one place where a descriptor is forgotten, the
  `break` or `continue` of `run` after `accept`; there it is certain.
- `PortAsTyped` takes a negative port for what `stoul` makes of it.
- `NamesFixedWhileOpen` is checked with one caller: with two, a setter's
  assignment can fall behind another caller's `open`.
- `KeyFiles`: one program at a time creates files, and the user removes the
  certificate or both files, never the key alone (an old certificate would then
  be there while a new key is written). `FilesUsable` leaves out a program killed
  while it writes the certificate and data lost in `fclose`: both leave files
  that exist and cannot be loaded, and no program replaces them.

### What the violations say about the code

1. `tls_late_notify`: `Worker::run` closes `clientSocket` when the peer leaves, but
   the session stays bound to that number until `Worker::close`, whose
   `tlsPtr.reset()` calls `SSL_shutdown`. In between `accept` may reuse the number:
   the close_notify of one session is written into another's connection.
2. `client_reopen`: `Client::close` keeps the session, and the next `open` replaces
   it only after the new handshake. The new socket has usually the old number, so
   the new connection is told goodbye as soon as it is established.
3. `windows_close`: `closeSocket` of the Windows server returns early for every
   valid socket. A closed server listens on, and opening it again cannot bind.

Other observations made while modelling, for which there is no run: `break` and
`continue` after `accept` forget the accepted descriptor (`ServerLinux.cpp:749`,
`:761`); a peer that stays silent in its handshake stops `close`
(`OpenSslWrapper.cpp:116`); `write` narrows its length to int and reports success
for lengths that wrap to 0 or less (`ClientLinux.cpp:487`); `tryReadString` of
`example-6` returns 1 at the end of the stream (`ClientLinux.cpp:485`); `main.cpp`
of `example-8` parses the key and certificate arguments and drops them (`:394`);
`calcSha256File` opens the file a second time without asking whether that worked and
then takes everything for okay, so that it may return the hash of nothing
(`Algorithm.cpp:219`); with a password the passphrase buffer is never filled (`OpenSslWrapper.cpp:326`);
the vector of workers is pruned only when the server stops, so that it and the
joinable threads of departed peers grow with every connection
(`ServerLinux.cpp:776`); a port beyond unsigned long ends the program with an
exception that is not caught (`main.cpp:312`); the vector overload of
`encodeBase64Url` does not convert its alphabet
(`Algorithm.cpp:422`), and a base64url string cut to a length of 1 modulo 4 is
accepted, with a last byte that was never encoded (`Algorithm.cpp:156`).

## 4. What is proved

All theorems hold for any constants that satisfy the named assumptions.

`TlsServer_proofs`, for any number of callers, connections, descriptors and any
backlog, along one chain of invariants, each inductive with those before it:

1. types, and that the server thread waits for a worker only while the vector
   holds it (`WaitsForAWorker`), which is what keeps the vector's head defined:
   `TypeCorrect`.
2. `ThreadInv` ties the callers' positions to the mutex, and `enabled`, `joinable`
   and the existence of the thread to each other: they agree whenever the mutex is
   free, and the caller inside `open` or `close` knows them: `NeverTwoServerThreads`.
3. `ServeInv`: a worker that has not been joined is in the vector, and the vector
   is empty once `run` has ended; a connection that waits in the backlog or is in the hands of `run` has no
   worker yet. Without it nothing says that the join in `close` is also a join of
   the workers: `ImplementsServerLife`, the refinement of `ServerLife`, and, with the
   step that abandons an accepted connection, `LostThereOnly`.
4. `ListenInv`: no descriptor but the one in `listenSocket` is a listening or unbound
   one, and which part of `open`, `run` or `close` still has it:
   `RunKeepsItsResources` and `ClosedMeansReleased`, also if `::close` fails.
5. `OwnInv`, where `::close` succeeds (`CloseWorks`): the number a worker and its
   session remember carries their connection until `run` ends, and then the worker
   remembers none. That a closed number is forgotten in the same step is what makes
   it inductive: `SessionsKeepTheirDescriptor` and `OnlyOwnersRelease`.

6. `VectorInv`: each worker is in the vector once, the vector holds none that has been
   joined, and only the worker the server thread waits for has been told to end.
   `HandInv`: the number `run` has from `accept` carries a connection, and each
   session's number that session's connection until `run` stops them, also if `::close`
   fails. With both, `CloseWaitsForSilenceOnly`
   (`OnlySilenceStalls`) and `CloseComesNearer` (`CloseAdvances`).

`CloseAdvances` is as much of `CloseReturns` as can be proved: `StepsLeft` counts the
steps that `run` and the workers it waits for have left. While `close` waits, each such
step makes it smaller, and connections, peers, setters and other workers leave it as it
is. A step whose look at `enabled` came before `close` cleared it is still to be done
and counted: one `accept`, one connection taken into service, one `SSL_read` of each
worker; each then has to pass a look at `enabled` again. What is missing is that the
steps happen. That they can is `OnlySilenceStalls`, except in the handshake of a silent
peer, which holds `close` up for as long as it lasts. That they do is fairness, and
`tls_live` checks it.

`ReportsTheNamesInUse` stands beside the chain and needs its second link only. It
is about one caller (`OneCaller`): `NamesInv` says that inside `open` the context has
the present names, and that a setter about to assign finds the server closed.

`PlainServer_proofs` has the same chain for the plain server on both platforms:
`TypeCorrect`, `OpensWithoutLeftovers`, `ImplementsServerLife`, `RunAlwaysListens`,
`LinuxPortIsFree`, `OnlyOwnersRelease`. `ListenInv` is where the platforms differ:
only Linux lets go of the listening socket, so that on Windows the invariant says no
more than that the one in `listenSocket` is there while `run` executes and that no
worker holds its number. `OwnInv` needs `::close` to succeed on Linux and nothing on
Windows. About `close` there are two theorems as for the TLS server, and both hold
whatever fails. `CloseComesNearer`: at most one more connection is accepted or taken
into service while `close` waits, if `run` had looked at `enabled` before it was
cleared. `CloseWaitsForNoPeer`: the next step of `run`, or of the worker it waits for, needs
nothing of a peer. They are stated in `PlainServer_proofs` (`CloseAdvances`,
`CloseNeverStuck`, with `VectorInv`) as what `CloseReturns` of `plain_server` rests on.

Both servers and the client rest on two facts about the table: a new descriptor has
a number that was free (`LowestFreeIsFree`), and a call changes one entry
(`OnlyThatDescriptor`). They are stated at the top of each of the three modules.

`Client_proofs`: `ClientTypes`, `OpenOnOwnSocket`, `NoSocketLeft`, from
`SocketInv`: the client has a descriptor exactly where `open` or an open client
holds one, it is the number it will close, and descriptors of others are never
of that kind. These hold even if `::close` reports errors.
`OthersKeepTheirs` assumes that it does not, and adds that a client without a
socket remembers no number (`Forgets`).

`SharedLibrary_proofs`: `NoStalePointers`, `CodeStays`, `EveryInstancePassedBack`.
The invariant `Counted` says that the linker's count of a file is the number of
objects that hold it; when the last reference goes (`LastHolder`), no other object
has functions of that file. `SymbolsInv` ties pointers and instances to the
current mapping.

`KeyFiles_proofs`: `AServerHasItsPair` and `NoHelpNeeded`, from `Written`: until the
key of a new pair is on disk there is no certificate, so that a certificate is
never beside a key of another pair, whatever fails or is killed. `NoPortOfItsOwn`
says for lines of any length and any widths of port and unsigned long that the
port was typed: `LastIsOne` (the last of the positions of a parameter is one of
them, from the well-foundedness of the naturals), `Reduce` (what is left of a
number modulo a width it is within) and `PortOfLine`. `VerifiedAsSigned` is about what
"verify" says across programs: `SigInv` says that the last signature is one, of some
key and input, and that until the user removes files they keep that key and no
program is making another, since the files are there. That a printed signature is
decoded to its bytes is a lemma of `Algorithm_proofs`, which `Codec` instantiates; it
speaks of none of that module's variables. `TypesKept` puts the types of `SigInv` and
`FilesInv` together.

`Algorithm_proofs`, for byte sequences and files of any length, and any size of digit
and byte that `Base64Assumption` allows: `DecodingInverts`, `CutDecodesToBeginning`,
`WholeFileHashed` and `AlphabetsKept`. The codecs are functions on positions, so that
no induction over data is needed. A figure of a number is the number divided and
reduced (`Division`, `Quotient`), and the four or three figures of a group determine
its value (`FourFigures`, `FiguresOfThree`, `GroupFits`). `Regrouped` says which
group and place a position has, hence that regrouping the digits gives each group
back (`GroupOfBytes`, `GroupCount`). The last group of the bytes may be incomplete;
`PaddedDigits` says that the digits replaced by padding were zero, so that the decoder,
which takes padding for zero, computes the same value: `DecodesEncoded`. For
base64url, the two replacements do not collide because neither alphabet has the
characters of the other (`ReplacedTwice`, `Alphabets`), and the length modulo four
restores what the loop removed (`PaddingRemoved`, `UrlDecodesEncoded`). Of a string that
was cut, the complete groups decode as before, and the last one, whose missing digits
count as zero, agrees with the input as far as its bytes are returned (`LostDigits`,
`Agrees`, `DecodesBeginning`); `UrlRestored` and `CutDecoded` lead both alphabets to
that. The
invariant `AlgorithmInv` ties these to the tasks: what is printed is the encoded
input, or a beginning of it, and the hash has had the bytes in
front of the read position (`HashInv`, with `ChunkAdded` for one read).

`EchoSession_proofs`, with TLS and without, for all sizes that `EchoAssumption` allows
and lines that are one record each: `BuffersHold`, `NoByteLost` and
`SessionEchoes`, the refinement of `EchoStream`. `StreamInv` says that the buffers
hold adjoining stretches of the session's bytes; `StretchJoins`, `StretchCut` and `PartMoves` say what reading and
writing a part does to two of them. `NobodyWaitsForARest` (`RecordsFollow`) is what
`EchoReturns` rests on with TLS, where `SSL_read` returns nothing of an incomplete
record: `RecordInv` says that records end less than a read buffer apart, the last one
with the last line, and that the worker has taken in whole records (`EchoEnd`), so that
a stream without a complete record (`FindsRecord`, `ReadReturns`) is one that is still
being written. `OneEndCanGoOn` is `NeverBothWait` for every size
of line, read buffer and connection that `EchoAssumption` allows. For both ends to
wait, more than `Cap` bytes have to be on the way back (`Back`) and more than `Cap` on
the way out. `WaitInv` says that while a line is written one of the two is not so:
a worker's read leaves room for the rest of the line, and before each line the
client's read has left no more than `Cap` on the way back.

`WriteLoop_proofs`, for every width of int and every length: `WriteTypes`,
`NeverOutsideTheBuffer` and `HonestResult`, from the invariant `LoopInv`
(position plus remaining never exceeds the length, and equals it when the length
fits an int) and the lemma `Narrowing` about the conversion.

Only model-checked: the liveness properties (`CloseReturns`, `DepartedIsReleased`,
`EchoReturns`, `WorkerEnds`), which need fairness and ENABLED and are beyond the
prover. Of `CloseReturns` of both servers the safety part is proved, as described above.

## 5. Plan

Done, in this order: TLS server and worker, write loop, plugin loader, client,
plain server, echo session, key files, codecs; then the abstract life of a server
with its refinements, the sessions over TLS, the command
line, and the proofs about both servers; then the proofs about the codecs,
the hash, the signatures, what `close` waits for and the records of TLS.

Left:

1. Two programs that create the same files at the same time. Nothing in the code
   prevents it and `ServesItsPair` is not expected to hold of it.
2. Lines longer than a TLS record, with the framing counted in the connection.

Not modelled, and why:

- the Windows client: a stub that reports a missing implementation;
- Winsock start-up, console output and the wording of messages: no property
  depends on them;
- the digests, signatures and certificate contents: OpenSSL's, and represented by
  what they distinguish;
- the host name on the command line, which is passed on as it is; no argument sets
  the password, and the key and certificate names are parsed and dropped;
- the other examples (toolchain templates around a placeholder class), build
  scripts and container images: no program logic.
