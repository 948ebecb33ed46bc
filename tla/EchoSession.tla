---------------------------- MODULE EchoSession ----------------------------
(* One session of the console client with the worker of the echo server on
   Linux, without TLS (example-6) or with it (example-8): runClient in main.cpp
   with Client::write and Client::tryReadString, and Worker::run with readString
   and write, over the two byte streams of a connection, each with a bounded
   buffer.  Either end may stop at any time.  The byte number n of the session
   is the number n.

   The two programs differ in how they read.  ::read returns whatever has
   arrived; SSL_read returns a record at a time, and nothing of a record that is
   not complete.  SSL_write makes one record of what it is given, which is a line
   in the client and what SSL_read returned, so the same line, in the worker. *)
EXTENDS Integers, SequencesExt

CONSTANTS
    Cap,            \* bytes each direction of the connection buffers
    Buf,            \* MAX_BUFFER_SIZE of Client and Worker
    MaxMessage,     \* the longest line the user types
    MaxBytes        \* bound on the bytes of the session

\* A line fits the read buffer, and a read buffer fits the connection.  With
\* longer lines client and worker can both wait for room to write in forever.
\* With TLS a line is also one record, which carries at most 16 KiB: of a longer
\* one SSL_write makes several, and SSL_read returns a record in parts if it is
\* longer than the buffer.  Nothing here is about such lines.
ASSUME EchoAssumption ==
    /\ Buf \in Nat \ {0} /\ Cap \in Nat /\ Buf <= Cap
    /\ MaxMessage \in 0..Buf
    /\ MaxBytes \in Nat

VARIABLES
    tls,            \* whether both ends speak TLS; never changes
    ends,           \* with TLS, the bytes that end a record
    at,             \* control point of runClient
    toSend,         \* what remains of the message in Client::write
    toServer, toClient,     \* the two directions of the connection
    workerAt,       \* control point of Worker::run
    enabled,        \* Worker::enabled
    toEcho,         \* what remains of the message in Worker::write
    sent, received  \* the bytes of EchoStream

vars == <<tls, ends, at, toSend, toServer, toClient, workerAt, enabled, toEcho, sent,
          received>>

Init ==
    /\ tls \in BOOLEAN /\ ends = {}
    /\ at = "read"
    /\ toSend = <<>> /\ toServer = <<>> /\ toClient = <<>> /\ toEcho = <<>>
    /\ workerAt = "read"
    /\ enabled = TRUE
    /\ sent = <<>> /\ received = <<>>

First(s, n) == SubSeq(s, 1, n)
Rest(s, n) == SubSeq(s, n + 1, Len(s))
AtMost(m, n) == IF m < n THEN m ELSE n

\* The numbers of parts ::write may take of the rest of a message.
Parts(rest, stream) == 1..AtMost(Len(rest), Cap - Len(stream))

\* What SSL_read returns: the first record if all of it has arrived, else nothing.
FirstRecord(stream) ==
    LET Arrived == 1..AtMost(Buf, Len(stream))
        IsRecord(n) == /\ stream[n] \in ends
                       /\ \A m \in 1..(n - 1) : stream[m] \notin ends
    IN  IF \E n \in Arrived : IsRecord(n) THEN CHOOSE n \in Arrived : IsRecord(n) ELSE 0

\* How much a read returns: a record, or all there is up to the buffer.
Chunk(stream) == IF tls THEN FirstRecord(stream) ELSE AtMost(Buf, Len(stream))

ClientOpen == at # "stopped"
WorkerOpen == workerAt # "ended"
-----------------------------------------------------------------------------
(* The client. *)

\* Mutant of Enter: an empty line does not look for a response.
EnterSkipsEmpty(n) ==
    /\ at = "prompt"
    /\ n \in 0..MaxMessage /\ Len(sent) + n <= MaxBytes
    /\ toSend' = [i \in 1..n |-> Len(sent) + i]
    /\ sent' = sent \o toSend'
    /\ at' = IF n = 0 THEN "prompt" ELSE "write"
    /\ ends' = IF tls /\ n > 0 THEN ends \cup {Len(sent')} ELSE ends
    /\ UNCHANGED <<tls, toServer, toClient, workerAt, enabled, toEcho, received>>

\* std::getline returns a line of n bytes.  At the end of the input it returns
\* an empty one, again and again.
Enter(n) ==
    /\ at = "prompt"
    /\ n \in 0..MaxMessage /\ Len(sent) + n <= MaxBytes
    /\ toSend' = [i \in 1..n |-> Len(sent) + i]
    /\ sent' = sent \o toSend'
    /\ at' = IF n = 0 THEN "read" ELSE "write"
    /\ ends' = IF tls /\ n > 0 THEN ends \cup {Len(sent')} ELSE ends
    /\ UNCHANGED <<tls, toServer, toClient, workerAt, enabled, toEcho, received>>

\* Mutant of ClientWrite: the client looks for responses only after an empty line.
ClientWriteReadsLater ==
    /\ at = "write"
    /\ \E n \in Parts(toSend, toServer) :
          /\ toServer' = IF WorkerOpen THEN toServer \o First(toSend, n) ELSE <<>>
          /\ toSend' = Rest(toSend, n)
    /\ at' = IF toSend' = <<>> THEN "prompt" ELSE "write"
    /\ UNCHANGED <<tls, ends, toClient, workerAt, enabled, toEcho, sent, received>>

\* One ::write of Client::write; the last one leads on to tryReadString.  What
\* is written to an end that is closed is lost.
ClientWrite ==
    /\ at = "write"
    /\ \E n \in Parts(toSend, toServer) :
          /\ toServer' = IF WorkerOpen THEN toServer \o First(toSend, n) ELSE <<>>
          /\ toSend' = Rest(toSend, n)
    /\ at' = IF toSend' = <<>> THEN "read" ELSE "write"
    /\ UNCHANGED <<tls, ends, toClient, workerAt, enabled, toEcho, sent, received>>

\* Client::close.  Bytes the client has not read reset the connection, which
\* may discard those still under way to the worker.
ClientCloses ==
    /\ at' = "stopped" /\ toSend' = <<>>
    /\ toClient' = <<>>
    /\ toServer' \in IF toClient # <<>> THEN {toServer, <<>>} ELSE {toServer}
    /\ UNCHANGED <<tls, ends, workerAt, enabled, toEcho, sent, received>>

\* write fails: runClient breaks out of its loop and closes.
ClientWriteFails == at = "write" /\ ~WorkerOpen /\ ClientCloses

Quit == at = "prompt" /\ ClientCloses

\* tryReadString, which does not wait: with nothing to read, at the end of the
\* stream and after an error the dialogue goes on.
ClientRead ==
    /\ at = "read"
    /\ received' = received \o First(toClient, Chunk(toClient))
    /\ toClient' = Rest(toClient, Chunk(toClient))
    /\ at' = "prompt"
    /\ UNCHANGED <<tls, ends, toSend, toServer, workerAt, enabled, toEcho, sent>>
-----------------------------------------------------------------------------
(* The worker. *)

WorkerRead ==
    /\ workerAt = "read" /\ enabled /\ Chunk(toServer) > 0
    /\ toEcho' = First(toServer, Chunk(toServer))
    /\ toServer' = Rest(toServer, Chunk(toServer))
    /\ workerAt' = "write"
    /\ UNCHANGED <<tls, ends, at, toSend, toClient, enabled, sent, received>>

\* Mutants of WorkerWrite: the next part starts where the last one did; a
\* partial write is taken for a complete one.
WorkerWriteAgain ==
    /\ workerAt = "write" /\ enabled
    /\ \E n \in Parts(toEcho, toClient) :
          /\ toClient' = IF ClientOpen THEN toClient \o First(toEcho, n) ELSE <<>>
          /\ toEcho' = First(toEcho, Len(toEcho) - n)
    /\ workerAt' = IF toEcho' = <<>> THEN "read" ELSE "write"
    /\ UNCHANGED <<tls, ends, at, toSend, toServer, enabled, sent, received>>
WorkerWriteOnce ==
    /\ workerAt = "write" /\ enabled
    /\ \E n \in Parts(toEcho, toClient) :
          toClient' = IF ClientOpen THEN toClient \o First(toEcho, n) ELSE <<>>
    /\ toEcho' = <<>> /\ workerAt' = "read"
    /\ UNCHANGED <<tls, ends, at, toSend, toServer, enabled, sent, received>>

WorkerWrite ==
    /\ workerAt = "write" /\ enabled
    /\ \E n \in Parts(toEcho, toClient) :
          /\ toClient' = IF ClientOpen THEN toClient \o First(toEcho, n) ELSE <<>>
          /\ toEcho' = Rest(toEcho, n)
    /\ workerAt' = IF toEcho' = <<>> THEN "read" ELSE "write"
    /\ UNCHANGED <<tls, ends, at, toSend, toServer, enabled, sent, received>>

\* Worker::write fails, which run() only reports: it reads again.  The error
\* says that the client has gone; what it sent may have gone with it.
WorkerWriteFails ==
    /\ workerAt = "write" /\ enabled /\ ~ClientOpen
    /\ toEcho' = <<>> /\ workerAt' = "read"
    /\ toServer' \in {toServer, <<>>}
    /\ UNCHANGED <<tls, ends, at, toSend, toClient, enabled, sent, received>>

\* Mutant of WorkerStops: write does not look at enabled.
WorkerStopsReading ==
    /\ workerAt = "read" /\ (~enabled \/ (Chunk(toServer) = 0 /\ ~ClientOpen))
    /\ workerAt' = "close" /\ toEcho' = <<>>
    /\ UNCHANGED <<tls, ends, at, toSend, toServer, toClient, enabled, sent, received>>

\* readString and write give up when enabled is cleared, and readString at the
\* end of the stream; either ends the loop of run().
WorkerStops ==
    /\ \/ workerAt \in {"read", "write"} /\ ~enabled
       \/ workerAt = "read" /\ Chunk(toServer) = 0 /\ ~ClientOpen
    /\ workerAt' = "close" /\ toEcho' = <<>>
    /\ UNCHANGED <<tls, ends, at, toSend, toServer, toClient, enabled, sent, received>>

\* closeSocket at the end of run(); unread bytes reset the connection.
WorkerCloses ==
    /\ workerAt = "close" /\ workerAt' = "ended"
    /\ toServer' = <<>>
    /\ toClient' \in IF toServer # <<>> THEN {toClient, <<>>} ELSE {toClient}
    /\ UNCHANGED <<tls, ends, at, toSend, enabled, toEcho, sent, received>>

\* Worker::close, called when the server stops.
ServerStops ==
    /\ enabled /\ enabled' = FALSE
    /\ UNCHANGED <<tls, ends, at, toSend, toServer, toClient, workerAt, toEcho, sent, received>>

ClientThread == ClientWrite \/ ClientWriteFails \/ ClientRead

WorkerThread ==
    WorkerRead \/ WorkerWrite \/ WorkerWriteFails \/ WorkerStops \/ WorkerCloses

Next ==
    \/ \E n \in 0..MaxMessage : Enter(n)
    \/ Quit
    \/ ClientThread
    \/ WorkerThread
    \/ ServerStops

Spec == Init /\ [][Next]_vars

\* The threads of the program run on; the user need not type anything.
Fairness == WF_vars(ClientThread) /\ WF_vars(WorkerThread)

LiveSpec == Spec /\ Fairness
-----------------------------------------------------------------------------
Bytes == 1..MaxBytes

\* The type of every variable; no buffer overflows.
TypeOK ==
    /\ tls \in BOOLEAN /\ ends \subseteq Bytes
    /\ at \in {"prompt", "write", "read", "stopped"}
    /\ workerAt \in {"read", "write", "close", "ended"}
    /\ enabled \in BOOLEAN
    /\ {toSend, toServer, toClient, toEcho, sent, received} \subseteq Seq(Bytes)
    /\ Len(toServer) <= Cap /\ Len(toClient) <= Cap
    /\ Len(toEcho) <= Buf /\ Len(toSend) <= MaxMessage

\* What comes back is what was sent, however it was split on the way and
\* whichever end failed or stopped.
EchoesStream == INSTANCE EchoStream WITH sent <- sent, received <- received
Echoes == EchoesStream!Spec

\* As long as neither end has stopped no byte is lost: every byte that was sent
\* and has not come back is at exactly one place on its way, in order.
Conserved ==
    enabled /\ ClientOpen /\ WorkerOpen =>
        sent = received \o toClient \o toEcho \o toServer \o toSend

\* Both ends wait for room to write in and neither reads meanwhile.
BothWait ==
    /\ at = "write" /\ Len(toServer) = Cap
    /\ workerAt = "write" /\ Len(toClient) = Cap

\* Without TLS the ends never both wait, although neither reads while it writes,
\* because every line is preceded by a read of at least its length.
NeverBothWait == ~tls => ~BothWait

\* A read that finds bytes and returns none finds the other end still writing the
\* rest of that record: neither end waits for the end of a record, or looks for it
\* at every prompt, that nobody is going to write.  A line is one record and fits
\* the read buffer (EchoAssumption).
RecordsFollow ==
    enabled /\ ClientOpen =>
        /\ toServer # <<>> /\ Chunk(toServer) = 0 => at = "write"
        /\ toClient # <<>> /\ Chunk(toClient) = 0 => workerAt = "write"

\* If the user goes on pressing return, a byte that was sent comes back, unless
\* one of the ends stops.  With TLS, where a line is preceded by a read of one
\* record that may be shorter than the line, both ends waiting is the only other
\* thing that can keep it.
EchoReturns ==
    WF_vars(\E n \in 0..MaxMessage : Enter(n)) =>
        \A b \in Bytes :
            Len(sent) >= b ~>
                Len(received) >= b \/ ~enabled \/ ~ClientOpen \/ (tls /\ BothWait)

\* A worker that is told to stop ends although its client neither reads nor
\* closes, and one whose client has closed ends by itself.
WorkerEnds == ~enabled \/ ~ClientOpen ~> workerAt = "ended"
=============================================================================
