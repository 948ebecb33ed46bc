------------------------- MODULE EchoSession_proofs -------------------------
(* For buffers, lines and sessions of any length: the session implements the
   echo stream, loses no byte while both ends are there, never leaves a record
   without its end, and without TLS never gets to where both ends wait. *)
EXTENDS EchoSession, SequenceTheorems, WellFoundedInduction, TLAPS

\* The bytes number a + 1 to b of the session.
Stretch(a, b) == [i \in 1..(b - a) |-> a + i]

\* A stretch of the bytes from a to b has b - a of them.
LEMMA StretchType ==
    ASSUME NEW a \in Nat, NEW b \in Nat, a <= b
    PROVE  Stretch(a, b) \in Seq(Nat) /\ Len(Stretch(a, b)) = b - a
<1>1. b - a \in Nat
      OBVIOUS
<1> QED
    BY <1>1 DEF Stretch

\* A stretch from a number to itself is empty.
LEMMA StretchEmpty == \A a \in Nat : Stretch(a, a) = <<>>
<1> SUFFICES ASSUME NEW a \in Nat PROVE Stretch(a, a) = <<>>
    OBVIOUS
<1>1. Stretch(a, a) \in Seq(Nat) /\ Len(Stretch(a, a)) = 0
      BY StretchType
<1> QED
    BY <1>1, EmptySeq

\* Two stretches that adjoin make one.
LEMMA StretchJoins ==
    ASSUME NEW a \in Nat, NEW b \in Nat, NEW c \in Nat, a <= b, b <= c
    PROVE  Stretch(a, b) \o Stretch(b, c) = Stretch(a, c)
<1> DEFINE ab == Stretch(a, b)  bc == Stretch(b, c)  ac == Stretch(a, c)
<1>1. /\ ab \in Seq(Nat) /\ Len(ab) = b - a
      /\ bc \in Seq(Nat) /\ Len(bc) = c - b
      /\ ac \in Seq(Nat) /\ Len(ac) = c - a
  <2>1. ab \in Seq(Nat) /\ Len(ab) = b - a
        BY StretchType
  <2>2. bc \in Seq(Nat) /\ Len(bc) = c - b
        BY StretchType
  <2>3. a <= c
        OBVIOUS
  <2>4. ac \in Seq(Nat) /\ Len(ac) = c - a
        BY <2>3, StretchType
  <2> QED
      BY <2>1, <2>2, <2>4
<1>2. \A i \in 1..Len(ab) : ab[i] = a + i
      BY <1>1 DEF Stretch
<1>3. \A i \in 1..Len(bc) : bc[i] = b + i
      BY <1>1 DEF Stretch
<1>4. \A i \in 1..Len(ac) : ac[i] = a + i
      BY <1>1 DEF Stretch
<1> HIDE DEF ab, bc, ac
<1>5. /\ ab \o bc \in Seq(Nat)
      /\ Len(ab \o bc) = Len(ab) + Len(bc)
      /\ \A i \in 1..(Len(ab) + Len(bc)) : (ab \o bc)[i] =
            IF i <= Len(ab) THEN ab[i] ELSE bc[i - Len(ab)]
      BY <1>1, ConcatProperties
<1>6. Len(ab \o bc) = Len(ac)
      BY <1>1, <1>5
<1>7. ASSUME NEW i \in 1..Len(ab \o bc) PROVE (ab \o bc)[i] = ac[i]
  <2>1. i \in 1..(c - a) /\ ac[i] = a + i
        BY <1>1, <1>4, <1>5, <1>7
  <2>2. CASE i <= Len(ab)
        BY <1>1, <1>2, <1>5, <2>1, <2>2
  <2>3. CASE i > Len(ab)
    <3>1. i - Len(ab) \in 1..Len(bc)
          BY <1>1, <2>1, <2>3
    <3>2. (ab \o bc)[i] = bc[i - Len(ab)]
      <4>1. i \in 1..(Len(ab) + Len(bc)) /\ ~(i <= Len(ab))
            BY <1>1, <2>1, <2>3
      <4> QED
          BY <1>5, <4>1
    <3>3. bc[i - Len(ab)] = b + (i - Len(ab))
          BY <1>3, <3>1
    <3>4. b + (i - Len(ab)) = a + i
      <4>1. i \in Nat /\ Len(ab) = b - a
            BY <1>1, <2>1
      <4> QED
          BY <4>1
    <3> QED
        BY <2>1, <3>2, <3>3, <3>4, Zenon
  <2> QED
      BY <1>1, <2>1, <2>2, <2>3
<1>8. ab \o bc = ac
      BY <1>1, <1>5, <1>6, <1>7, SeqEqual
<1> QED
    BY <1>8 DEF ab, bc, ac

\* What First and Rest make of a sequence, and of a stretch.
LEMMA Cut ==
    ASSUME NEW S, NEW s \in Seq(S), NEW n \in 0..Len(s)
    PROVE  /\ First(s, n) \in Seq(S) /\ Len(First(s, n)) = n
           /\ \A i \in 1..n : First(s, n)[i] = s[i]
           /\ Rest(s, n) \in Seq(S) /\ Len(Rest(s, n)) = Len(s) - n
           /\ \A i \in 1..(Len(s) - n) : Rest(s, n)[i] = s[n + i]
BY DEF First, Rest

\* A stretch cut after n bytes makes two.
LEMMA StretchCut ==
    ASSUME NEW a \in Nat, NEW b \in Nat, a <= b, NEW n \in 0..(b - a)
    PROVE  /\ First(Stretch(a, b), n) = Stretch(a, a + n)
           /\ Rest(Stretch(a, b), n) = Stretch(a + n, b)
<1> DEFINE s == Stretch(a, b)  f == Stretch(a, a + n)  r == Stretch(a + n, b)
<1>1. /\ s \in Seq(Nat) /\ Len(s) = b - a
      /\ f \in Seq(Nat) /\ Len(f) = n
      /\ r \in Seq(Nat) /\ Len(r) = b - (a + n)
  <2>1. a + n \in Nat /\ a <= a + n /\ a + n <= b /\ (a + n) - a = n
        OBVIOUS
  <2>2. s \in Seq(Nat) /\ Len(s) = b - a
        BY StretchType
  <2>3. f \in Seq(Nat) /\ Len(f) = (a + n) - a
        BY <2>1, StretchType
  <2>4. r \in Seq(Nat) /\ Len(r) = b - (a + n)
        BY <2>1, StretchType
  <2> QED
      BY <2>1, <2>2, <2>3, <2>4
<1>2. /\ \A i \in 1..(b - a) : s[i] = a + i
      /\ \A i \in 1..n : f[i] = a + i
      /\ \A i \in 1..(b - (a + n)) : r[i] = a + n + i
      BY DEF Stretch
<1> HIDE DEF s, f, r
<1>3. /\ First(s, n) \in Seq(Nat) /\ Len(First(s, n)) = n
      /\ \A i \in 1..n : First(s, n)[i] = s[i]
      /\ Rest(s, n) \in Seq(Nat) /\ Len(Rest(s, n)) = Len(s) - n
      /\ \A i \in 1..(Len(s) - n) : Rest(s, n)[i] = s[n + i]
  <2>1. n \in 0..Len(s)
        BY <1>1
  <2> QED
      BY <1>1, <2>1, Cut
<1>4. First(s, n) = f
  <2>1. \A i \in 1..Len(f) : First(s, n)[i] = f[i]
        BY <1>1, <1>2, <1>3
  <2> QED
      BY <1>1, <1>3, <2>1, SeqEqual
<1>5. Rest(s, n) = r
  <2>1. ASSUME NEW i \in 1..Len(r) PROVE Rest(s, n)[i] = r[i]
    <3>1. i \in 1..(Len(s) - n) /\ i \in 1..(b - (a + n)) /\ n + i \in 1..(b - a)
          BY <1>1
    <3>2. Rest(s, n)[i] = s[n + i] /\ s[n + i] = a + (n + i) /\ r[i] = a + n + i
          BY <1>2, <1>3, <3>1
    <3> QED
        BY <3>2
  <2>2. Len(Rest(s, n)) = Len(r)
        BY <1>1, <1>3
  <2> QED
      BY <1>1, <1>3, <2>1, <2>2, SeqEqual
<1> QED
    BY <1>4, <1>5 DEF s, f, r

\* Of two stretches that begin together the shorter is a prefix.
LEMMA StretchPrefix ==
    ASSUME NEW a \in Nat, NEW b \in Nat, NEW c \in Nat, a <= b, b <= c
    PROVE  IsPrefix(Stretch(a, b), Stretch(a, c))
<1>1. Len(Stretch(a, b)) = b - a /\ Len(Stretch(a, c)) = c - a
      BY StretchType
<1>2. First(Stretch(a, b), b - a) = Stretch(a, a + (b - a))
      BY StretchCut
<1>3. First(Stretch(a, c), b - a) = Stretch(a, a + (b - a))
  <2>1. a <= c /\ b - a \in 0..(c - a)
        OBVIOUS
  <2> QED
      BY <2>1, StretchCut
<1> QED
    BY <1>1, <1>2, <1>3 DEF IsPrefix, First

\* A part of one stretch is moved to the end of the one before it.
LEMMA PartMoves ==
    ASSUME NEW a \in Nat, NEW b \in Nat, NEW c \in Nat, a <= b, b <= c,
           NEW n \in 0..(c - b)
    PROVE  /\ Stretch(a, b) \o First(Stretch(b, c), n) = Stretch(a, b + n)
           /\ Rest(Stretch(b, c), n) = Stretch(b + n, c)
<1>1. /\ First(Stretch(b, c), n) = Stretch(b, b + n)
      /\ Rest(Stretch(b, c), n) = Stretch(b + n, c)
      BY StretchCut
<1>2. b + n \in Nat /\ b <= b + n
      OBVIOUS
<1>3. Stretch(a, b) \o Stretch(b, b + n) = Stretch(a, b + n)
      BY <1>2, StretchJoins
<1> QED
    BY <1>1, <1>3
-----------------------------------------------------------------------------
\* The buffers hold bytes of the session and do not overflow.
LEMMA PartsType ==
    ASSUME NEW S, NEW rest \in Seq(S), NEW stream \in Seq(S), Len(stream) <= Cap,
           NEW n \in Parts(rest, stream)
    PROVE  /\ n \in 1..Len(rest) /\ Len(stream) + n <= Cap
           /\ First(rest, n) \in Seq(S) /\ Rest(rest, n) \in Seq(S)
           /\ Len(First(rest, n)) = n /\ Len(Rest(rest, n)) = Len(rest) - n
           /\ stream \o First(rest, n) \in Seq(S)
           /\ Len(stream \o First(rest, n)) = Len(stream) + n
<1>1. Len(rest) \in Nat /\ Len(stream) \in Nat /\ Cap \in Nat
      BY EchoAssumption
<1>2. n \in 1..Len(rest) /\ Len(stream) + n <= Cap /\ n \in 0..Len(rest)
      BY <1>1 DEF Parts, AtMost
<1>3. /\ First(rest, n) \in Seq(S) /\ Rest(rest, n) \in Seq(S)
      /\ Len(First(rest, n)) = n /\ Len(Rest(rest, n)) = Len(rest) - n
      BY <1>2, Cut
<1> QED
    BY <1>2, <1>3, ConcatProperties

\* A read takes a part of the stream that fits the buffer, and leaves the rest.
LEMMA ChunkType ==
    ASSUME NEW S, NEW stream \in Seq(S)
    PROVE  /\ Chunk(stream) \in 0..Len(stream) /\ Chunk(stream) <= Buf
           /\ First(stream, Chunk(stream)) \in Seq(S)
           /\ Rest(stream, Chunk(stream)) \in Seq(S)
           /\ Len(First(stream, Chunk(stream))) = Chunk(stream)
           /\ Len(Rest(stream, Chunk(stream))) = Len(stream) - Chunk(stream)
<1>1. Chunk(stream) \in 0..Len(stream) /\ Chunk(stream) <= Buf
  <2>1. Len(stream) \in Nat /\ Buf \in Nat
        BY EchoAssumption
  <2>2. AtMost(Buf, Len(stream)) \in Nat /\ AtMost(Buf, Len(stream)) <= Buf
        /\ AtMost(Buf, Len(stream)) <= Len(stream)
        BY <2>1 DEF AtMost
  <2>3. FirstRecord(stream) \in 0..AtMost(Buf, Len(stream))
    <3> DEFINE Arrived == 1..AtMost(Buf, Len(stream))
               IsRecord(n) == /\ stream[n] \in ends
                              /\ \A m \in 1..(n - 1) : stream[m] \notin ends
    <3>1. FirstRecord(stream) =
             IF \E n \in Arrived : IsRecord(n) THEN CHOOSE n \in Arrived : IsRecord(n)
             ELSE 0
          BY DEF FirstRecord
    <3> HIDE DEF IsRecord
    <3>2. CASE \E n \in Arrived : IsRecord(n)
      <4>1. (CHOOSE n \in Arrived : IsRecord(n)) \in Arrived
            BY <3>2
      <4> QED
          BY <2>2, <3>1, <3>2, <4>1
    <3>3. CASE ~ \E n \in Arrived : IsRecord(n)
          BY <2>2, <3>1, <3>3
    <3> QED
        BY <3>2, <3>3
  <2> QED
      BY <2>1, <2>2, <2>3 DEF Chunk
<1> QED
    BY <1>1, Cut

\* Nothing is a sequence of bytes.
LEMMA EmptyType == \A s : s = <<>> => s \in Seq(Bytes) /\ Len(s) = 0
BY EmptySeq, Zenon

\* A line that is entered has the next n bytes of the session.
LEMMA LineType ==
    ASSUME TypeOK, NEW n \in 0..MaxMessage, Enter(n)
    PROVE  /\ toSend' = Stretch(Len(sent), Len(sent) + n)
           /\ toSend' \in Seq(Bytes) /\ Len(toSend') = n
           /\ sent' = sent \o toSend' /\ sent' \in Seq(Bytes)
           /\ Len(sent') = Len(sent) + n
<1>1. n \in Nat /\ Len(sent) \in Nat /\ MaxBytes \in Nat
      BY EchoAssumption DEF TypeOK
<1>2. toSend' = Stretch(Len(sent), Len(sent) + n)
      BY <1>1 DEF Enter, Stretch
<1>3. toSend' = [i \in 1..n |-> Len(sent) + i] /\ \A i \in 1..n : Len(sent) + i \in Bytes
      BY <1>1 DEF Enter, Bytes
<1>4. toSend' \in Seq(Bytes) /\ Len(toSend') = n
      BY <1>1, <1>3
<1>5. sent' = sent \o toSend'
      BY DEF Enter
<1> QED
    BY <1>2, <1>4, <1>5, ConcatProperties DEF TypeOK

\* The types hold before the first line.
LEMMA TypeInit == Init => TypeOK
BY EmptyType, EchoAssumption DEF Init, TypeOK

\* Every step of the user, the client, the connection and the worker keeps the types.
LEMMA TypeStep == TypeOK /\ [Next]_vars => TypeOK'
<1> SUFFICES ASSUME TypeOK, [Next]_vars PROVE TypeOK'
    OBVIOUS
<1>0. Cap \in Nat /\ Buf \in Nat /\ Buf <= Cap /\ MaxMessage \in Nat
      BY EchoAssumption
<1> USE <1>0, EmptyType DEF TypeOK
<1>1. ASSUME NEW n \in 0..MaxMessage, Enter(n) PROVE TypeOK'
  <2>1. /\ toSend' \in Seq(Bytes) /\ Len(toSend') = n
        /\ sent' \in Seq(Bytes) /\ Len(sent') = Len(sent) + n
        BY <1>1, LineType
  <2>2. n > 0 /\ Len(sent) + n <= MaxBytes => Len(sent') \in Bytes
        BY <2>1, EchoAssumption DEF Bytes
  <2>3. ends' \subseteq Bytes
        BY <1>1, <2>2 DEF Enter
  <2> QED
      BY <1>1, <2>1, <2>3 DEF Enter
<1>2. ASSUME ClientCloses PROVE TypeOK'
  <2>1. toServer' = toServer \/ toServer' = <<>>
        BY <1>2 DEF ClientCloses
  <2>2. toServer' \in Seq(Bytes) /\ Len(toServer') <= Cap
        BY <2>1
  <2> QED
      BY <1>2, <2>2 DEF ClientCloses
<1>3. CASE Quit \/ ClientWriteFails
      BY <1>2, <1>3 DEF Quit, ClientWriteFails
<1>4. CASE ClientWrite
  <2>1. PICK n \in Parts(toSend, toServer) :
           /\ toServer' = IF WorkerOpen THEN toServer \o First(toSend, n) ELSE <<>>
           /\ toSend' = Rest(toSend, n)
        BY <1>4 DEF ClientWrite
  <2>2. /\ toServer' \in Seq(Bytes) /\ Len(toServer') <= Cap
        /\ toSend' \in Seq(Bytes) /\ Len(toSend') <= MaxMessage
        BY <2>1, PartsType
  <2> QED
      BY <1>4, <2>2 DEF ClientWrite
<1>5. CASE ClientRead
  <2>1. /\ toClient' \in Seq(Bytes) /\ Len(toClient') <= Cap /\ received' \in Seq(Bytes)
        BY <1>5, ChunkType, ConcatProperties DEF ClientRead
  <2> QED
      BY <1>5, <2>1 DEF ClientRead
<1>6. CASE WorkerRead
  <2>1. /\ toServer' \in Seq(Bytes) /\ Len(toServer') <= Cap
        /\ toEcho' \in Seq(Bytes) /\ Len(toEcho') <= Buf
        BY <1>6, ChunkType DEF WorkerRead
  <2> QED
      BY <1>6, <2>1 DEF WorkerRead
<1>7. CASE WorkerWrite
  <2>1. PICK n \in Parts(toEcho, toClient) :
           /\ toClient' = IF ClientOpen THEN toClient \o First(toEcho, n) ELSE <<>>
           /\ toEcho' = Rest(toEcho, n)
        BY <1>7 DEF WorkerWrite
  <2>2. /\ toClient' \in Seq(Bytes) /\ Len(toClient') <= Cap
        /\ toEcho' \in Seq(Bytes) /\ Len(toEcho') <= Buf
        BY <2>1, PartsType
  <2> QED
      BY <1>7, <2>2 DEF WorkerWrite
<1>8. CASE WorkerWriteFails
  <2>1. toServer' \in Seq(Bytes) /\ Len(toServer') <= Cap
        BY <1>8 DEF WorkerWriteFails
  <2> QED
      BY <1>8, <2>1 DEF WorkerWriteFails
<1>10. CASE WorkerCloses
  <2>1. toClient' = toClient \/ toClient' = <<>>
        BY <1>10 DEF WorkerCloses
  <2>2. toClient' \in Seq(Bytes) /\ Len(toClient') <= Cap
        BY <2>1
  <2> QED
      BY <1>10, <2>2 DEF WorkerCloses
<1>11. CASE WorkerStops
      BY <1>11 DEF WorkerStops
<1>12. CASE ServerStops
      BY <1>12 DEF ServerStops
<1>9. CASE UNCHANGED vars
      BY <1>9 DEF vars
<1> QED
    BY <1>1, <1>3, <1>4, <1>5, <1>6, <1>7, <1>8, <1>9, <1>10, <1>11, <1>12
    DEF Next, ClientThread, WorkerThread

\* No buffer overflows, for every size (MAX_BUFFER_SIZE) that EchoAssumption allows.
THEOREM BuffersHold == LiveSpec => []TypeOK
BY TypeInit, TypeStep, PTL DEF Spec, LiveSpec
-----------------------------------------------------------------------------
(* Which bytes are where: the buffers on the way hold adjoining stretches, from
   what has come back to what was sent, as far as they still get there. *)

ClientEnd == Len(received) + Len(toClient)
EchoEnd == ClientEnd + Len(toEcho)
ServerEnd == EchoEnd + Len(toServer)
Echoing == ClientOpen /\ workerAt \in {"read", "write"}

StreamInv ==
    /\ sent = Stretch(0, Len(sent))
    /\ received = Stretch(0, Len(received)) /\ Len(received) <= Len(sent)
    /\ ClientOpen => toClient = Stretch(Len(received), ClientEnd) /\ ClientEnd <= Len(sent)
    /\ Echoing => /\ toEcho = Stretch(ClientEnd, EchoEnd)
                  /\ toServer = Stretch(EchoEnd, ServerEnd)
                  /\ toSend = Stretch(ServerEnd, Len(sent)) /\ ServerEnd <= Len(sent)
    /\ at # "write" => toSend = <<>>
    /\ workerAt # "write" => toEcho = <<>>
    /\ workerAt \in {"close", "ended"} => ~enabled \/ ~ClientOpen

\* The number of bytes in each buffer, and where each buffer ends, are naturals.
LEMMA Lengths ==
    ASSUME TypeOK
    PROVE  /\ Len(sent) \in Nat /\ Len(received) \in Nat
           /\ Len(toClient) \in Nat /\ Len(toEcho) \in Nat /\ Len(toServer) \in Nat
           /\ Len(toSend) \in Nat
           /\ ClientEnd \in Nat /\ EchoEnd \in Nat /\ ServerEnd \in Nat
<1>1. /\ Len(sent) \in Nat /\ Len(received) \in Nat
      /\ Len(toClient) \in Nat /\ Len(toEcho) \in Nat /\ Len(toServer) \in Nat
      /\ Len(toSend) \in Nat
      BY DEF TypeOK
<1> QED
    BY <1>1 DEF ClientEnd, EchoEnd, ServerEnd

\* No bytes are on their way at the start.
LEMMA StreamInit == Init => StreamInv
<1> SUFFICES ASSUME Init PROVE StreamInv
    OBVIOUS
<1>1. Len(<<>>) = 0 /\ Stretch(0, 0) = <<>>
      BY StretchEmpty
<1>2. ClientEnd = 0 /\ EchoEnd = 0 /\ ServerEnd = 0
      BY DEF Init, ClientEnd, EchoEnd, ServerEnd
<1> QED
    BY <1>1, <1>2 DEF Init, StreamInv, ClientOpen

\* Every step that moves bytes leaves the buffers adjoining.
LEMMA StreamStep == TypeOK /\ StreamInv /\ [Next]_vars => StreamInv'
<1> SUFFICES ASSUME TypeOK, StreamInv, [Next]_vars PROVE StreamInv'
    OBVIOUS
<1>0. TypeOK'
      BY TypeStep
<1>01. /\ Len(sent) \in Nat /\ Len(received) \in Nat
       /\ Len(toClient) \in Nat /\ Len(toEcho) \in Nat /\ Len(toServer) \in Nat
       /\ ClientEnd \in Nat /\ EchoEnd \in Nat /\ ServerEnd \in Nat
       BY Lengths
<1>02. Len(received) <= ClientEnd /\ ClientEnd <= EchoEnd /\ EchoEnd <= ServerEnd
       BY <1>01 DEF ClientEnd, EchoEnd, ServerEnd
<1>1. ASSUME NEW n \in 0..MaxMessage, Enter(n) PROVE StreamInv'
  <2>1. n \in Nat
        BY EchoAssumption
  <2>2. /\ toSend' = Stretch(Len(sent), Len(sent) + n)
        /\ sent' = sent \o toSend' /\ Len(sent') = Len(sent) + n
        BY <1>1, LineType
  <2>3. sent' = Stretch(0, Len(sent'))
    <3>1. /\ sent = Stretch(0, Len(sent)) /\ Len(sent) \in Nat
          /\ 0 \in Nat /\ 0 <= Len(sent) /\ Len(sent) + n \in Nat /\ Len(sent) <= Len(sent) + n
          BY <1>01, <2>1 DEF StreamInv
    <3>2. Stretch(0, Len(sent)) \o Stretch(Len(sent), Len(sent) + n) = Stretch(0, Len(sent) + n)
          BY <3>1, StretchJoins
    <3> QED
        BY <2>2, <3>1, <3>2
  <2>4. UNCHANGED <<toServer, toClient, workerAt, enabled, toEcho, received, ClientEnd, EchoEnd, ServerEnd>>
        BY <1>1 DEF Enter, ClientEnd, EchoEnd, ServerEnd
  <2>5. ASSUME Echoing PROVE ServerEnd = Len(sent)
    <3>1. toSend = <<>> /\ toSend = Stretch(ServerEnd, Len(sent)) /\ ServerEnd <= Len(sent)
          BY <1>1, <2>5 DEF Enter, StreamInv
    <3>2. Len(Stretch(ServerEnd, Len(sent))) = Len(sent) - ServerEnd
          BY <1>01, <3>1, StretchType
    <3>3. Len(toSend) = 0
          BY <3>1, EmptyType
    <3> QED
        BY <1>01, <3>1, <3>2, <3>3
  <2>6. at' # "write" => toSend' = <<>>
    <3>1. n = 0 => toSend' = <<>>
          BY <1>01, <2>2, StretchEmpty
    <3> QED
        BY <1>1, <3>1 DEF Enter
  <2>7. ClientOpen /\ (Echoing' => Echoing)
        BY <1>1 DEF Enter, ClientOpen, Echoing
  <2>8. /\ Len(received') <= Len(sent') /\ ClientEnd' <= Len(sent')
        /\ toClient' = Stretch(Len(received'), ClientEnd')
        BY <1>01, <2>1, <2>2, <2>4, <2>7 DEF StreamInv
  <2>9. ASSUME Echoing
        PROVE  /\ toEcho' = Stretch(ClientEnd', EchoEnd')
               /\ toServer' = Stretch(EchoEnd', ServerEnd')
               /\ toSend' = Stretch(ServerEnd', Len(sent')) /\ ServerEnd' <= Len(sent')
        BY <1>01, <2>1, <2>2, <2>4, <2>5, <2>9 DEF StreamInv
  <2> QED
      BY <2>3, <2>4, <2>6, <2>7, <2>8, <2>9 DEF StreamInv, ClientOpen
<1>2. ASSUME ClientCloses PROVE StreamInv'
      BY <1>2, EmptyType DEF ClientCloses, StreamInv, Echoing, ClientOpen
<1>3. CASE Quit \/ ClientWriteFails
      BY <1>2, <1>3 DEF Quit, ClientWriteFails
<1>4. CASE ClientWrite
  <2>1. PICK n \in Parts(toSend, toServer) :
           /\ toServer' = IF WorkerOpen THEN toServer \o First(toSend, n) ELSE <<>>
           /\ toSend' = Rest(toSend, n)
        BY <1>4 DEF ClientWrite
  <2>2. n \in 1..Len(toSend)
        BY <2>1, PartsType DEF TypeOK
  <2>3. UNCHANGED <<toClient, workerAt, enabled, toEcho, sent, received, ClientEnd, EchoEnd>>
        BY <1>4 DEF ClientWrite, ClientEnd, EchoEnd
  <2>4. ASSUME Echoing
        PROVE  /\ toServer' = Stretch(EchoEnd, ServerEnd') /\ ServerEnd' <= Len(sent)
               /\ toSend' = Stretch(ServerEnd', Len(sent))
    <3>1. /\ toServer = Stretch(EchoEnd, ServerEnd)
          /\ toSend = Stretch(ServerEnd, Len(sent)) /\ ServerEnd <= Len(sent)
          BY <2>4 DEF StreamInv
    <3>2. Len(toSend) = Len(sent) - ServerEnd /\ EchoEnd <= ServerEnd
          BY <1>01, <1>02, <3>1, StretchType
    <3>5. n \in 0..(Len(sent) - ServerEnd)
          BY <1>01, <2>2, <3>1, <3>2
    <3>7. /\ EchoEnd \in Nat /\ ServerEnd \in Nat /\ Len(sent) \in Nat
          /\ EchoEnd <= ServerEnd /\ ServerEnd <= Len(sent)
          BY <1>01, <1>02, <3>1
    <3>6. /\ Stretch(EchoEnd, ServerEnd) \o First(Stretch(ServerEnd, Len(sent)), n)
                = Stretch(EchoEnd, ServerEnd + n)
          /\ Rest(Stretch(ServerEnd, Len(sent)), n) = Stretch(ServerEnd + n, Len(sent))
          BY <3>5, <3>7, PartMoves
    <3>3. toServer' = Stretch(EchoEnd, ServerEnd + n) /\ toSend' = Stretch(ServerEnd + n, Len(sent))
          BY <2>1, <2>4, <3>1, <3>6 DEF Echoing, WorkerOpen
    <3>4. ServerEnd' = ServerEnd + n
      <4>1. Len(toServer') = (ServerEnd + n) - EchoEnd
        <5>1. ServerEnd + n \in Nat /\ EchoEnd <= ServerEnd + n
              BY <3>5, <3>7
        <5>2. Len(Stretch(EchoEnd, ServerEnd + n)) = (ServerEnd + n) - EchoEnd
              BY <3>7, <5>1, StretchType
        <5> QED
            BY <3>3, <5>2
      <4> QED
          BY <2>3, <3>5, <3>7, <4>1 DEF ServerEnd
    <3> QED
        BY <3>3, <3>4, <3>5, <3>7
  <2> QED
      BY <1>4, <2>2, <2>3, <2>4 DEF ClientWrite, StreamInv, Echoing, ClientOpen
<1>5. CASE ClientRead
  <2> DEFINE k == Chunk(toClient)
  <2>1. k \in 0..Len(toClient)
        BY ChunkType DEF TypeOK
  <2>2. ClientOpen /\ toClient = Stretch(Len(received), ClientEnd) /\ received = Stretch(0, Len(received))
        BY <1>5 DEF ClientRead, StreamInv, ClientOpen
  <2>3. k \in 0..(ClientEnd - Len(received)) /\ Len(received) <= ClientEnd
        BY <1>01, <2>1 DEF ClientEnd
  <2>4. /\ received' = Stretch(0, Len(received) + k)
        /\ toClient' = Stretch(Len(received) + k, ClientEnd)
    <3> HIDE DEF k
    <3>1. received' = received \o First(toClient, k) /\ toClient' = Rest(toClient, k)
          BY <1>5 DEF ClientRead, k
    <3>2. /\ Stretch(0, Len(received)) \o First(Stretch(Len(received), ClientEnd), k)
                = Stretch(0, Len(received) + k)
          /\ Rest(Stretch(Len(received), ClientEnd), k) = Stretch(Len(received) + k, ClientEnd)
      <4>1. 0 \in Nat /\ 0 <= Len(received) /\ Len(received) \in Nat /\ ClientEnd \in Nat
            BY <1>01
      <4> QED
          BY <2>3, <4>1, PartMoves
    <3> QED
        BY <2>2, <3>1, <3>2
  <2>5. Len(received') = Len(received) + k /\ Len(toClient') = ClientEnd - (Len(received) + k)
    <3> HIDE DEF k
    <3>1. /\ 0 \in Nat /\ 0 <= Len(received) + k /\ Len(received) + k \in Nat
          /\ Len(received) + k <= ClientEnd /\ ClientEnd \in Nat
          BY <1>01, <2>3
    <3>2. Len(Stretch(0, Len(received) + k)) = (Len(received) + k) - 0
          BY <3>1, StretchType
    <3>3. Len(Stretch(Len(received) + k, ClientEnd)) = ClientEnd - (Len(received) + k)
          BY <3>1, StretchType
    <3> QED
        BY <2>3, <2>4, <3>1, <3>2, <3>3
  <2>6. ClientEnd' = ClientEnd
        BY <1>01, <2>1, <2>5 DEF ClientEnd
  <2>7. UNCHANGED <<toSend, toServer, workerAt, enabled, toEcho, sent, EchoEnd, ServerEnd>>
        BY <1>5, <2>6 DEF ClientRead, EchoEnd, ServerEnd
  <2> HIDE DEF k
  <2> QED
      BY <1>01, <1>5, <2>2, <2>3, <2>4, <2>5, <2>6, <2>7 DEF ClientRead, StreamInv, Echoing, ClientOpen
<1>6. CASE WorkerRead
  <2> DEFINE k == Chunk(toServer)
  <2>1. k \in 0..Len(toServer)
        BY ChunkType DEF TypeOK
  <2>2. /\ toEcho' = First(toServer, k) /\ toServer' = Rest(toServer, k) /\ toEcho = <<>>
        BY <1>6 DEF WorkerRead, StreamInv
  <2>3. UNCHANGED <<at, toSend, toClient, enabled, sent, received, ClientEnd>>
        BY <1>6 DEF WorkerRead, ClientEnd
  <2>4. ASSUME ClientOpen
        PROVE  /\ toEcho' = Stretch(ClientEnd, EchoEnd') /\ toServer' = Stretch(EchoEnd', ServerEnd)
               /\ ServerEnd' = ServerEnd
    <3> HIDE DEF k
    <3>1. toServer = Stretch(EchoEnd, ServerEnd) /\ EchoEnd = ClientEnd
          BY <1>01, <1>6, <2>2, <2>4, EmptyType DEF WorkerRead, StreamInv, Echoing, EchoEnd
    <3>2. k \in 0..(ServerEnd - EchoEnd) /\ EchoEnd <= ServerEnd
          BY <1>01, <2>1 DEF ServerEnd
    <3>3. toEcho' = Stretch(EchoEnd, EchoEnd + k) /\ toServer' = Stretch(EchoEnd + k, ServerEnd)
          BY <1>01, <2>2, <3>1, <3>2, StretchCut
    <3>4. Len(toEcho') = k /\ Len(toServer') = ServerEnd - (EchoEnd + k)
      <4>1. EchoEnd + k \in Nat /\ EchoEnd <= EchoEnd + k /\ EchoEnd + k <= ServerEnd
            BY <1>01, <3>2
      <4>4. EchoEnd \in Nat /\ ServerEnd \in Nat
            BY <1>01
      <4>2. Len(Stretch(EchoEnd, EchoEnd + k)) = (EchoEnd + k) - EchoEnd
            BY <4>1, <4>4, StretchType
      <4>3. Len(Stretch(EchoEnd + k, ServerEnd)) = ServerEnd - (EchoEnd + k)
            BY <4>1, <4>4, StretchType
      <4> QED
          BY <3>2, <3>3, <4>2, <4>3, <4>4
    <3>5. EchoEnd' = EchoEnd + k
          BY <1>01, <2>3, <3>1, <3>4 DEF EchoEnd
    <3>6. ServerEnd' = ServerEnd
          BY <1>01, <3>2, <3>4, <3>5 DEF ServerEnd
    <3> QED
        BY <3>1, <3>3, <3>5, <3>6
  <2> QED
      BY <1>6, <2>3, <2>4 DEF WorkerRead, StreamInv, Echoing, ClientOpen
<1>7. CASE WorkerWrite
  <2>1. PICK n \in Parts(toEcho, toClient) :
           /\ toClient' = IF ClientOpen THEN toClient \o First(toEcho, n) ELSE <<>>
           /\ toEcho' = Rest(toEcho, n)
        BY <1>7 DEF WorkerWrite
  <2>2. n \in 1..Len(toEcho)
        BY <2>1, PartsType DEF TypeOK
  <2>3. UNCHANGED <<at, toSend, toServer, enabled, sent, received>>
        BY <1>7 DEF WorkerWrite
  <2>4. ASSUME ClientOpen
        PROVE  /\ toClient' = Stretch(Len(received), ClientEnd') /\ toEcho' = Stretch(ClientEnd', EchoEnd)
               /\ ClientEnd' <= Len(sent) /\ EchoEnd' = EchoEnd /\ ServerEnd' = ServerEnd
    <3>1. /\ toClient = Stretch(Len(received), ClientEnd) /\ toEcho = Stretch(ClientEnd, EchoEnd)
          /\ ServerEnd <= Len(sent)
          BY <1>7, <2>4 DEF WorkerWrite, StreamInv, Echoing
    <3>2. /\ n \in 0..(EchoEnd - ClientEnd) /\ Len(received) <= ClientEnd /\ ClientEnd <= EchoEnd
          /\ EchoEnd <= ServerEnd
          BY <1>01, <2>2 DEF EchoEnd, ClientEnd, ServerEnd
    <3>8. Len(received) \in Nat /\ ClientEnd \in Nat /\ EchoEnd \in Nat
          BY <1>01
    <3>3. toClient' = Stretch(Len(received), ClientEnd + n) /\ toEcho' = Stretch(ClientEnd + n, EchoEnd)
      <4>1. /\ Stretch(Len(received), ClientEnd) \o First(Stretch(ClientEnd, EchoEnd), n)
                  = Stretch(Len(received), ClientEnd + n)
            /\ Rest(Stretch(ClientEnd, EchoEnd), n) = Stretch(ClientEnd + n, EchoEnd)
            BY <3>2, <3>8, PartMoves
      <4> QED
          BY <2>1, <2>4, <3>1, <4>1
    <3>4. Len(toClient') = (ClientEnd + n) - Len(received) /\ Len(toEcho') = EchoEnd - (ClientEnd + n)
      <4>1. ClientEnd + n \in Nat /\ Len(received) <= ClientEnd + n /\ ClientEnd + n <= EchoEnd
            BY <3>2, <3>8
      <4>2. Len(Stretch(Len(received), ClientEnd + n)) = (ClientEnd + n) - Len(received)
            BY <3>8, <4>1, StretchType
      <4>3. Len(Stretch(ClientEnd + n, EchoEnd)) = EchoEnd - (ClientEnd + n)
            BY <3>8, <4>1, StretchType
      <4> QED
          BY <3>3, <4>2, <4>3
    <3>5. ClientEnd' = ClientEnd + n
          BY <2>3, <3>2, <3>4, <3>8 DEF ClientEnd
    <3>6. EchoEnd' = EchoEnd
          BY <3>2, <3>4, <3>5, <3>8 DEF EchoEnd
    <3>7. ServerEnd' = ServerEnd
          BY <2>3, <3>6 DEF ServerEnd
    <3> QED
        BY <1>01, <3>1, <3>2, <3>3, <3>5, <3>6, <3>7
  <2> QED
      BY <1>7, <2>1, <2>3, <2>4 DEF WorkerWrite, StreamInv, Echoing, ClientOpen
<1>8. CASE WorkerWriteFails \/ WorkerStops
      BY <1>8, <1>01, EmptyType DEF WorkerWriteFails, WorkerStops, StreamInv, Echoing, ClientOpen, ClientEnd
<1>9. CASE WorkerCloses
      BY <1>9, <1>01, StretchEmpty, EmptyType DEF WorkerCloses, StreamInv, Echoing, ClientOpen, ClientEnd
<1>10. CASE ServerStops \/ UNCHANGED vars
      BY <1>10 DEF ServerStops, vars, StreamInv, Echoing, ClientOpen, ClientEnd, EchoEnd, ServerEnd
<1> QED
    BY <1>1, <1>3, <1>4, <1>5, <1>6, <1>7, <1>8, <1>9, <1>10
    DEF Next, ClientThread, WorkerThread

\* The buffers of a session always hold adjoining stretches of what was entered.
THEOREM StreamAlways == LiveSpec => [](TypeOK /\ StreamInv)
BY TypeInit, TypeStep, StreamInit, StreamStep, PTL DEF Spec, LiveSpec

\* Two stretches that adjoin, at the end of one that came before.
LEMMA NothingMissing ==
    ASSUME TypeOK, StreamInv, Echoing
    PROVE  sent = received \o toClient \o toEcho \o toServer \o toSend
<1>1. /\ 0 \in Nat /\ 0 <= Len(received) /\ 0 <= ClientEnd /\ 0 <= EchoEnd /\ 0 <= ServerEnd
      /\ Len(sent) \in Nat /\ Len(received) \in Nat
      /\ ClientEnd \in Nat /\ EchoEnd \in Nat /\ ServerEnd \in Nat
      BY Lengths
<1>2. /\ Len(received) <= ClientEnd /\ ClientEnd <= EchoEnd /\ EchoEnd <= ServerEnd
      /\ ServerEnd <= Len(sent)
      BY Lengths DEF StreamInv, ClientEnd, EchoEnd, ServerEnd
<1>3. Stretch(0, Len(received)) \o Stretch(Len(received), ClientEnd) = Stretch(0, ClientEnd)
      BY <1>1, <1>2, StretchJoins
<1>4. Stretch(0, ClientEnd) \o Stretch(ClientEnd, EchoEnd) = Stretch(0, EchoEnd)
      BY <1>1, <1>2, StretchJoins
<1>5. Stretch(0, EchoEnd) \o Stretch(EchoEnd, ServerEnd) = Stretch(0, ServerEnd)
      BY <1>1, <1>2, StretchJoins
<1>6. Stretch(0, ServerEnd) \o Stretch(ServerEnd, Len(sent)) = Stretch(0, Len(sent))
      BY <1>1, <1>2, StretchJoins
<1>7. /\ received = Stretch(0, Len(received)) /\ toClient = Stretch(Len(received), ClientEnd)
      /\ toEcho = Stretch(ClientEnd, EchoEnd) /\ toServer = Stretch(EchoEnd, ServerEnd)
      /\ toSend = Stretch(ServerEnd, Len(sent)) /\ sent = Stretch(0, Len(sent))
      BY DEF StreamInv, Echoing
<1> QED
    BY <1>3, <1>4, <1>5, <1>6, <1>7, Zenon

\* While neither end has stopped, every byte on its way is at exactly one place,
\* for all sizes of buffer that EchoAssumption allows (Client::write, Worker::run,
\* Client::tryReadString).
THEOREM NoByteLost == LiveSpec => []Conserved
<1>1. TypeOK /\ StreamInv => Conserved
  <2> SUFFICES ASSUME TypeOK, StreamInv, enabled, ClientOpen, WorkerOpen
               PROVE  sent = received \o toClient \o toEcho \o toServer \o toSend
      BY DEF Conserved
  <2>1. Echoing
        BY DEF TypeOK, StreamInv, Echoing, WorkerOpen
  <2> QED
      BY <2>1, NothingMissing
<1> QED
    BY <1>1, StreamAlways, PTL
-----------------------------------------------------------------------------
\* A step of the session hands bytes to the stream, delivers some, or neither.
LEMMA StepEchoes ==
    ASSUME TypeOK, StreamInv, TypeOK', StreamInv', [Next]_vars
    PROVE  [EchoesStream!Send \/ EchoesStream!Deliver]_<<sent, received>>
<1>1. /\ 0 \in Nat /\ 0 <= Len(sent) /\ 0 <= Len(received)
      /\ Len(sent) \in Nat /\ Len(received) \in Nat
      BY Lengths
<1>2. ASSUME NEW n \in 0..MaxMessage, Enter(n) PROVE EchoesStream!Send
  <2>1. Len(sent') = Len(sent) + n /\ n \in Nat
        BY <1>2, LineType, EchoAssumption
  <2>2. Len(sent') \in Nat /\ Len(sent) <= Len(sent')
        BY <1>1, <2>1
  <2>3. IsPrefix(Stretch(0, Len(sent)), Stretch(0, Len(sent')))
        BY <1>1, <2>2, StretchPrefix
  <2>4. sent = Stretch(0, Len(sent)) /\ sent' = Stretch(0, Len(sent')) /\ UNCHANGED received
        BY <1>2 DEF StreamInv, Enter
  <2> QED
      BY <2>3, <2>4, Zenon DEF EchoesStream!Send, EchoesStream!IsPrefix, IsPrefix
<1>3. CASE ClientRead
  <2>1. UNCHANGED sent /\ Len(received') <= Len(sent)
        BY <1>3 DEF ClientRead, StreamInv
  <2>2. Len(received') = Len(received) + Chunk(toClient) /\ Chunk(toClient) \in Nat
    <3>1. received \in Seq(Bytes) /\ toClient \in Seq(Bytes)
          BY DEF TypeOK
    <3>2. /\ First(toClient, Chunk(toClient)) \in Seq(Bytes)
          /\ Len(First(toClient, Chunk(toClient))) = Chunk(toClient)
          /\ Chunk(toClient) \in 0..Len(toClient)
          BY <3>1, ChunkType
    <3>3. Len(received \o First(toClient, Chunk(toClient)))
             = Len(received) + Len(First(toClient, Chunk(toClient)))
          BY <3>1, <3>2, ConcatProperties
    <3> QED
        BY <1>3, <3>1, <3>2, <3>3 DEF ClientRead
  <2>3. /\ Len(received') \in Nat /\ Len(received) <= Len(received') /\ 0 <= Len(received')
        BY <1>1, <2>2
  <2>4. IsPrefix(Stretch(0, Len(received)), Stretch(0, Len(received')))
        BY <1>1, <2>3, StretchPrefix
  <2>5. IsPrefix(Stretch(0, Len(received')), Stretch(0, Len(sent)))
        BY <1>1, <2>1, <2>3, StretchPrefix
  <2>6. /\ received = Stretch(0, Len(received)) /\ received' = Stretch(0, Len(received'))
        /\ sent = Stretch(0, Len(sent))
        BY DEF StreamInv
  <2>7. EchoesStream!Deliver
        BY <2>1, <2>4, <2>5, <2>6, Zenon
           DEF EchoesStream!Deliver, EchoesStream!IsPrefix, IsPrefix
  <2> QED
      BY <2>7
<1>4. ASSUME ClientCloses \/ ClientWrite \/ WorkerThread \/ ServerStops \/ UNCHANGED vars
      PROVE  UNCHANGED <<sent, received>>
      BY <1>4 DEF ClientCloses, ClientWrite, WorkerThread, WorkerRead, WorkerWrite,
                  WorkerWriteFails, WorkerStops, WorkerCloses, ServerStops, vars
<1> QED
    BY <1>2, <1>3, <1>4 DEF Next, ClientThread, Quit, ClientWriteFails

\* The session implements the echo stream: what comes back is what was sent, in
\* order and without a gap, for all sizes of line and buffer that EchoAssumption
\* allows and whichever end stops (main.cpp of example-6 with Client and Worker).
THEOREM SessionEchoes == LiveSpec => Echoes
<1>1. Init => EchoesStream!Init
      BY DEF Init, EchoesStream!Init
<1> QED
    BY <1>1, StepEchoes, StreamAlways, PTL DEF Spec, LiveSpec, Echoes, EchoesStream!Spec
-----------------------------------------------------------------------------
(* Why the ends never both wait without TLS.  What is on its way back has to
   exceed Cap for the worker to wait, what is on its way out for the client to.
   A client that enters a line has just read: either it left no more than Cap on
   the way back, or there is room for a whole line on the way out.  The worker
   makes the second true whenever it reads, and the first changes only then. *)

Back == Len(toClient) + Len(toEcho)

WaitInv ==
    /\ at = "write" => Len(toSend) > 0
    /\ workerAt = "write" => Len(toEcho) > 0
    /\ workerAt # "write" => Len(toEcho) = 0
    /\ ~tls /\ at = "prompt" => Back <= Cap \/ Len(toServer) + Buf <= Cap
    /\ ~tls /\ at = "write" => Back <= Cap \/ Len(toServer) + Len(toSend) <= Cap

\* Nothing is written at the start.
LEMMA WaitInit == Init => WaitInv
BY EmptyType DEF Init, WaitInv

\* Without TLS a read empties the stream or takes all the buffer has room for.
LEMMA ReadsAll ==
    ASSUME ~tls, NEW stream \in Seq(Bytes)
    PROVE  Chunk(stream) = Buf \/ Chunk(stream) = Len(stream)
BY DEF Chunk, AtMost

\* No step fills both directions while a line is written.
LEMMA WaitStep == TypeOK /\ WaitInv /\ [Next]_vars => WaitInv'
<1> SUFFICES ASSUME TypeOK, WaitInv, [Next]_vars PROVE WaitInv'
    OBVIOUS
<1>0. /\ Cap \in Nat /\ Buf \in Nat /\ Buf <= Cap
      /\ MaxMessage \in Nat /\ MaxMessage <= Buf
      BY EchoAssumption
<1>01. /\ Len(toClient) \in Nat /\ Len(toEcho) \in Nat /\ Len(toServer) \in Nat
       /\ Len(toSend) \in Nat
       /\ Len(toClient) <= Cap /\ Len(toServer) <= Cap
       /\ Len(toEcho) <= Buf /\ Len(toSend) <= MaxMessage
       BY Lengths DEF TypeOK
<1>02. Len(<<>>) = 0
       BY EmptyType
<1>1. ASSUME NEW n \in 0..MaxMessage, Enter(n) PROVE WaitInv'
  <2>1. Len(toSend') = n /\ n \in Nat /\ n <= Buf
        BY <1>0, <1>1, LineType
  <2> QED
      BY <1>0, <1>01, <1>1, <2>1 DEF Enter, WaitInv, Back
<1>2. ASSUME ClientCloses PROVE WaitInv'
      BY <1>2 DEF ClientCloses, WaitInv
<1>3. CASE Quit \/ ClientWriteFails
      BY <1>2, <1>3 DEF Quit, ClientWriteFails
<1>4. CASE ClientWrite
  <2>1. PICK n \in Parts(toSend, toServer) :
           /\ toServer' = IF WorkerOpen THEN toServer \o First(toSend, n) ELSE <<>>
           /\ toSend' = Rest(toSend, n)
        BY <1>4 DEF ClientWrite
  <2>2. /\ n \in 1..Len(toSend) /\ Len(toSend') = Len(toSend) - n
        /\ Len(toServer') = Len(toServer) + n \/ Len(toServer') = 0
        BY <1>02, <2>1, PartsType DEF TypeOK
  <2>3. Len(toSend') = 0 \/ toSend' # <<>>
        BY <1>01, <1>02, <2>2
  <2>4. at' = "write" => Len(toSend') > 0 /\ at = "write"
        BY <1>01, <1>02, <1>4, <2>2, <2>3, EmptySeq, TypeStep DEF ClientWrite, TypeOK
  <2>5. at' \in {"read", "write"} /\ UNCHANGED <<tls, toClient, workerAt, toEcho>>
        BY <1>4 DEF ClientWrite
  <2> QED
      BY <1>0, <1>01, <2>2, <2>4, <2>5 DEF WaitInv, Back
<1>5. CASE ClientRead
  <2>1. /\ Chunk(toClient) \in 0..Len(toClient)
        /\ Len(toClient') = Len(toClient) - Chunk(toClient)
        BY <1>5, ChunkType DEF ClientRead, TypeOK
  <2>2. ~tls => Chunk(toClient) = Buf \/ Chunk(toClient) = Len(toClient)
        BY ReadsAll DEF TypeOK
  <2> QED
      BY <1>0, <1>01, <1>5, <2>1, <2>2 DEF ClientRead, WaitInv, Back
<1>6. CASE WorkerRead
  <2>1. /\ Chunk(toServer) \in 1..Len(toServer) /\ Len(toEcho') = Chunk(toServer)
        /\ Len(toServer') = Len(toServer) - Chunk(toServer)
        BY <1>6, ChunkType DEF WorkerRead, TypeOK
  <2>2. ~tls => Chunk(toServer) = Buf \/ Chunk(toServer) = Len(toServer)
        BY ReadsAll DEF TypeOK
  <2> QED
      BY <1>0, <1>01, <1>6, <2>1, <2>2 DEF WorkerRead, WaitInv, Back
<1>7. CASE WorkerWrite
  <2>1. PICK n \in Parts(toEcho, toClient) :
           /\ toClient' = IF ClientOpen THEN toClient \o First(toEcho, n) ELSE <<>>
           /\ toEcho' = Rest(toEcho, n)
        BY <1>7 DEF WorkerWrite
  <2>2. /\ n \in 1..Len(toEcho) /\ Len(toEcho') = Len(toEcho) - n
        /\ Len(toClient') = Len(toClient) + n \/ Len(toClient') = 0
        BY <1>02, <2>1, PartsType DEF TypeOK
  <2>3. workerAt' = IF toEcho' = <<>> THEN "read" ELSE "write"
        BY <1>7 DEF WorkerWrite
  <2>4. toEcho' \in Seq(Bytes)
        BY TypeStep DEF TypeOK
  <2>5. IF workerAt' = "write" THEN Len(toEcho') > 0 ELSE Len(toEcho') = 0
        BY <1>02, <2>3, <2>4, EmptySeq
  <2>6. UNCHANGED <<tls, at, toSend, toServer>>
        BY <1>7 DEF WorkerWrite
  <2> QED
      BY <1>0, <1>01, <2>2, <2>5, <2>6 DEF WaitInv, Back
<1>8. CASE WorkerWriteFails
      BY <1>8, <1>02 DEF WorkerWriteFails, ClientOpen, WaitInv
<1>9. CASE WorkerStops
      BY <1>9, <1>0, <1>01, <1>02 DEF WorkerStops, WaitInv, Back
<1>10. CASE WorkerCloses
  <2>1. /\ Len(toServer') = 0 /\ UNCHANGED <<tls, at, toSend, toEcho>>
        /\ workerAt = "close" /\ workerAt' = "ended"
        BY <1>10, <1>02 DEF WorkerCloses
  <2> QED
      BY <1>0, <1>01, <2>1 DEF WaitInv, Back
<1>11. CASE ServerStops \/ UNCHANGED vars
      BY <1>11 DEF ServerStops, vars, WaitInv, Back
<1> QED
    BY <1>1, <1>3, <1>4, <1>5, <1>6, <1>7, <1>8, <1>9, <1>10, <1>11
    DEF Next, ClientThread, WorkerThread

\* Without TLS client and worker never both wait for room to write in, whatever
\* the sizes of the buffers, as long as a line fits the read buffer and that the
\* connection (Client::write and Worker::write of example-6, neither of which
\* reads while it writes).
THEOREM OneEndCanGoOn == LiveSpec => []NeverBothWait
<1>1. TypeOK /\ WaitInv => NeverBothWait
  <2> SUFFICES ASSUME TypeOK, WaitInv, ~tls, BothWait PROVE FALSE
      BY DEF NeverBothWait
  <2>1. /\ Cap \in Nat /\ Len(toClient) = Cap /\ Len(toServer) = Cap
        /\ Len(toEcho) \in Nat /\ Len(toSend) \in Nat
        /\ Len(toEcho) > 0 /\ Len(toSend) > 0
        BY Lengths, EchoAssumption DEF BothWait, WaitInv
  <2>2. Back <= Cap \/ Len(toServer) + Len(toSend) <= Cap
        BY DEF BothWait, WaitInv
  <2> QED
      BY <2>1, <2>2 DEF Back
<1> QED
    BY <1>1, TypeInit, TypeStep, WaitInit, WaitStep, PTL DEF Spec, LiveSpec
-----------------------------------------------------------------------------
(* Why no read waits for the end of a record that nobody writes.  Records end
   less than a buffer apart, the last one where the last line does; and what the
   worker has taken in ends with a record, so that what it has passed on is
   incomplete only while it writes. *)

EndsNear ==
    \A b \in 1..Len(sent) : \E e \in ends : b <= e /\ e < b + Buf /\ e <= Len(sent)

RecordInv ==
    tls => /\ EndsNear
           /\ Echoing => EchoEnd = 0 \/ EchoEnd \in ends

\* Where a record ends within reach, a read returns one.
LEMMA FindsRecord ==
    ASSUME tls, NEW stream \in Seq(Bytes), NEW n \in 1..Len(stream), n <= Buf,
           stream[n] \in ends
    PROVE  Chunk(stream) > 0
<1> DEFINE Arrived == 1..AtMost(Buf, Len(stream))
           IsRecord(m) == /\ stream[m] \in ends
                          /\ \A l \in 1..(m - 1) : stream[l] \notin ends
           E == {m \in Arrived : stream[m] \in ends}
<1>1. Chunk(stream) = IF \E m \in Arrived : IsRecord(m) THEN CHOOSE m \in Arrived : IsRecord(m)
                      ELSE 0
      BY DEF Chunk, FirstRecord
<1>2. Buf \in Nat /\ Len(stream) \in Nat /\ Arrived \subseteq Nat \ {0} /\ E \subseteq Nat
      /\ n \in E /\ AtMost(Buf, Len(stream)) \in Nat
      BY EchoAssumption DEF AtMost
<1>3. PICK m \in E : \A l \in E : ~(<<l, m>> \in OpToRel(<, Nat))
  <2>1. E # {}
        BY <1>2
  <2> QED
      BY <1>2, <2>1, WFMin, NatLessThanWellFounded
<1>4. \A l \in E : ~(l < m)
      BY <1>2, <1>3 DEF OpToRel
<1>5. m \in Arrived /\ IsRecord(m)
  <2>1. ASSUME NEW l \in 1..(m - 1), stream[l] \in ends PROVE FALSE
    <3>0. m \in 1..AtMost(Buf, Len(stream)) /\ AtMost(Buf, Len(stream)) \in Nat
          BY <1>2
    <3>1. l \in Arrived /\ l < m
      <4> HIDE DEF E, IsRecord
      <4> QED
          BY <3>0
    <3> QED
        BY <1>4, <2>1, <3>1
  <2> QED
      BY <1>3, <2>1
<1> HIDE DEF IsRecord
<1>6. (CHOOSE l \in Arrived : IsRecord(l)) \in Arrived
      BY <1>5
<1>7. Chunk(stream) \in Arrived
      BY <1>1, <1>5, <1>6
<1> QED
    BY <1>2, <1>7

\* What a read returns with TLS ends with the end of a record.
LEMMA ReadsRecord ==
    ASSUME tls, NEW stream, Chunk(stream) > 0
    PROVE  stream[Chunk(stream)] \in ends
<1> DEFINE Arrived == 1..AtMost(Buf, Len(stream))
           IsRecord(m) == /\ stream[m] \in ends
                          /\ \A l \in 1..(m - 1) : stream[l] \notin ends
<1>1. Chunk(stream) = IF \E m \in Arrived : IsRecord(m) THEN CHOOSE m \in Arrived : IsRecord(m)
                      ELSE 0
      BY DEF Chunk, FirstRecord
<1>2. IsRecord(Chunk(stream))
  <2> HIDE DEF IsRecord
  <2> QED
      BY <1>1
<1> QED
    BY <1>2

\* No record has an end before the first line.
LEMMA RecordInit == Init => RecordInv
<1> SUFFICES ASSUME Init PROVE EndsNear /\ EchoEnd = 0
    BY DEF RecordInv
<1>1. Len(<<>>) = 0
      BY EmptyType
<1> QED
    BY <1>1 DEF Init, EndsNear, EchoEnd, ClientEnd

\* Every line ends with a record, and the worker takes in whole records.
LEMMA RecordStep ==
    TypeOK /\ StreamInv /\ RecordInv /\ [Next]_vars => RecordInv'
<1> SUFFICES ASSUME TypeOK, StreamInv, RecordInv, [Next]_vars PROVE RecordInv'
    OBVIOUS
<1>0. /\ Len(sent) \in Nat /\ Len(received) \in Nat
      /\ Len(toClient) \in Nat /\ Len(toEcho) \in Nat /\ Len(toServer) \in Nat
      /\ ClientEnd \in Nat /\ EchoEnd \in Nat
      /\ Buf \in Nat /\ MaxMessage \in Nat /\ MaxMessage <= Buf
      BY Lengths, EchoAssumption
\* A step that enters nothing and takes nothing in.
<1>1. ASSUME UNCHANGED <<tls, ends, sent>>, Echoing' => Echoing /\ EchoEnd' = EchoEnd
      PROVE  RecordInv'
      BY <1>1 DEF RecordInv, EndsNear
<1>2. ASSUME NEW n \in 0..MaxMessage, Enter(n) PROVE RecordInv'
  <2>1. n \in Nat /\ n <= Buf /\ Len(sent') = Len(sent) + n
        BY <1>0, <1>2, LineType
  <2>2. /\ tls' = tls /\ (Echoing' => Echoing) /\ EchoEnd' = EchoEnd
        /\ ends \subseteq ends' /\ (tls /\ n > 0 => Len(sent') \in ends')
        BY <1>2 DEF Enter, Echoing, ClientOpen, EchoEnd, ClientEnd
  <2>3. ASSUME tls, NEW b \in 1..Len(sent')
        PROVE  \E e \in ends' : b <= e /\ e < b + Buf /\ e <= Len(sent')
    <3>1. CASE b <= Len(sent)
      <4>1. PICK e \in ends : b <= e /\ e < b + Buf /\ e <= Len(sent)
            BY <1>0, <2>1, <2>3, <3>1 DEF RecordInv, EndsNear
      <4>2. e \in ends' /\ e <= Len(sent')
        <5>1. e \in Nat
              BY <4>1 DEF TypeOK, Bytes
        <5> QED
            BY <1>0, <2>1, <2>2, <4>1, <5>1
      <4> QED
          BY <4>1, <4>2
    <3>2. CASE b > Len(sent)
          BY <1>0, <2>1, <2>2, <2>3, <3>2
    <3> QED
        BY <1>0, <2>1, <3>1, <3>2
  <2>4. tls' => EndsNear'
        BY <2>2, <2>3 DEF EndsNear
  <2> QED
      BY <2>2, <2>4 DEF RecordInv
<1>3. CASE Quit \/ ClientWriteFails
  <2>1. UNCHANGED <<tls, ends, sent>> /\ ~Echoing'
        BY <1>3 DEF Quit, ClientWriteFails, ClientCloses, Echoing, ClientOpen
  <2> QED
      BY <1>1, <2>1
<1>4. CASE ClientWrite
  <2>1. UNCHANGED <<tls, ends, sent>> /\ (Echoing' => Echoing) /\ EchoEnd' = EchoEnd
        BY <1>4 DEF ClientWrite, Echoing, ClientOpen, EchoEnd, ClientEnd
  <2> QED
      BY <1>1, <2>1
<1>5. CASE ClientRead
  <2> DEFINE k == Chunk(toClient)
  <2>1. /\ k \in 0..Len(toClient) /\ First(toClient, k) \in Seq(Bytes)
        /\ Len(First(toClient, k)) = k /\ Len(Rest(toClient, k)) = Len(toClient) - k
        BY ChunkType DEF TypeOK
  <2>2. Len(received \o First(toClient, k)) = Len(received) + k
        BY <2>1, ConcatProperties DEF TypeOK
  <2> HIDE DEF k
  <2>3. /\ received' = received \o First(toClient, k) /\ toClient' = Rest(toClient, k)
        /\ UNCHANGED <<tls, ends, sent, workerAt, toEcho>> /\ (Echoing' => Echoing)
        BY <1>5 DEF ClientRead, Echoing, ClientOpen, k
  <2>4. EchoEnd' = EchoEnd
    <3>1. Len(received') = Len(received) + k /\ Len(toClient') = Len(toClient) - k
          BY <2>1, <2>2, <2>3, Zenon
    <3>2. k \in Nat /\ toEcho' = toEcho
          BY <1>0, <2>1, <2>3
    <3> QED
        BY <1>0, <3>1, <3>2 DEF EchoEnd, ClientEnd
  <2> QED
      BY <1>1, <2>3, <2>4
<1>6. CASE WorkerRead
  <2> DEFINE k == Chunk(toServer)
  <2>1. /\ k \in 1..Len(toServer) /\ Len(First(toServer, k)) = k
        BY <1>6, ChunkType DEF WorkerRead, TypeOK
  <2>2. tls => toServer[k] \in ends
        BY <2>1, ReadsRecord
  <2> HIDE DEF k
  <2>3. /\ UNCHANGED <<tls, ends, sent, ClientEnd>> /\ (Echoing' => Echoing)
        /\ toEcho' = First(toServer, k) /\ toEcho = <<>>
        BY <1>6 DEF WorkerRead, Echoing, ClientOpen, ClientEnd, StreamInv, k
  <2>4. EchoEnd' = EchoEnd + k
        BY <1>0, <2>1, <2>3, EmptyType DEF EchoEnd
  <2>5. Echoing => toServer[k] = EchoEnd + k
    <3>1. Echoing => toServer = [i \in 1..(ServerEnd - EchoEnd) |-> EchoEnd + i]
          BY DEF StreamInv, Stretch
    <3>2. k \in 1..(ServerEnd - EchoEnd)
          BY <1>0, <2>1 DEF ServerEnd
    <3> QED
        BY <3>1, <3>2
  <2>6. tls /\ Echoing => EchoEnd' \in ends
        BY <2>2, <2>4, <2>5
  <2>7. EndsNear => EndsNear'
        BY <2>3 DEF EndsNear
  <2> QED
      BY <2>3, <2>6, <2>7 DEF RecordInv
<1>7. CASE WorkerWrite
  <2>1. PICK n \in Parts(toEcho, toClient) :
           /\ toClient' = IF ClientOpen THEN toClient \o First(toEcho, n) ELSE <<>>
           /\ toEcho' = Rest(toEcho, n)
        BY <1>7 DEF WorkerWrite
  <2>2. /\ n \in 1..Len(toEcho) /\ Len(toEcho') = Len(toEcho) - n
        /\ ClientOpen => Len(toClient') = Len(toClient) + n
        BY <2>1, PartsType DEF TypeOK
  <2>3. UNCHANGED <<tls, ends, sent, received>> /\ (Echoing' => Echoing /\ ClientOpen)
        BY <1>7 DEF WorkerWrite, Echoing, ClientOpen
  <2>4. ClientOpen => EchoEnd' = EchoEnd
        BY <1>0, <2>2, <2>3 DEF EchoEnd, ClientEnd
  <2> QED
      BY <1>1, <2>3, <2>4
<1>8. CASE WorkerWriteFails \/ WorkerStops \/ WorkerCloses
  <2>1. UNCHANGED <<tls, ends, sent>> /\ ~Echoing'
        BY <1>8 DEF WorkerWriteFails, WorkerStops, WorkerCloses, Echoing, ClientOpen
  <2> QED
      BY <1>1, <2>1
<1>9. CASE ServerStops \/ UNCHANGED vars
  <2>1. UNCHANGED <<tls, ends, sent, at, workerAt, received, toClient, toEcho>>
        BY <1>9 DEF ServerStops, vars
  <2>2. (Echoing' => Echoing) /\ EchoEnd' = EchoEnd
        BY <2>1 DEF Echoing, ClientOpen, EchoEnd, ClientEnd
  <2> QED
      BY <1>1, <2>1, <2>2
<1> QED
    BY <1>2, <1>3, <1>4, <1>5, <1>6, <1>7, <1>8, <1>9 DEF Next, ClientThread, WorkerThread

\* A read finds a record in what is left of a stream that ends with one.
LEMMA ReadReturns ==
    ASSUME TypeOK, RecordInv, NEW a \in Nat, NEW b \in Nat, a < b, b <= Len(sent),
           Stretch(a, b) \in Seq(Bytes), tls => b \in ends
    PROVE  Chunk(Stretch(a, b)) > 0
<1> DEFINE s == Stretch(a, b)
<1>1. Len(s) = b - a /\ \A i \in 1..(b - a) : s[i] = a + i
  <2>1. Len(s) = b - a
        BY StretchType
  <2> QED
      BY <2>1 DEF Stretch
<1> HIDE DEF s
<1>2. s \in Seq(Bytes)
      BY DEF s
<1>3. CASE tls
  <2>1. a + 1 \in 1..Len(sent)
        BY Lengths
  <2>2. PICK e \in ends : a + 1 <= e /\ e < a + 1 + Buf /\ e <= Len(sent)
        BY <1>3, <2>1 DEF RecordInv, EndsNear
  <2>3. e \in Nat
        BY <2>2 DEF TypeOK, Bytes
\* The nearer of that end and the end of the stream.
  <2>4. PICK d \in ends : d \in Nat /\ a + 1 <= d /\ d <= b /\ d < a + 1 + Buf
        BY <1>3, <2>2, <2>3, EchoAssumption
  <2>5. d - a \in 1..Len(s) /\ d - a <= Buf /\ s[d - a] = d
        BY <1>1, <2>4, EchoAssumption
  <2>6. Chunk(s) > 0
        BY <1>2, <1>3, <2>4, <2>5, FindsRecord
  <2> QED
      BY <2>6 DEF s
<1>4. CASE ~tls
  <2>1. Chunk(s) > 0
        BY <1>1, <1>4, EchoAssumption DEF Chunk, AtMost
  <2> QED
      BY <2>1 DEF s
<1> QED
    BY <1>3, <1>4

\* For every length of line, read buffer, connection and session for which a line
\* fits the read buffer and a read buffer the connection (EchoAssumption), and
\* lines that are one record each, of at most 16 KiB: a read that finds bytes and
\* returns none, because the record is not complete, finds the other end at
\* writing its rest, as long as neither has stopped (SSL_read in
\* Client::tryReadString and Worker::readString against the partial writes of
\* the other side).
THEOREM NobodyWaitsForARest == LiveSpec => []RecordsFollow
<1>1. TypeOK /\ StreamInv /\ RecordInv => RecordsFollow
  <2> SUFFICES ASSUME TypeOK, StreamInv, RecordInv, enabled, ClientOpen
               PROVE  /\ toServer # <<>> /\ Chunk(toServer) = 0 => at = "write"
                      /\ toClient # <<>> /\ Chunk(toClient) = 0 => workerAt = "write"
      BY DEF RecordsFollow
  <2>0. Echoing
        BY DEF TypeOK, StreamInv, Echoing
  <2>1. /\ Len(sent) \in Nat /\ Len(received) \in Nat /\ Len(toClient) \in Nat
        /\ Len(toEcho) \in Nat /\ Len(toServer) \in Nat
        /\ ClientEnd \in Nat /\ EchoEnd \in Nat /\ ServerEnd \in Nat
        /\ toServer \in Seq(Bytes) /\ toClient \in Seq(Bytes)
        BY Lengths DEF TypeOK
  <2>2. /\ toClient = Stretch(Len(received), ClientEnd) /\ ClientEnd <= Len(sent)
        /\ toServer = Stretch(EchoEnd, ServerEnd) /\ ServerEnd <= Len(sent)
        /\ toSend = Stretch(ServerEnd, Len(sent))
        BY <2>0 DEF StreamInv, Echoing
  <2>3. ASSUME toServer # <<>>, at # "write" PROVE Chunk(toServer) > 0
    <3>1. ServerEnd = Len(sent)
      <4>1. toSend = <<>> /\ Len(toSend) = 0
            BY <2>3, EmptyType DEF StreamInv
      <4>2. Len(Stretch(ServerEnd, Len(sent))) = Len(sent) - ServerEnd
            BY <2>1, <2>2, StretchType
      <4>3. Len(sent) - ServerEnd = 0
            BY <2>2, <4>1, <4>2
      <4> QED
          BY <2>1, <4>3
    <3>2. EchoEnd < ServerEnd
          BY <2>1, <2>3, EmptySeq DEF ServerEnd
    <3>3. ASSUME tls PROVE ServerEnd \in ends
      <4>1. PICK e \in ends : Len(sent) <= e /\ e <= Len(sent)
            BY <2>1, <3>1, <3>2, <3>3 DEF RecordInv, EndsNear
      <4>2. e \in Nat
            BY <4>1 DEF TypeOK, Bytes
      <4> QED
          BY <2>1, <3>1, <4>1, <4>2
    <3> QED
        BY <2>1, <2>2, <3>2, <3>3, ReadReturns
  <2>4. ASSUME toClient # <<>>, workerAt # "write" PROVE Chunk(toClient) > 0
    <3>1. Len(received) < ClientEnd
          BY <2>1, <2>4, EmptySeq DEF ClientEnd
    <3>2. EchoEnd = ClientEnd
      <4>1. Len(toEcho) = 0
            BY <2>4, EmptyType DEF StreamInv
      <4> QED
          BY <2>1, <4>1 DEF EchoEnd
    <3>3. tls => ClientEnd \in ends
          BY <2>0, <2>1, <3>1, <3>2 DEF RecordInv
    <3> QED
        BY <2>1, <2>2, <3>1, <3>3, ReadReturns
  <2>5. ~(Chunk(toServer) > 0 /\ Chunk(toServer) = 0)
        /\ ~(Chunk(toClient) > 0 /\ Chunk(toClient) = 0)
        OBVIOUS
  <2> QED
      BY <2>3, <2>4, <2>5
<1>2. Init => TypeOK /\ StreamInv /\ RecordInv
      BY TypeInit, StreamInit, RecordInit
<1>3. TypeOK /\ StreamInv /\ RecordInv /\ [Next]_vars => (TypeOK /\ StreamInv /\ RecordInv)'
      BY TypeStep, StreamStep, RecordStep
<1> QED
    BY <1>1, <1>2, <1>3, PTL DEF Spec, LiveSpec
=============================================================================
