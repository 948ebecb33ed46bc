--------------------------- MODULE KeyFiles_proofs ---------------------------
(* For any number of key pairs: the files of a program that fails, is killed or
   loses data never pair one key with the certificate of another, and after
   anything but lost data they are usable. *)
EXTENDS KeyFiles, WellFoundedInduction, TLAPS

Creating == {"openKey", "writeKey", "openCert"}

\* Types of what decides about the files; the encoded signature plays no part.
FileTypes ==
    /\ keyFile \in Contents /\ certFile \in Contents
    /\ made \in 0..MaxPairs
    /\ program = Idle \/ program \in [task : Tasks, at :
          {"openKey", "writeKey", "openCert", "writeCert", "use"}]
    /\ damaged \in BOOLEAN

\* While the pair number made is being written, its key is there before any
\* certificate is, and the certificate of an older pair is gone.
Written ==
    /\ program.at \in Creating => certFile = Absent
    /\ program.at \in Creating \cup {"writeCert"} => made \in Pairs
    /\ program.at \in {"openCert", "writeCert"} => keyFile \in {made, Partial}
    /\ program.at \in {"openCert", "writeCert"} /\ ~damaged => keyFile = made
    /\ program.at = "use" /\ ~damaged => keyFile = certFile /\ keyFile \in Pairs

FilesInv ==
    /\ FileTypes
    /\ Written
    /\ keyFile = Absent => certFile = Absent
    /\ keyFile \in Pairs /\ certFile \in Pairs => keyFile = certFile
    /\ FilesUsable
    /\ ServesItsPair

\* The bound on pairs is a natural number.
LEMMA BoundType == MaxPairs \in Nat
BY KeyFilesAssumption, Base64Assumption

\* Contents that are no pair are told apart.
LEMMA Marks == Absent \notin Pairs /\ Partial \notin Pairs /\ Absent # Partial
<1>1. Pairs \subseteq Nat
      BY BoundType DEF Pairs
<1> QED
    BY <1>1, KeyFilesAssumption

\* There are no files at the start.
LEMMA FilesInit == Init => FilesInv
<1> SUFFICES ASSUME Init PROVE FilesInv
    OBVIOUS
<1> USE Marks, BoundType DEF Init
<1>1. FileTypes
  <2>1. damaged \in BOOLEAN
        OBVIOUS
  <2>2. made \in 0..MaxPairs
        OBVIOUS
  <2> QED
      BY <2>1, <2>2, Zenon DEF FileTypes, Contents
<1>2. program.at = "idle"
      BY DEF Idle
<1>3. Written
      BY <1>2 DEF Written, Creating
<1> QED
    BY <1>1, <1>3 DEF FilesInv, FilesUsable, FilesMissing, ServesItsPair

\* No failure, kill or removal pairs a key with the certificate of another.
LEMMA FilesStep == FilesInv /\ [Next]_vars => FilesInv'
<1> SUFFICES ASSUME FilesInv, [Next]_vars PROVE FilesInv'
    OBVIOUS
<1> USE Marks, BoundType
    DEF FilesInv, FileTypes, Written, FilesUsable, ServesItsPair, FilesMissing,
        Contents, Creating, Idle, None, Pairs, Tasks, last, Ends, Continues
<1>1. ASSUME NEW line \in Lines, Start(line) PROVE FilesInv'
      BY <1>1 DEF Start
<1>2. CASE OpenKey
  <2>1. CASE UNCHANGED keyFile /\ Ends
        BY <1>2, <2>1 DEF OpenKey
  <2>2. CASE keyFile' = Partial /\ Continues("writeKey")
        BY <1>2, <2>2 DEF OpenKey
  <2> QED
      BY <1>2, <2>1, <2>2 DEF OpenKey
<1>3. CASE WriteKey
  <2>1. CASE keyFile' = made /\ Continues("openCert") /\ UNCHANGED damaged
        BY <1>3, <2>1 DEF WriteKey
  <2>2. CASE keyFile' = Partial /\ Continues("openCert") /\ damaged' = TRUE
        BY <1>3, <2>2 DEF WriteKey
  <2>3. CASE keyFile' = Absent /\ Ends /\ UNCHANGED damaged
        BY <1>3, <2>3 DEF WriteKey
  <2> QED
      BY <1>3, <2>1, <2>2, <2>3 DEF WriteKey
<1>4. CASE OpenCert
  <2>1. CASE UNCHANGED certFile /\ Ends
        BY <1>4, <2>1 DEF OpenCert
  <2>2. CASE certFile' = Partial /\ Continues("writeCert")
        BY <1>4, <2>2 DEF OpenCert
  <2> QED
      BY <1>4, <2>1, <2>2 DEF OpenCert
<1>5. CASE WriteCert
  <2>1. CASE certFile' = made /\ Continues("use") /\ UNCHANGED <<keyFile, damaged>>
        BY <1>5, <2>1 DEF WriteCert
  <2>2. CASE certFile' = Partial /\ Continues("use") /\ damaged' = TRUE /\ UNCHANGED keyFile
        BY <1>5, <2>2 DEF WriteCert
  <2>3. CASE keyFile' = Absent /\ certFile' = Absent /\ Ends /\ UNCHANGED damaged
        BY <1>5, <2>3 DEF WriteCert
  <2> QED
      BY <1>5, <2>1, <2>2, <2>3 DEF WriteCert
<1>6. CASE Killed
      BY <1>6 DEF Killed
<1>7. CASE Serve
      BY <1>7 DEF Serve
<1>8. CASE Sign
      BY <1>8 DEF Sign
<1>9. CASE Verify
      BY <1>9 DEF Verify
<1>10. CASE ServerStops
      BY <1>10 DEF ServerStops
<1>11. CASE RemoveFiles
      BY <1>11 DEF RemoveFiles
<1>12. CASE UNCHANGED vars
      BY <1>12 DEF vars
<1> QED
    BY <1>1, <1>2, <1>3, <1>4, <1>5, <1>6, <1>7, <1>8, <1>9, <1>10, <1>11, <1>12
    DEF Next

\* The files keep to the order in which createSelfSignedCert writes them.
THEOREM FilesAlways == Spec => []FilesInv
BY FilesInit, FilesStep, PTL DEF Spec

\* Whatever fails or is killed, and however many pairs are generated, a server
\* that opened has the key of its certificate (createSelfSignedCert, Server::open).
THEOREM AServerHasItsPair == Spec => []ServesItsPair
<1>1. FilesInv => ServesItsPair
      BY DEF FilesInv
<1> QED
    BY <1>1, FilesAlways, PTL

\* After every reported failure and every restart the next program finds a good
\* pair or makes a new one.
THEOREM NoHelpNeeded == Spec => []FilesUsable
<1>1. FilesInv => FilesUsable
      BY DEF FilesInv
<1> QED
    BY <1>1, FilesAlways, PTL
-----------------------------------------------------------------------------
(* The port.  The last of a set of positions is one of them because k - i is a
   natural number for every position i of a line of k arguments. *)

\* The last of some positions in a line is one of them.
LEMMA LastIsOne ==
    ASSUME NEW k \in Nat, NEW S, S \subseteq 1..k, S # {}
    PROVE  Max(S) \in S
<1> DEFINE T == {k - i : i \in S}
<1>1. \A i \in S : i \in Int /\ k - i \in Nat
      OBVIOUS
<1>2. T \subseteq Nat
      BY <1>1
<1>3. T # {}
  <2>1. PICK i \in S : TRUE
        OBVIOUS
  <2>2. k - i \in T
        BY <2>1
  <2> QED
      BY <2>2
<1>4. PICK x \in T : \A y \in T : ~(<<y, x>> \in OpToRel(<, Nat))
      BY <1>2, <1>3, WFMin, NatLessThanWellFounded
<1>5. \A y \in T : ~(y < x)
      BY <1>2, <1>4 DEF OpToRel
<1>6. PICK i \in S : x = k - i
      BY <1>4
<1>7. ASSUME NEW j \in S PROVE i >= j
  <2>1. k - j \in T
        BY <1>7
  <2>2. ~(k - j < k - i)
        BY <2>1, <1>5, <1>6
  <2> QED
      BY <2>2, <1>1
<1> QED
    BY <1>7 DEF Max

\* The widths of port and unsigned long.
LEMMA WidthType == PortMax \in Nat /\ ULongMax \in Nat /\ PortMax <= ULongMax
                   /\ DefaultPort \in 0..PortMax /\ NotANumber \notin Int
BY ArgumentsAssumption

\* Reducing what is smaller changes nothing; a negative number wraps once.
LEMMA Reduce ==
    ASSUME NEW k \in Nat, k > 0, NEW n \in Int, -k < n, n < k
    PROVE  n % k = IF n < 0 THEN n + k ELSE n
<1>1. CASE n < 0
      BY <1>1
<1>2. CASE n >= 0
      BY <1>2
<1> QED
    BY <1>1, <1>2

\* The port parseArguments takes from a line that does not end the program.
LEMMA PortOfLine ==
    ASSUME NEW line \in Lines, ~Terminates(line)
    PROVE  LET typed == {line[i][2] : i \in Given(line, "port")} \ {NotANumber}
               meant == {IF n < 0 THEN n + ULongMax + 1 ELSE n : n \in typed} \cap (0..PortMax)
           IN  IF meant = {} THEN parseArguments(line).port = DefaultPort
               ELSE parseArguments(line).port \in meant
<1> USE WidthType
<1> DEFINE ports == Given(line, "port")
           typed == {line[i][2] : i \in ports} \ {NotANumber}
           Value(n) == IF n < 0 THEN n + ULongMax + 1 ELSE n
           meant == {Value(n) : n \in typed} \cap (0..PortMax)
           fitting == {i \in ports : PortFits(line[i][2])}
           port == IF fitting = {} THEN DefaultPort
                   ELSE Narrow(stoul(LatestOf(line, fitting, 0)))
<1>1. parseArguments(line).port = port
      BY DEF parseArguments
<1>2. Len(line) \in Nat /\ ports \subseteq 1..Len(line)
      BY KeyFilesAssumption DEF Given
<1>3. \A n \in typed : n \in Int /\ -ULongMax <= n /\ n <= ULongMax
  <2> SUFFICES ASSUME NEW n \in typed PROVE n \in Int /\ -ULongMax <= n /\ n <= ULongMax
      OBVIOUS
  <2>1. PICK i \in ports : n = line[i][2] /\ n # NotANumber
        OBVIOUS
  <2>2. n \in Int
        BY <2>1, KeyFilesAssumption
  <2>3. n \in (-ULongMax)..ULongMax
        BY <2>1 DEF Terminates
  <2> QED
      BY <2>2, <2>3
<1>4. \A n \in typed : stoul(n) = Value(n)
  <2> SUFFICES ASSUME NEW n \in typed PROVE stoul(n) = Value(n)
      OBVIOUS
  <2> DEFINE k == ULongMax + 1
  <2>1. k \in Nat /\ k > 0 /\ n \in Int /\ -k < n /\ n < k
        BY <1>3
  <2>2. n % k = IF n < 0 THEN n + k ELSE n
    <3> HIDE DEF k
    <3> QED
        BY <2>1, Reduce
  <2> QED
      BY <2>1, <2>2 DEF stoul
<1>5. \A n \in typed : PortFits(n) <=> Value(n) \in 0..PortMax
      BY <1>3, <1>4 DEF PortFits
<1>6. CASE fitting = {}
  <2>1. \A n \in typed : ~PortFits(n)
        BY <1>6
  <2>2. meant = {}
        BY <2>1, <1>5
  <2> QED
      BY <1>1, <1>6, <2>2
<1>7. CASE fitting # {}
  <2>1. Max(fitting) \in fitting
        BY <1>2, <1>7, LastIsOne
  <2> DEFINE n == line[Max(fitting)][2]
  <2>2. n \in typed /\ PortFits(n)
        BY <2>1 DEF PortFits
  <2>3. Value(n) \in meant
        BY <2>2, <1>5
  <2>4. port = Narrow(Value(n))
        BY <1>7, <2>2, <1>4 DEF LatestOf
  <2>5. Value(n) \in 0..PortMax
        BY <2>3
  <2>6. Narrow(Value(n)) = Value(n)
        BY <2>5, Reduce DEF Narrow
  <2> QED
      BY <1>1, <2>3, <2>4, <2>6
<1> QED
    BY <1>6, <1>7

\* A program keeps the port it took from its line.
LEMMA PortStep == PortAsTyped /\ [Next]_vars => PortAsTyped'
<1> SUFFICES ASSUME PortAsTyped, [Next]_vars PROVE PortAsTyped'
    OBVIOUS
<1>1. ASSUME NEW line \in Lines, Start(line) PROVE PortAsTyped'
  <2>1. asked'.line = line /\ asked'.port = parseArguments(line).port
        BY <1>1 DEF Start
  <2>2. ~Terminates(line)
        BY <1>1, KeyFilesAssumption DEF Start, Selected, Tasks
  <2> QED
      BY <2>1, <2>2, PortOfLine DEF PortAsTyped
<1>2. CASE Ends
      BY <1>2 DEF Ends, PortAsTyped
<1>3. CASE program # Idle /\ asked' = asked
      BY <1>3 DEF PortAsTyped
<1>4. CASE program' = program /\ asked' = asked
      BY <1>4 DEF PortAsTyped
<1>5. OpenKey \/ WriteKey \/ OpenCert \/ WriteCert => Ends \/ (program # Idle /\ asked' = asked)
      BY DEF OpenKey, WriteKey, OpenCert, WriteCert, Continues, Idle
<1>6. Killed \/ Serve \/ Sign \/ Verify => Ends
      BY DEF Killed, Serve, Sign, Verify
<1>7. ServerStops \/ RemoveFiles \/ UNCHANGED vars => program' = program /\ asked' = asked
      BY DEF ServerStops, RemoveFiles, vars
<1> QED
    BY <1>1, <1>2, <1>3, <1>4, <1>5, <1>6, <1>7 DEF Next

\* Whatever is typed, in any order and however often, a program that starts uses
\* a port that was typed, or the default one (parseArguments, main.cpp).
THEOREM NoPortOfItsOwn == Spec => []PortAsTyped
<1>1. Init => PortAsTyped
      BY DEF Init, PortAsTyped
<1> QED
    BY <1>1, PortStep, PTL DEF Spec
-----------------------------------------------------------------------------
(* The codecs.  The lemmas about them are proved in Algorithm_proofs; they speak
   of none of its variables and of no constants but the two sizes, so that any
   values do for the others. *)

Codec == INSTANCE Algorithm_proofs
    WITH Samples <- {}, MaxLength <- 0, ChunkSize <- 1,
         at <- "", url <- FALSE, input <- 0, text <- <<>>, result <- <<>>,
         position <- 0, opened <- FALSE, good <- TRUE, hashed <- <<>>

\* The sizes are those of this module.
LEMMA CodecSizes == Codec!Base64Assumption /\ Codec!AlgorithmAssumption /\ Codec!Byte = Byte
BY Base64Assumption DEF Codec!Byte, Byte

\* The encoder of that module is the one of this module.
LEMMA SameEncoder == \A s : Codec!encodeBase64(s) = encodeBase64(s)
BY DEF Codec!encodeBase64, encodeBase64, Codec!BioEncode, BioEncode, Codec!Regroup, Regroup,
       Codec!GroupValue, GroupValue, Codec!Figure, Figure, Codec!FigureAt, FigureAt,
       Codec!Pad, Pad

\* The decoder of that module is the one of this module.
LEMMA SameDecoder == \A s : Codec!decodeBase64(s) = decodeBase64(s)
BY DEF Codec!decodeBase64, decodeBase64, Codec!BufferFits, BufferFits, Codec!BioDecode, BioDecode, Codec!Regroup, Regroup,
       Codec!GroupValue, GroupValue, Codec!Figure, Figure, Codec!FigureAt, FigureAt,
       Codec!Pad, Pad, Codec!Failed, Failed, Codec!Minus, Minus, Codec!Underscore, Underscore

\* "sign" prints characters of base64, and what it prints is decoded again.
LEMMA SignatureReadable ==
    ASSUME NEW k \in Pairs, NEW i \in Inputs
    PROVE  LET s == encodeBase64(SignatureOf(k, i))
           IN  s \in Seq(Char) /\ s # <<>> /\ decodeBase64(s) = SignatureOf(k, i)
<1> DEFINE bytes == SignatureOf(k, i)
           s == encodeBase64(bytes)
<1>1. bytes \in Seq(Byte) /\ bytes # <<>> /\ Len(bytes) = 4
  <2>1. k \in Byte /\ i \in Byte /\ ByteBase - 1 \in Byte /\ 0 \in Byte
        BY KeyFilesAssumption, Base64Assumption DEF Pairs, Byte
  <2> QED
      BY <2>1 DEF SignatureOf
<1> HIDE DEF bytes
<1>2. decodeBase64(s) = bytes
  <2>1. Codec!GroupsOf(bytes, 3) = 2
        BY <1>1 DEF Codec!GroupsOf
  <2> DEFINE coded == Codec!encodeBase64(bytes)
  <2>2. Len(coded) = Codec!GroupsOf(bytes, 3) * 4
        BY <1>1, CodecSizes, Codec!Encoded
  <2>3. (Len(coded) \div 4) * 3 + 1 <= IntMax
    <3> HIDE DEF coded
    <3>1. IntMax >= 7 /\ Len(coded) = 8
          BY <2>1, <2>2, KeyFilesAssumption
    <3> QED
        BY <3>1
  <2>4. Codec!BufferFits(coded)
        BY <2>3 DEF Codec!BufferFits
  <2> QED
      BY <1>1, <2>4, CodecSizes, SameEncoder, SameDecoder, Codec!DecodesEncoded
<1>3. s \in Seq(Codec!Digit \cup {Codec!Pad})
      BY <1>1, CodecSizes, SameEncoder, Codec!Encoded
<1>4. Codec!Digit \cup {Codec!Pad} \subseteq Char
      BY DEF Codec!Digit, Codec!Pad, Char, Pad
<1> HIDE DEF s
<1>5. s \in Seq(Char)
      BY <1>3, <1>4
<1>6. s # <<>>
      BY <1>1, <1>2 DEF decodeBase64, Failed
<1> QED
    BY <1>2, <1>5, <1>6 DEF s, bytes

\* A signature is that of one key and one input.
LEMMA SignatureTells ==
    ASSUME NEW k \in Pairs, NEW l \in Pairs, NEW i, NEW j
    PROVE  /\ SignatureOf(k, i) = SignatureOf(l, j) <=> k = l /\ i = j
           /\ Failed # SignatureOf(k, i)
<1>1. SignatureOf(k, i)[1] = k /\ SignatureOf(k, i)[2] = i
      /\ SignatureOf(l, j)[1] = l /\ SignatureOf(l, j)[2] = j
      BY DEF SignatureOf
<1>2. Len(SignatureOf(k, i)) = 4 /\ Len(Failed) = 1
      BY DEF SignatureOf, Failed
<1> QED
    BY <1>1, <1>2 DEF SignatureOf
-----------------------------------------------------------------------------
(* The verdict.  VerdictIsRight needs that the signature is one, and that while
   nobody removes files they keep the key it was made with: no program makes a
   new pair, for the files are there. *)

SigInv ==
    /\ program # Idle => verdict = NoVerdict
    /\ program # Idle /\ program.at = "use" => keyFile # Absent /\ certFile # Absent
    /\ signature.text # <<>> =>
          \E k \in Pairs :
             /\ signature.input \in Inputs
             /\ signature.text = encodeBase64(SignatureOf(k, signature.input))
             /\ ~disturbed => /\ keyFile = k /\ certFile \in {k, Partial}
                              /\ program # Idle => program.at = "use"
    /\ VerdictIsRight

\* Steps of a program that is making the files.
LEMMA SigStepCreating ==
    ASSUME FilesInv, SigInv, OpenKey \/ WriteKey \/ OpenCert \/ WriteCert
    PROVE  SigInv'
<1>1. program.at \in Creating \cup {"writeCert"} /\ program # Idle /\ program.at # "use"
  <2>1. program.at \in Creating \cup {"writeCert"}
        BY DEF OpenKey, WriteKey, OpenCert, WriteCert, Creating
  <2> QED
      BY <2>1 DEF Idle, Creating
<1>2. UNCHANGED <<signature, verdict, disturbed>>
      BY DEF OpenKey, WriteKey, OpenCert, WriteCert, last
<1>3. signature.text # <<>> => disturbed
      BY <1>1 DEF SigInv
<1>4. program' # Idle /\ program'.at = "use" => keyFile' # Absent /\ certFile' # Absent
  <2>1. CASE OpenKey \/ WriteKey \/ OpenCert
    <3>1. program' = Idle \/ program' = [program EXCEPT !.at = "writeKey"]
          \/ program' = [program EXCEPT !.at = "openCert"]
          \/ program' = [program EXCEPT !.at = "writeCert"]
          BY <2>1 DEF OpenKey, WriteKey, OpenCert, Continues, Ends
    <3>2. program \in [task : Tasks, at : Creating \cup {"writeCert", "use"}]
          BY <1>1 DEF FilesInv, FileTypes, Creating
    <3> QED
        BY <3>1, <3>2
  <2>2. CASE WriteCert
    <3>1. keyFile \in {made, Partial} /\ made \in Pairs
          BY <2>2 DEF WriteCert, FilesInv, Written, Creating
    <3>2. \/ program' = Idle
          \/ certFile' \in {made, Partial} /\ keyFile' = keyFile
          BY <2>2 DEF WriteCert, Ends
    <3> QED
        BY <3>1, <3>2, Marks
  <2> QED
      BY <2>1, <2>2
<1> QED
    BY <1>1, <1>2, <1>3, <1>4 DEF SigInv, VerdictIsRight

\* What a program has asked for is what its line says.
AskedType ==
    asked = Nothing \/ asked \in [line : Lines, port : 0..PortMax, input : Inputs \cup {NoValue}]

\* A program keeps what its line says until it ends.
LEMMA AskedStep == AskedType /\ [Next]_vars => AskedType'
<1> SUFFICES ASSUME AskedType, [Next]_vars PROVE AskedType'
    OBVIOUS
<1>1. ASSUME NEW line \in Lines, Start(line) PROVE AskedType'
  <2>1. asked' = [line |-> line, port |-> parseArguments(line).port,
                  input |-> parseArguments(line).input]
        BY <1>1 DEF Start
  <2>2. Len(line) \in Nat /\ Given(line, "input") \subseteq 1..Len(line)
        BY KeyFilesAssumption DEF Given
  <2>3. parseArguments(line).input \in Inputs \cup {NoValue}
    <3>1. parseArguments(line).input = LatestOf(line, Given(line, "input"), NoValue)
          BY DEF parseArguments
    <3>2. CASE Given(line, "input") = {}
          BY <3>1, <3>2 DEF LatestOf
    <3>3. CASE Given(line, "input") # {}
      <4>1. Max(Given(line, "input")) \in Given(line, "input")
            BY <2>2, <3>3, LastIsOne
      <4> QED
          BY <3>1, <3>3, <4>1, KeyFilesAssumption DEF LatestOf
    <3> QED
        BY <3>2, <3>3
  <2>4. parseArguments(line).port \in 0..PortMax
    <3>1. ~Terminates(line)
          BY <1>1, KeyFilesAssumption DEF Start, Selected, Tasks
    <3> QED
        BY <3>1, PortOfLine, WidthType
  <2> QED
      BY <2>1, <2>3, <2>4 DEF AskedType
<1>2. CASE asked' = asked \/ Ends
      BY <1>2 DEF AskedType, Ends
<1>3. OpenKey \/ WriteKey \/ OpenCert \/ WriteCert \/ Killed \/ Serve \/ Sign \/ Verify
      \/ ServerStops \/ RemoveFiles \/ UNCHANGED vars => asked' = asked \/ Ends
      BY DEF OpenKey, WriteKey, OpenCert, WriteCert, Killed, Serve, Sign, Verify,
             ServerStops, RemoveFiles, vars, Continues
<1> QED
    BY <1>1, <1>2, <1>3 DEF Next

\* A signature is made, of the key that is there.
LEMMA SigStepSign == FilesInv /\ AskedType /\ SigInv /\ Sign => SigInv'
<1> SUFFICES ASSUME FilesInv, AskedType, SigInv, Sign PROVE SigInv'
    OBVIOUS
<1>1. /\ program # Idle /\ program' = Idle
      /\ UNCHANGED <<keyFile, certFile, verdict>>
      /\ verdict = NoVerdict
      BY DEF Sign, Ends, SigInv, Idle
<1>2. CASE UNCHANGED <<signature, disturbed>>
      BY <1>1, <1>2 DEF SigInv, VerdictIsRight, Sign
<1>3. CASE /\ keyFile \in Pairs /\ asked.input # NoValue
           /\ signature' = [input |-> asked.input,
                            text |-> encodeBase64(SignatureOf(keyFile, asked.input))]
  <2>1. asked.input \in Inputs
        BY <1>3 DEF AskedType, Nothing
  <2>2. certFile \in {keyFile, Partial}
    <3>1. certFile # Absent /\ certFile \in Contents
          BY <1>1 DEF Sign, SigInv, FilesInv, FileTypes
    <3>2. certFile \in Pairs => certFile = keyFile
          BY <1>3 DEF FilesInv
    <3> QED
        BY <3>1, <3>2 DEF Contents
  <2>3. verdict'.is = "none"
        BY <1>1 DEF NoVerdict
  <2>4. \E k \in Pairs :
             /\ signature'.input \in Inputs
             /\ signature'.text = encodeBase64(SignatureOf(k, signature'.input))
             /\ keyFile' = k /\ certFile' \in {k, Partial}
        BY <1>1, <1>3, <2>1, <2>2
  <2> QED
      BY <1>1, <2>3, <2>4 DEF SigInv, VerdictIsRight
<1> QED
    BY <1>2, <1>3 DEF Sign

\* A signature is verified, with the certificate that is there.
LEMMA SigStepVerify == FilesInv /\ AskedType /\ SigInv /\ Verify => SigInv'
<1> SUFFICES ASSUME FilesInv, AskedType, SigInv, Verify PROVE SigInv'
    OBVIOUS
<1>1. /\ program # Idle /\ program' = Idle
      /\ UNCHANGED <<keyFile, certFile, signature, disturbed>>
      /\ verdict = NoVerdict
      BY DEF Verify, Ends, SigInv, Idle
<1>2. /\ program' # Idle => verdict' = NoVerdict
      /\ program' # Idle /\ program'.at = "use" => keyFile' # Absent /\ certFile' # Absent
      /\ signature'.text # <<>> =>
            \E k \in Pairs :
               /\ signature'.input \in Inputs
               /\ signature'.text = encodeBase64(SignatureOf(k, signature'.input))
               /\ ~disturbed' => /\ keyFile' = k /\ certFile' \in {k, Partial}
                                 /\ program' # Idle => program'.at = "use"
      BY <1>1 DEF SigInv
<1>3. VerdictIsRight'
  <2>1. CASE UNCHANGED verdict
        BY <1>1, <2>1 DEF NoVerdict, VerdictIsRight
  <2>2. CASE /\ certFile \in Pairs /\ asked.input # NoValue
             /\ verdict' = [input |-> asked.input,
                   is |-> IF decodeBase64(signature.text) = SignatureOf(certFile, asked.input)
                          THEN "valid" ELSE "not valid"]
    <3>1. CASE signature.text = <<>>
      <4>1. decodeBase64(signature.text) # SignatureOf(certFile, asked.input)
            BY <2>2, <3>1, SignatureTells DEF decodeBase64
      <4> QED
          BY <1>1, <2>2, <3>1, <4>1 DEF VerdictIsRight
    <3>2. CASE signature.text # <<>>
      <4>1. PICK k \in Pairs :
               /\ signature.input \in Inputs
               /\ signature.text = encodeBase64(SignatureOf(k, signature.input))
               /\ ~disturbed => certFile \in {k, Partial}
            BY <3>2 DEF SigInv
      <4>2. decodeBase64(signature.text) = SignatureOf(k, signature.input)
            BY <4>1, SignatureReadable
      <4>3. decodeBase64(signature.text) = SignatureOf(certFile, asked.input)
            <=> k = certFile /\ signature.input = asked.input
        <5>1. certFile \in Pairs
              BY <2>2
        <5>2. SignatureOf(k, signature.input) = SignatureOf(certFile, asked.input)
              <=> k = certFile /\ signature.input = asked.input
          <6>1. ASSUME SignatureOf(k, signature.input) = SignatureOf(certFile, asked.input)
                PROVE  k = certFile /\ signature.input = asked.input
                BY <5>1, <6>1, SignatureTells
          <6> QED
              BY <6>1
        <5> QED
            BY <4>2, <5>2, Zenon
      <4>4. ~disturbed => k = certFile
            BY <2>2, <4>1, Marks
      <4> QED
          BY <1>1, <2>2, <4>3, <4>4 DEF VerdictIsRight
    <3> QED
        BY <3>1, <3>2
  <2> QED
      BY <2>1, <2>2 DEF Verify
<1> QED
    BY <1>2, <1>3 DEF SigInv

\* No step makes the last signature unreadable or, without the user, one of another key.
LEMMA SigStep == FilesInv /\ AskedType /\ SigInv /\ [Next]_vars => SigInv'
<1> SUFFICES ASSUME FilesInv, AskedType, SigInv, [Next]_vars PROVE SigInv'
    OBVIOUS
<1>1. ASSUME NEW line \in Lines, Start(line) PROVE SigInv'
  <2>1. /\ verdict' = NoVerdict /\ UNCHANGED <<keyFile, certFile, signature, disturbed>>
        /\ program' # Idle
        /\ program'.at = IF FilesMissing THEN "openKey" ELSE "use"
        BY <1>1 DEF Start, Idle
  <2>2. signature.text # <<>> /\ ~disturbed => ~FilesMissing
        BY Marks DEF SigInv, FilesMissing
  <2> QED
      BY <2>1, <2>2 DEF SigInv, VerdictIsRight, NoVerdict, FilesMissing
<1>2. CASE Killed \/ Serve
  <2>1. program # Idle /\ program' = Idle
        /\ UNCHANGED <<keyFile, certFile, signature, verdict, disturbed>>
        BY <1>2 DEF Killed, Serve, Ends, last, Idle
  <2> QED
      BY <2>1 DEF SigInv, VerdictIsRight
<1>3. CASE ServerStops \/ UNCHANGED vars
      BY <1>3 DEF ServerStops, vars, SigInv, VerdictIsRight
<1>4. CASE RemoveFiles
      BY <1>4 DEF RemoveFiles, last, SigInv, VerdictIsRight
<1> QED
    BY <1>1, <1>2, <1>3, <1>4, SigStepCreating, SigStepSign, SigStepVerify DEF Next

\* The last signature and the verdict about it agree in every state.
LEMMA SignatureAlways == Spec => [](AskedType /\ SigInv)
<1>1. Init => AskedType /\ SigInv
      BY DEF Init, AskedType, SigInv, VerdictIsRight, NoVerdict
<1> QED
    BY <1>1, AskedStep, SigStep, FilesAlways, PTL DEF Spec

\* For any keys, inputs and sizes, and whatever fails or is killed: "verify" calls
\* the signature printed last valid for its data only, and until the user removes
\* files it does so whenever it can say anything.
THEOREM VerifiedAsSigned == Spec => []VerdictIsRight
<1>1. SigInv => VerdictIsRight
      BY DEF SigInv
<1> QED
    BY <1>1, SignatureAlways, PTL
-----------------------------------------------------------------------------
(* The types of what the programs print and load. *)

Loaded == server \in [key : Contents, cert : Contents]
Printed ==
    /\ signature.input \in Byte /\ signature.text \in Seq(Char)
    /\ verdict \in [input : Byte, is : {"none", "valid", "not valid"}]
    /\ disturbed \in BOOLEAN

\* Nothing was said of a byte.
LEMMA NoVerdictType ==
    0 \in Byte /\ NoVerdict \in [input : Byte, is : {"none", "valid", "not valid"}]
<1>1. 0 \in Byte
      BY Base64Assumption DEF Byte
<1> QED
    BY <1>1 DEF NoVerdict

\* What is signed is a byte, and what is printed are characters (runAlgorithm).
LEMMA PrintedStep == FilesInv /\ AskedType /\ Printed /\ [Next]_vars => Printed'
<1> SUFFICES ASSUME FilesInv, AskedType, Printed, [Next]_vars PROVE Printed'
    OBVIOUS
<1>1. ASSUME NEW line \in Lines, Start(line) PROVE Printed'
      BY <1>1, NoVerdictType DEF Start, Printed
<1>2. CASE UNCHANGED <<signature, verdict, disturbed>>
      BY <1>2 DEF Printed
<1>3. CASE Sign
  <2>1. CASE /\ keyFile \in Pairs /\ asked.input # NoValue
             /\ signature' = [input |-> asked.input,
                              text |-> encodeBase64(SignatureOf(keyFile, asked.input))]
    <3>1. asked.input \in Inputs /\ asked.input \in Byte
          BY <2>1, KeyFilesAssumption DEF AskedType, Nothing
    <3>2. encodeBase64(SignatureOf(keyFile, asked.input)) \in Seq(Char)
          BY <2>1, <3>1, SignatureReadable
    <3>3. signature'.input = asked.input
          /\ signature'.text = encodeBase64(SignatureOf(keyFile, asked.input))
          BY <2>1, Zenon
    <3>4. /\ disturbed' \in BOOLEAN
          /\ verdict' \in [input : Byte, is : {"none", "valid", "not valid"}]
          BY <1>3 DEF Sign, Printed
    <3>5. signature'.input \in Byte /\ signature'.text \in Seq(Char)
          BY <3>1, <3>2, <3>3, Zenon
    <3> QED
        BY <3>4, <3>5, Zenon DEF Printed
  <2> QED
      BY <1>2, <1>3, <2>1 DEF Sign
<1>4. CASE Verify
  <2>1. CASE asked.input # NoValue
    <3>1. asked.input \in Byte
          BY <2>1, KeyFilesAssumption DEF AskedType, Nothing
    <3>2. UNCHANGED <<signature, disturbed>>
          BY <1>4 DEF Verify
    <3>3. PICK is \in {"none", "valid", "not valid"} :
             verdict' = [input |-> asked.input, is |-> is] \/ verdict' = verdict
          BY <1>4 DEF Verify
    <3>4. verdict' \in [input : Byte, is : {"none", "valid", "not valid"}]
      <4>1. [input |-> asked.input, is |-> is]
            \in [input : Byte, is : {"none", "valid", "not valid"}]
            BY <3>1
      <4>2. verdict \in [input : Byte, is : {"none", "valid", "not valid"}]
            BY DEF Printed
      <4> QED
          BY <3>3, <4>1, <4>2, Zenon
    <3> QED
        BY <3>2, <3>4 DEF Printed
  <2> QED
      BY <1>4, <2>1 DEF Verify, Printed
<1>5. CASE RemoveFiles
      BY <1>5 DEF RemoveFiles, last, Printed
<1>6. OpenKey \/ WriteKey \/ OpenCert \/ WriteCert \/ Killed \/ Serve \/ ServerStops
      \/ UNCHANGED vars => UNCHANGED <<signature, verdict, disturbed>>
      BY DEF OpenKey, WriteKey, OpenCert, WriteCert, Killed, Serve, ServerStops, vars, last
<1> QED
    BY <1>1, <1>2, <1>3, <1>4, <1>5, <1>6 DEF Next

\* A server has loaded contents of the files (Server::open).
LEMMA LoadedStep == Loaded /\ [Next]_vars => Loaded'
<1> SUFFICES ASSUME Loaded, [Next]_vars PROVE Loaded'
    OBVIOUS
<1>1. Absent \in Contents /\ Pairs \subseteq Contents
      BY DEF Contents
<1>2. CASE UNCHANGED server
      BY <1>2 DEF Loaded
<1>3. CASE Serve
      BY <1>1, <1>3 DEF Serve, Loaded
<1>4. CASE ServerStops
      BY <1>1, <1>4 DEF ServerStops, None, Loaded
<1>5. (\E line \in Lines : Start(line)) \/ OpenKey \/ WriteKey \/ OpenCert \/ WriteCert \/ Killed
      \/ Sign \/ Verify \/ RemoveFiles \/ UNCHANGED vars => UNCHANGED server
      BY DEF Start, OpenKey, WriteKey, OpenCert, WriteCert, Killed, Sign, Verify, RemoveFiles,
             vars, last
<1> QED
    BY <1>2, <1>3, <1>4, <1>5 DEF Next

\* Every variable keeps its type: the files hold whole pairs or nothing that
\* loads, a port fits sixteen bits, a signature is printed in characters of
\* base64 (main.cpp, createSelfSignedCert, runAlgorithm).
THEOREM TypesKept == Spec => []TypeOK
<1>1. Init => Loaded /\ Printed
  <2> SUFFICES ASSUME Init PROVE Loaded /\ Printed
      OBVIOUS
  <2>1. signature.input \in Byte /\ signature.text \in Seq(Char)
    <3>1. signature.input = 0 /\ signature.text = <<>>
          BY DEF Init
    <3>2. <<>> \in Seq(Char)
          OBVIOUS
    <3> QED
        BY <3>1, <3>2, NoVerdictType, Zenon
  <2>2. server \in [key : Contents, cert : Contents]
        BY DEF Init, None, Contents
  <2> QED
      BY <2>1, <2>2, NoVerdictType DEF Init, Loaded, Printed
<1>2. FilesInv /\ AskedType /\ Loaded /\ Printed => TypeOK
      BY DEF FilesInv, FileTypes, AskedType, Loaded, Printed, TypeOK
<1> QED
    BY <1>1, <1>2, LoadedStep, PrintedStep, FilesAlways, SignatureAlways, PTL DEF Spec
=============================================================================
