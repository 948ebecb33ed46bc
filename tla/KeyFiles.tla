------------------------------ MODULE KeyFiles ------------------------------
(* The programs of example-8 that use the default key and certificate files:
   the server, and the tasks "sign" and "verify".  Each first makes sure the two
   files exist, with createSelfSignedCert of OpenSslWrapper.cpp, which writes
   them one after the other.  Programs may be killed at any step; the user
   removes files, but never the key file alone, and starts no program while
   another is still writing.  A running server goes on while others run. *)
EXTENDS Base64, Arguments

CONSTANTS
    MaxPairs,       \* bound on the key pairs generated
    Absent,         \* content of a file that does not exist
    Partial,        \* an empty or incomplete file
    Inputs,         \* data to sign
    Lines           \* the command lines the user types

ASSUME KeyFilesAssumption ==
    /\ MaxPairs \in 1..(ByteBase - 1)
    /\ IntMax >= 7              \* what decoding a signature takes
    /\ Inputs \subseteq Byte
    /\ Absent # Partial /\ {Absent, Partial} \cap Nat = {}
    /\ NoValue \notin {"server", "sign", "verify"} /\ NoValue \notin Inputs
    /\ \A line \in Lines :
          /\ Len(line) \in Nat /\ DOMAIN line = 1..Len(line)
          /\ \A i \in Given(line, "port") : line[i][2] \in Int \cup {NotANumber}
          /\ \A i \in Given(line, "input") : line[i][2] \in Inputs

VARIABLES
    keyFile, certFile,  \* contents of key.pem and cert.pem
    made,           \* pairs generated so far
    program,        \* the program that is starting: task and control point
    asked,          \* its command line, and the port and input it took from that
    server,         \* key and certificate a running server has loaded, or None
    signature,      \* what "sign" printed last, of the input that was signed
    verdict,        \* of the last "verify"
    disturbed,      \* since that signature, the user has removed files
    damaged         \* a program lost what it wrote, or was killed writing the certificate

vars == <<keyFile, certFile, made, program, asked, server, signature, verdict, disturbed,
          damaged>>
last == <<server, signature, verdict>>

Pairs == 1..MaxPairs
Contents == Pairs \cup {Absent, Partial}
Tasks == {"server", "sign", "verify"}
None == [key |-> Absent, cert |-> Absent]
NoVerdict == [input |-> 0, is |-> "none"]
Idle == [task |-> "none", at |-> "idle"]
Nothing == [line |-> <<>>, port |-> DefaultPort, input |-> NoValue]

Init ==
    /\ keyFile = Absent /\ certFile = Absent
    /\ made = 0
    /\ program = Idle /\ asked = Nothing
    /\ server = None
    /\ signature = [input |-> 0, text |-> <<>>]
    /\ verdict = NoVerdict
    /\ disturbed = FALSE /\ damaged = FALSE

Ends == program' = Idle /\ asked' = Nothing
Continues(at) == program' = [program EXCEPT !.at = at] /\ UNCHANGED asked
-----------------------------------------------------------------------------
(* runServer and runAlgorithm start. *)

\* Mutant of FilesMissing: the files are never looked for.
FilesAssumedMissing == TRUE

\* fileExists is true of an incomplete file.
FilesMissing == keyFile = Absent \/ certFile = Absent

\* main, for a line that starts a program with key files: the others end at
\* once or leave these files alone.
Start(line) ==
    /\ program = Idle
    /\ Selected(line) \in Tasks
    /\ Selected(line) = "server" => server = None
    /\ FilesMissing => made < MaxPairs
    /\ program' = [task |-> Selected(line), at |-> IF FilesMissing THEN "openKey" ELSE "use"]
    /\ asked' = [line |-> line, port |-> parseArguments(line).port,
                 input |-> parseArguments(line).input]
    /\ made' = IF FilesMissing THEN made + 1 ELSE made
    /\ verdict' = NoVerdict
    /\ UNCHANGED <<keyFile, certFile, server, signature, disturbed, damaged>>

(* createSelfSignedCert, of the pair number made.  What was written may get lost
   when the file is closed, as on a full disk, which the code does not look at. *)

\* Mutant of OpenKey: a key file that exists is kept.
OpenKeyIfMissing ==
    /\ program.at = "openKey"
    /\ \/ keyFile = Absent /\ keyFile' = Partial /\ Continues("writeKey")
       \/ keyFile # Absent /\ UNCHANGED keyFile /\ Continues("openCert")
    /\ UNCHANGED <<certFile, made, last, disturbed, damaged>>

OpenKey ==
    /\ program.at = "openKey"
    /\ \/ keyFile' = Partial /\ Continues("writeKey")
       \/ UNCHANGED keyFile /\ Ends
    /\ UNCHANGED <<certFile, made, last, disturbed, damaged>>

WriteKey ==
    /\ program.at = "writeKey"
    /\ \/ keyFile' = made /\ Continues("openCert") /\ UNCHANGED damaged
       \/ keyFile' = Partial /\ Continues("openCert") /\ damaged' = TRUE
       \/ keyFile' = Absent /\ Ends /\ UNCHANGED damaged
    /\ UNCHANGED <<certFile, made, last, disturbed>>

\* If the certificate file cannot be opened the new key file stays.
OpenCert ==
    /\ program.at = "openCert"
    /\ \/ certFile' = Partial /\ Continues("writeCert")
       \/ UNCHANGED certFile /\ Ends
    /\ UNCHANGED <<keyFile, made, last, disturbed, damaged>>

\* Mutant of WriteCert: after a failure only the key file is removed.
WriteCertLeavesPart ==
    /\ program.at = "writeCert"
    /\ \/ certFile' = made /\ Continues("use") /\ UNCHANGED <<keyFile, damaged>>
       \/ keyFile' = Absent /\ Ends /\ UNCHANGED <<certFile, damaged>>
    /\ UNCHANGED <<made, last, disturbed>>

WriteCert ==
    /\ program.at = "writeCert"
    /\ \/ certFile' = made /\ Continues("use") /\ UNCHANGED <<keyFile, damaged>>
       \/ certFile' = Partial /\ Continues("use") /\ damaged' = TRUE /\ UNCHANGED keyFile
       \/ keyFile' = Absent /\ certFile' = Absent /\ Ends /\ UNCHANGED damaged
    /\ UNCHANGED <<made, last, disturbed>>

Killed ==
    /\ program # Idle /\ Ends
    /\ damaged' = (damaged \/ program.at = "writeCert")
    /\ UNCHANGED <<keyFile, certFile, made, last, disturbed>>
-----------------------------------------------------------------------------
(* What the programs do with the files. *)

\* Server::open loads both files; a key that does not belong to the certificate
\* is dropped by OpenSSL without an error.  Opening may fail later on as well.
Serve ==
    /\ program = [task |-> "server", at |-> "use"] /\ Ends
    /\ \/ /\ keyFile \in Pairs /\ certFile \in Pairs
          /\ server' = [key |-> IF keyFile = certFile THEN keyFile ELSE Absent,
                        cert |-> certFile]
       \/ UNCHANGED server
    /\ UNCHANGED <<keyFile, certFile, made, signature, verdict, disturbed, damaged>>

\* The bytes of a signature determine the key and the data.
SignatureOf(key, input) == <<key, input, ByteBase - 1, 0>>

Sign ==
    /\ program = [task |-> "sign", at |-> "use"] /\ Ends
    /\ \/ /\ keyFile \in Pairs /\ asked.input # NoValue
          /\ signature' = [input |-> asked.input,
                           text |-> encodeBase64(SignatureOf(keyFile, asked.input))]
          /\ disturbed' = FALSE
       \/ /\ keyFile \notin Pairs \/ asked.input = NoValue
          /\ UNCHANGED <<signature, disturbed>>
    /\ UNCHANGED <<keyFile, certFile, made, server, verdict, damaged>>

\* The user passes the signature printed last.  Without input nothing is done.
\* An undecodable signature is verified as an empty one.
Verify ==
    /\ program = [task |-> "verify", at |-> "use"] /\ Ends
    /\ \/ /\ certFile \in Pairs /\ asked.input # NoValue
          /\ verdict' = [input |-> asked.input,
                is |-> IF decodeBase64(signature.text) = SignatureOf(certFile, asked.input)
                       THEN "valid" ELSE "not valid"]
       \/ (certFile \notin Pairs \/ asked.input = NoValue) /\ UNCHANGED verdict
    /\ UNCHANGED <<keyFile, certFile, made, server, signature, disturbed, damaged>>

ServerStops ==
    /\ server # None /\ server' = None
    /\ UNCHANGED <<keyFile, certFile, made, program, asked, signature, verdict, disturbed,
                   damaged>>

\* The user removes the certificate file or both.
RemoveFiles ==
    /\ program = Idle
    /\ certFile' = Absent
    /\ \/ keyFile' = Absent /\ damaged' = FALSE
       \/ UNCHANGED <<keyFile, damaged>>
    /\ disturbed' = TRUE
    /\ UNCHANGED <<made, program, asked, last>>

Next ==
    \/ \E line \in Lines : Start(line)
    \/ OpenKey \/ WriteKey \/ OpenCert \/ WriteCert \/ Killed
    \/ Serve \/ Sign \/ Verify
    \/ ServerStops \/ RemoveFiles

Spec == Init /\ [][Next]_vars
-----------------------------------------------------------------------------
\* The type of every variable.
TypeOK ==
    /\ {keyFile, certFile} \subseteq Contents
    /\ made \in 0..MaxPairs
    /\ program = Idle \/ program \in [task : Tasks, at :
          {"openKey", "writeKey", "openCert", "writeCert", "use"}]
    /\ asked = Nothing \/ asked \in [line : Lines, port : 0..PortMax, input : Inputs \cup {NoValue}]
    /\ server \in [key : Contents, cert : Contents]
    /\ signature.input \in Byte /\ signature.text \in Seq(Char)
    /\ verdict \in [input : Byte, is : {"none", "valid", "not valid"}]
    /\ disturbed \in BOOLEAN /\ damaged \in BOOLEAN

\* Whichever step of whichever program failed, was killed or lost its data, a
\* server that opened has the key of its certificate: one whose key was dropped
\* would accept connections and fail every handshake.
ServesItsPair == server # None => server.key = server.cert /\ server.key \in Pairs

\* After a failure that createSelfSignedCert reports, the next program either
\* makes a new pair or finds a good one; it needs no help from the user.
FilesUsable ==
    program = Idle /\ ~damaged => FilesMissing \/ (keyFile = certFile /\ keyFile \in Pairs)

\* "verify" says of the signature printed last that it is valid for its data
\* only, and until the user removes files it says so.
VerdictIsRight ==
    LET same == verdict.input = signature.input IN
    /\ verdict.is = "valid" => same
    /\ verdict.is = "not valid" /\ same /\ signature.text # <<>> => disturbed

\* A program runs on a port that was typed, or on the default one if every port
\* typed is out of range: a number is never cut down to sixteen bits, and one that
\* is refused takes back no earlier one.  (A negative one is typed modulo the
\* width of unsigned long.)
PortAsTyped ==
    program # Idle =>
        LET typed == {asked.line[i][2] : i \in Given(asked.line, "port")} \ {NotANumber}
            meant == {IF n < 0 THEN n + ULongMax + 1 ELSE n : n \in typed} \cap (0..PortMax)
        IN  IF meant = {} THEN asked.port = DefaultPort ELSE asked.port \in meant
=============================================================================
