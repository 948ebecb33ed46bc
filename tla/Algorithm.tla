----------------------------- MODULE Algorithm -----------------------------
(* The tasks of the algorithm program (example-8) that need no key files:
   encoding, decoding what an earlier call printed, which may have been cut
   short on its way, and the SHA-256 of a file, which is opened twice and read in
   chunks while the stream may fail.  The digest itself is OpenSSL's: what
   matters here is the sequence of bytes it is given. *)
EXTENDS Base64

CONSTANTS
    Samples,        \* bytes of the inputs
    MaxLength,      \* of inputs and files
    ChunkSize       \* Algorithm::HashFileBufferSize

ASSUME AlgorithmAssumption ==
    /\ Samples \subseteq Byte
    /\ MaxLength \in 0..IntMax     \* a command line is shorter than that
    /\ ChunkSize \in Nat \ {0}

VARIABLES
    at,             \* where the program or its user is
    url,            \* whether the base64url tasks are used
    input,          \* the input, and content of the file
    text,           \* the encoded string
    result,         \* what decoding yields
    position,       \* read position of the file stream
    opened,         \* whether the stream that is read could be opened
    good,           \* infile.good(): no end of file and no error so far
    hashed          \* what updateSha256 has been given; Failed after an error

vars == <<at, url, input, text, result, position, opened, good, hashed>>

Init ==
    /\ at = "start"
    /\ url \in BOOLEAN
    /\ input \in BoundedSeq(Samples, MaxLength)
    /\ text = <<>> /\ result = <<>>
    /\ position = 0 /\ opened = FALSE /\ good = TRUE
    /\ hashed = <<>>

\* runAlgorithm ignores an empty input.
Encode ==
    /\ at = "start" /\ input # <<>>
    /\ text' = IF url THEN encodeBase64Url(input) ELSE encodeBase64(input)
    /\ at' = "printed"
    /\ UNCHANGED <<url, input, result, position, opened, good, hashed>>

\* The user loses some of the end, but not all of it.
CutShort ==
    /\ at = "printed"
    /\ \E n \in 1..(Len(text) - 1) : text' = SubSeq(text, 1, Len(text) - n)
    /\ at' = "cut"
    /\ UNCHANGED <<url, input, result, position, opened, good, hashed>>

Decode ==
    /\ at \in {"printed", "cut"}
    /\ result' = IF url THEN decodeBase64Url(text) ELSE decodeBase64(text)
    /\ at' = IF at = "cut" THEN "decodedCut" ELSE "decoded"
    /\ UNCHANGED <<url, input, text, position, opened, good, hashed>>
-----------------------------------------------------------------------------
(* calcSha256File *)

FileMissing ==
    /\ at = "start" /\ ~url
    /\ hashed' = Failed
    /\ at' = "hashed"
    /\ UNCHANGED <<url, input, text, result, position, opened, good>>

\* fileExists has opened the file and closed it again; opening it for reading
\* may fail now, which nothing asks about.
OpenFile ==
    /\ at = "start" /\ ~url
    /\ opened' \in BOOLEAN /\ good' = opened'
    /\ at' = "reading"
    /\ UNCHANGED <<url, input, text, result, position, hashed>>

\* Mutant of ReadChunk: the chunk that reaches the end of the file is not hashed.
ReadFullChunk ==
    /\ at = "reading" /\ good
    /\ LET rest == Len(input) - position IN
       /\ good' = (ChunkSize <= rest)
       /\ hashed' = IF good' THEN hashed \o SubSeq(input, position + 1, position + ChunkSize)
                    ELSE hashed
       /\ position' = IF good' THEN position + ChunkSize ELSE Len(input)
    /\ UNCHANGED <<at, url, input, text, result, opened>>

\* A read that finds less than a whole chunk sets end of file.
ReadChunk ==
    /\ at = "reading" /\ good
    /\ LET rest == Len(input) - position
           gcount == IF ChunkSize <= rest THEN ChunkSize ELSE rest
       IN /\ hashed' = hashed \o SubSeq(input, position + 1, position + gcount)
          /\ position' = position + gcount
          /\ good' = (ChunkSize <= rest)
    /\ UNCHANGED <<at, url, input, text, result, opened>>

\* The read breaks off after some bytes, which have been hashed by the time
\* bad() is asked; the call fails.
ReadBreaks ==
    /\ at = "reading" /\ good
    /\ hashed' = Failed /\ good' = FALSE
    /\ at' = "hashed"
    /\ UNCHANGED <<url, input, text, result, position, opened>>

FinalHash ==
    /\ at = "reading" /\ ~good
    /\ at' = "hashed"
    /\ UNCHANGED <<url, input, text, result, position, opened, good, hashed>>

Next ==
    \/ Encode \/ CutShort \/ Decode
    \/ FileMissing \/ OpenFile \/ ReadChunk \/ ReadBreaks \/ FinalHash

Spec == Init /\ [][Next]_vars
-----------------------------------------------------------------------------
\* The type of every variable; text consists of characters of its alphabet, so
\* that a base64url string needs no escaping in a URL.
TypeOK ==
    /\ at \in {"start", "printed", "cut", "decoded", "decodedCut", "reading", "hashed"}
    /\ {url, opened, good} \subseteq BOOLEAN
    /\ {input, result, hashed} \ {Failed} \subseteq Seq(Byte)
    /\ text \in Seq(Char \ IF url THEN {Plus, Slash, Pad} ELSE {Minus, Underscore})
    /\ position \in 0..Len(input)

\* Decoding gives back what was encoded, in both alphabets, whatever the length
\* leaves of the last group; what is too long for the decoder's buffer is refused.
RoundTrip ==
    at = "decoded" => result = IF BufferFits(encodeBase64(input)) THEN input ELSE Failed

\* Of a string that lost its end, the decoders return the beginning of what was
\* encoded, or fail: no byte is made up.  One case is excepted, which the code
\* accepts: a single character left of a base64url group decodes to a last byte
\* that was never encoded (the padding loop of decodeBase64Url adds three '=').
CutGivesPrefix ==
    at = "decodedCut" =>
        \/ result = Failed
        \/ IsPrefix(result, input)
        \/ url /\ Len(text) % 4 = 1 /\ IsPrefix(Front(result), input)

\* A file is hashed completely, each byte once and in order, whether or not its
\* length is a multiple of the chunk, or the call fails.  One case is excepted,
\* in which the call succeeds with the hash of no bytes: the file that
\* fileExists found could not be opened again (calcSha256File).
HashesWholeFile ==
    at = "hashed" => hashed \in {input, Failed} \/ (~opened /\ hashed = <<>>)
=============================================================================
