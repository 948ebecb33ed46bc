----------------------------- MODULE WriteLoop -----------------------------
(* Sending a buffer: Worker::write, Worker::writeTls, Client::write and
   Client::writeTls (example-8 and example-6) share one loop.  The caller's
   size_t length is stored in an int; ::write or SSL_write then takes part of
   what remains, asks to be called again, or fails, while another thread may
   clear enabled.  A call that must be repeated changes nothing. *)
EXTENDS Integers, Sequences

CONSTANTS
    HalfRange,      \* an int ranges over -HalfRange .. HalfRange - 1
    Lengths         \* lengths callers pass

ASSUME WriteAssumption ==
    /\ HalfRange \in Nat \ {0}
    /\ Lengths \subseteq Nat

VARIABLES
    length,         \* the argument; the data are the bytes 0 .. length - 1
    position,
    remaining,
    enabled,        \* of the client or worker
    at,             \* control point of the call
    result,         \* what the call returned
    wire            \* the indices of the bytes the connection took, in order

vars == <<length, position, remaining, enabled, at, result, wire>>

Ints == -HalfRange .. HalfRange - 1

Init ==
    /\ length \in Lengths
    /\ position = 0 /\ remaining = 0
    /\ enabled \in BOOLEAN
    /\ at = "call"
    /\ result = FALSE
    /\ wire = <<>>

\* Mutant of ToInt: the terminating NUL is sent.
ToIntWithNul(n) == ((n + 1 + HalfRange) % (2 * HalfRange)) - HalfRange

\* int remaining = length;
ToInt(n) == ((n + HalfRange) % (2 * HalfRange)) - HalfRange

Bytes(from, count) == [i \in 1..count |-> from + i - 1]

Call ==
    /\ at = "call"
    /\ remaining' = IF length = 0 THEN 0 ELSE ToInt(length)
    /\ at' = "loop"
    /\ UNCHANGED <<length, position, enabled, result, wire>>

\* rc > 0
TakeSome ==
    /\ at = "loop" /\ enabled /\ remaining > 0
    /\ \E rc \in 1..remaining :
          /\ wire' = wire \o Bytes(position, rc)
          /\ remaining' = remaining - rc
          /\ position' = position + rc
    /\ UNCHANGED <<length, enabled, at, result>>

\* Mutant of Answer: stopping early is not taken for a failure.
AnswerStopped == result' = (remaining = 0 \/ ~enabled)

\* return remaining == 0
Answer == result' = (remaining = 0)

\* rc <= 0 and not to be repeated: break
Broken ==
    /\ at = "loop" /\ enabled /\ remaining > 0
    /\ Answer
    /\ at' = "done"
    /\ UNCHANGED <<length, position, remaining, enabled, wire>>

LoopEnds ==
    /\ at = "loop" /\ ~(enabled /\ remaining > 0)
    /\ Answer
    /\ at' = "done"
    /\ UNCHANGED <<length, position, remaining, enabled, wire>>

\* close() of the client or worker in another thread.
Disable ==
    /\ enabled
    /\ enabled' = FALSE
    /\ UNCHANGED <<length, position, remaining, at, result, wire>>

Done == at = "done" /\ UNCHANGED vars

Next == Call \/ TakeSome \/ Broken \/ LoopEnds \/ Disable \/ Done

Spec == Init /\ [][Next]_vars
-----------------------------------------------------------------------------
\* The type of every variable; in particular remaining never leaves int.
TypeOK ==
    /\ length \in Lengths
    /\ position \in Nat
    /\ remaining \in Ints
    /\ enabled \in BOOLEAN
    /\ at \in {"call", "loop", "done"}
    /\ result \in BOOLEAN
    /\ wire \in Seq(Nat)

\* Whatever the length, even one an int cannot hold, the call reads no byte
\* behind the buffer and sends its bytes in order, each once, without a gap.
SendsAPrefix ==
    position <= length /\ wire = Bytes(0, position)

\* The result tells whether everything was sent.
Honest == at = "done" => (result <=> Len(wire) = length)

\* ... when the length fits an int, as that of every message a worker echoes
\* does (at most MAX_BUFFER_SIZE bytes).
HonestIfItFits == length < HalfRange => Honest
=============================================================================
