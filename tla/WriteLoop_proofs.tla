-------------------------- MODULE WriteLoop_proofs --------------------------
(* The write loop for every width of int and every length. *)
EXTENDS WriteLoop, TLAPS

\* What storing a size_t in an int gives: never more than the length, and the
\* length itself when it fits.
LEMMA Narrowing ==
    ASSUME NEW n \in Nat
    PROVE  ToInt(n) \in Ints /\ ToInt(n) <= n /\ (n < HalfRange => ToInt(n) = n)
<1> DEFINE m == 2 * HalfRange
           s == n + HalfRange
<1>1. m \in Nat \ {0} /\ s \in Nat /\ HalfRange \in Nat
  BY WriteAssumption
<1>2. s % m \in 0..m - 1 /\ s % m <= s /\ (s < m => s % m = s)
  <2> HIDE DEF m, s
  <2> QED
    BY <1>1
<1> QED
  BY <1>1, <1>2 DEF ToInt, Ints

\* Appending the next bytes to a prefix of the data gives a longer prefix.
LEMMA Appending ==
    ASSUME NEW p \in Nat, NEW k \in Nat
    PROVE  Bytes(0, p) \o Bytes(p, k) = Bytes(0, p + k)
  BY DEF Bytes

\* Data sent so far are sequences of byte indices of the expected length.
LEMMA BytesTypes ==
    ASSUME NEW p \in Nat, NEW k \in Nat
    PROVE  Bytes(p, k) \in Seq(Nat) /\ Len(Bytes(p, k)) = k
  BY DEF Bytes
-----------------------------------------------------------------------------
(* SendsAPrefix is not inductive: that the next part lies inside the buffer
   needs what is left, which for a length beyond int is less than what is
   missing, and that a finished call tells the truth needs it to be equal. *)
LoopInv ==
    /\ TypeOK
    /\ SendsAPrefix
    /\ at = "call" => position = 0
    /\ at # "call" => position + remaining <= length
    /\ at # "call" /\ length < HalfRange => position + remaining = length
    /\ at = "done" => (result <=> remaining = 0)

\* A loop that starts has its whole length before it.
LEMMA LoopInit == Init => LoopInv
<1>1. HalfRange \in Nat \ {0} /\ Lengths \subseteq Nat
  BY WriteAssumption
<1>2. Bytes(0, 0) = <<>> /\ <<>> \in Seq(Nat)
  BY DEF Bytes
<1>3. 0 \in Ints
  BY <1>1 DEF Ints
<1> SUFFICES ASSUME Init PROVE LoopInv
  OBVIOUS
<1>4. TypeOK
  BY <1>1, <1>2, <1>3 DEF Init, TypeOK
<1>5. SendsAPrefix
  BY <1>1, <1>2 DEF Init, SendsAPrefix
<1> QED
  BY <1>4, <1>5 DEF Init, LoopInv

\* A write of any size keeps position and remaining within the length.
LEMMA LoopStep == LoopInv /\ [Next]_vars => LoopInv'
<1> SUFFICES ASSUME LoopInv, [Next]_vars PROVE LoopInv'
  OBVIOUS
<1> USE DEF LoopInv, TypeOK, SendsAPrefix
<1>1. HalfRange \in Nat \ {0} /\ length \in Nat
  BY WriteAssumption
<1>2. CASE Call
  <2>1. remaining' \in Ints /\ remaining' <= length
        /\ (length < HalfRange => remaining' = length)
    BY <1>1, <1>2, Narrowing DEF Call, Ints
  <2> QED
    BY <1>1, <1>2, <2>1 DEF Call, Ints
<1>3. CASE TakeSome
  <2>1. PICK rc \in 1..remaining :
              /\ wire' = wire \o Bytes(position, rc)
              /\ remaining' = remaining - rc
              /\ position' = position + rc
    BY <1>3 DEF TakeSome
  <2>2. rc \in Nat /\ position \in Nat /\ rc <= remaining
    BY <1>1, <2>1 DEF Ints
  <2>3. wire' = Bytes(0, position')
    BY <2>1, <2>2, Appending
  <2>4. wire' \in Seq(Nat)
    BY <2>1, <2>2, <2>3, BytesTypes
  <2>5. position' \in Nat /\ remaining' \in Ints
        /\ position' + remaining' = position + remaining
    BY <1>1, <2>1, <2>2 DEF Ints
  <2> QED
    BY <1>1, <1>3, <2>1, <2>2, <2>3, <2>4, <2>5 DEF TakeSome, Ints
<1>4. CASE Broken \/ LoopEnds
  BY <1>4 DEF Broken, LoopEnds, Answer
<1>5. CASE Disable
  BY <1>5 DEF Disable
<1>6. CASE Done \/ UNCHANGED vars
  BY <1>6 DEF Done, vars
<1> QED
  BY <1>2, <1>3, <1>4, <1>5, <1>6 DEF Next

\* The invariant of the loop holds in every state.
LEMMA LoopInvariant == Spec => []LoopInv
  BY LoopInit, LoopStep, PTL DEF Spec
-----------------------------------------------------------------------------
\* What is left to write never leaves the range of int.
THEOREM WriteTypes == Spec => []TypeOK
<1>1. LoopInv => TypeOK
  BY DEF LoopInv
<1> QED
  BY <1>1, LoopInvariant, PTL

\* For every length, however large: nothing behind the buffer is read and the
\* connection takes its bytes in order, without gap or repetition.
THEOREM NeverOutsideTheBuffer == Spec => []SendsAPrefix
<1>1. LoopInv => SendsAPrefix
  BY DEF LoopInv
<1> QED
  BY <1>1, LoopInvariant, PTL

\* For every length that fits an int, true means all of it was sent and false
\* means some of it was not.
THEOREM HonestResult == Spec => []HonestIfItFits
<1>1. LoopInv => HonestIfItFits
  <2> SUFFICES ASSUME LoopInv, length < HalfRange, at = "done"
               PROVE  result <=> Len(wire) = length
    BY DEF HonestIfItFits, Honest
  <2>1. /\ length \in Nat /\ position \in Nat /\ remaining \in Int
        /\ position + remaining = length
        /\ (result <=> remaining = 0)
    BY WriteAssumption DEF LoopInv, TypeOK, Ints
  <2>2. Len(wire) = position
    BY <2>1, BytesTypes DEF LoopInv, SendsAPrefix
  <2>3. remaining = 0 <=> position = length
    BY <2>1
  <2> QED
    BY <2>1, <2>2, <2>3
<1> QED
  BY <1>1, LoopInvariant, PTL
=============================================================================
