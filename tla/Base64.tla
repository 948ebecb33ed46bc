------------------------------- MODULE Base64 -------------------------------
(* The codecs of Algorithm.cpp (example-8).  OpenSSL's base64 filter turns three
   bytes into four digits; the code around it adds and removes padding, changes
   alphabets and checks lengths.  Digit and byte size are parameters: a digit
   is three and a byte four of some unit, which is two bits in the program
   (DigitBase = 64 and ByteBase = 256) and one bit in 8 with 16.  A character is
   the number of its digit, or one of the others. *)
EXTENDS Integers, SequencesExt

CONSTANTS
    DigitBase, ByteBase,
    IntMax          \* INT_MAX: OpenSSL takes lengths as int

ASSUME Base64Assumption ==
    /\ DigitBase \in Nat /\ ByteBase \in Nat /\ IntMax \in Nat
    /\ \E unit \in 2..DigitBase : /\ DigitBase = unit * unit * unit
                                  /\ ByteBase = unit * unit * unit * unit

Pad == -1               \* '='
Minus == -2             \* '-', in base64url the digit that '+' is in base64
Underscore == -3        \* '_', which stands for '/'
Plus == DigitBase - 2
Slash == DigitBase - 1

Byte == 0..(ByteBase - 1)
Char == {Pad, Minus, Underscore} \cup 0..(DigitBase - 1)

Failed == <<-1>>        \* the result of a call that returned false

\* The k-th of n <= 4 figures of v in the given base, the first being the highest.
Figure(v, base, n, k) ==
    LET high == v \div base
        shifted == <<v, high, high \div base, (high \div base) \div base>>
    IN shifted[n - k + 1] % base

\* Figures behind the end of s and padding count as 0.
FigureAt(s, p) == IF p > Len(s) \/ s[p] = Pad THEN 0 ELSE s[p]

\* The value of the i-th group of size figures of s.
GroupValue(s, i, size, base) ==
    LET f == size * (i - 1)
        three == (FigureAt(s, f + 1) * base + FigureAt(s, f + 2)) * base + FigureAt(s, f + 3)
    IN IF size = 3 THEN three ELSE three * base + FigureAt(s, f + 4)

Regroup(s, from, fromBase, to, toBase) ==
    [j \in 1..((Len(s) + from - 1) \div from) * to |->
        Figure(GroupValue(s, (j - 1) \div to + 1, from, fromBase),
               toBase, to, ((j - 1) % to) + 1)]

\* BIO_write and BIO_flush: the last group is padded.
BioEncode(bytes) ==
    LET digits == Regroup(bytes, 3, ByteBase, 4, DigitBase)
        padding == (3 - (Len(bytes) % 3)) % 3
    IN [j \in 1..Len(digits) |-> IF j > Len(digits) - padding THEN Pad ELSE digits[j]]

\* BIO_read: a character that is no digit is an error; at most two '=' at the
\* end are taken for padding, any other counts as a zero.
BioDecode(text) ==
    IF \E j \in 1..Len(text) : text[j] \in {Minus, Underscore} THEN Failed
    ELSE LET bytes == Regroup(text, 4, DigitBase, 3, ByteBase)
             padding == IF text[Len(text)] # Pad THEN 0
                        ELSE IF text[Len(text) - 1] # Pad THEN 1 ELSE 2
         IN SubSeq(bytes, 1, Len(bytes) - padding)
-----------------------------------------------------------------------------
\* The length is cast to int without a test: of bytes no longer than IntMax,
\* which the callers' assumptions ensure, that changes nothing.
encodeBase64(bytes) == IF bytes = <<>> THEN <<>> ELSE BioEncode(bytes)

\* The length of the buffer BIO_read is given is an int.
BufferFits(text) == (Len(text) \div 4) * 3 + 1 <= IntMax

\* Mutant of decodeBase64: any length is accepted.
decodeAnyLength(text) ==
    IF text = <<>> \/ ~BufferFits(text) THEN Failed ELSE BioDecode(text)

decodeBase64(text) ==
    IF text = <<>> \/ Len(text) % 4 # 0 \/ ~BufferFits(text) THEN Failed ELSE BioDecode(text)

Replace(s, old, new) == [j \in 1..Len(s) |-> IF s[j] = old THEN new ELSE s[j]]

\* The loop that removes '=' from the end.
WithoutPadding(text) ==
    SubSeq(text, 1, CHOOSE n \in 1..Len(text) :
        text[n] # Pad /\ \A m \in (n + 1)..Len(text) : text[m] = Pad)

\* Of a string that is not empty; of an empty one the code reads the last
\* character, which is undefined.
encodeBase64Url(bytes) ==
    WithoutPadding(Replace(Replace(encodeBase64(bytes), Plus, Minus), Slash, Underscore))

\* Mutant of decodeBase64Url: no padding is added.
decodeUrlUnpadded(text) ==
    decodeBase64(Replace(Replace(text, Minus, Plus), Underscore, Slash))

decodeBase64Url(text) ==
    LET padding == [j \in 1..((4 - (Len(text) % 4)) % 4) |-> Pad]
    IN decodeBase64(Replace(Replace(text, Minus, Plus), Underscore, Slash) \o padding)
=============================================================================
