-------------------------- MODULE Algorithm_proofs --------------------------
(* The codecs for strings of any length and any digit and byte size that
   Base64Assumption allows, and the hash of files and chunks of any size. *)
EXTENDS Algorithm, TLAPS

-----------------------------------------------------------------------------
(* Arithmetic.  The sizes stay opaque: what the codecs need of them is in the
   lemmas PaddedDigits and GroupFits. *)

\* Quotient and remainder of division are determined by their ranges.
LEMMA Division ==
    ASSUME NEW m \in Nat, m > 0, NEW q \in Nat, NEW r \in 0..(m - 1)
    PROVE  (q * m + r) \div m = q /\ (q * m + r) % m = r
<1>1. q * m \in Nat
  OBVIOUS
<1> QED
  BY <1>1, SMTT(30)

\* What division gives.
LEMMA Quotient ==
    ASSUME NEW m \in Nat, m > 0, NEW v \in Nat
    PROVE  /\ v \div m \in Nat /\ v % m \in 0..(m - 1)
           /\ v = (v \div m) * m + (v % m)
  BY SMTT(30)

\* A quotient is below the bound divided by the divisor.
LEMMA QuotientBelow ==
    ASSUME NEW m \in Nat, m > 0, NEW v \in Nat, NEW n \in Nat, v < n * m
    PROVE  v \div m < n
<1> DEFINE q == v \div m
<1>1. q \in Nat /\ v >= q * m
  <2>1. q \in Nat /\ v % m \in Nat /\ v = q * m + (v % m)
    BY Quotient
  <2> HIDE DEF q
  <2> QED
    BY <2>1
<1>2. ASSUME q >= n PROVE FALSE
  <2> HIDE DEF q
  <2>1. PICK d \in Nat : q = n + d
    <3>1. q - n \in Nat /\ q = n + (q - n)
      BY <1>1, <1>2
    <3> QED
      BY <3>1
  <2>2. q * m = n * m + d * m /\ d * m >= 0
    BY <2>1
  <2>3. n * m \in Nat /\ d * m \in Nat
    BY <2>1
  <2> QED
    BY <1>1, <2>2, <2>3
<1> QED
  BY <1>1, <1>2

\* A number below the fourth power of the base is put together again from its
\* four figures.
LEMMA FourFigures ==
    ASSUME NEW base \in Nat, base > 0, NEW v \in Nat,
           v < ((base * base) * base) * base
    PROVE  LET F(k) == Figure(v, base, 4, k)
           IN  /\ \A k \in 1..4 : F(k) \in 0..(base - 1)
               /\ ((F(1) * base + F(2)) * base + F(3)) * base + F(4) = v
<1> DEFINE v1 == v \div base
           v2 == v1 \div base
           v3 == v2 \div base
<1>1. base * base \in Nat /\ (base * base) * base \in Nat
  OBVIOUS
<1>2. v1 \in Nat /\ v % base \in 0..(base - 1) /\ v = v1 * base + (v % base)
  BY Quotient
<1>3. v1 < (base * base) * base
  BY <1>1, QuotientBelow
<1>4. v2 \in Nat /\ v1 % base \in 0..(base - 1) /\ v1 = v2 * base + (v1 % base)
  <2> HIDE DEF v1
  <2> QED
    BY <1>2, Quotient
<1>5. v2 < base * base
  <2> HIDE DEF v1
  <2> QED
    BY <1>1, <1>2, <1>3, QuotientBelow
<1>6. v3 \in Nat /\ v2 % base \in 0..(base - 1) /\ v2 = v3 * base + (v2 % base)
  <2> HIDE DEF v1, v2
  <2> QED
    BY <1>4, Quotient
<1>7. v3 < base
  <2> HIDE DEF v1, v2
  <2> QED
    BY <1>4, <1>5, QuotientBelow
<1>8. v3 % base = v3
  <2> HIDE DEF v3
  <2> QED
    BY <1>6, <1>7
<1>9. /\ Figure(v, base, 4, 1) = v3 /\ Figure(v, base, 4, 2) = v2 % base
      /\ Figure(v, base, 4, 3) = v1 % base /\ Figure(v, base, 4, 4) = v % base
  BY <1>8 DEF Figure
<1> HIDE DEF v1, v2, v3
<1>10. v3 \in 0..(base - 1)
  BY <1>6, <1>7
<1>11. \A k \in 1..4 : Figure(v, base, 4, k) \in 0..(base - 1)
  <2>1. \A k \in 1..4 : k = 1 \/ k = 2 \/ k = 3 \/ k = 4
    OBVIOUS
  <2> QED
    BY <1>2, <1>4, <1>6, <1>9, <1>10, <2>1
<1>12. ((v3 * base + (v2 % base)) * base + (v1 % base)) * base + (v % base) = v
  BY <1>2, <1>4, <1>6, Zenon
<1> QED
  BY <1>9, <1>11, <1>12
-----------------------------------------------------------------------------
(* The sizes of a digit and of a byte. *)

\* Three bytes fill four digits exactly, and one byte is a multiple of a digit.
LEMMA Sizes ==
    /\ DigitBase \in Nat /\ ByteBase \in Nat /\ DigitBase >= 8 /\ ByteBase >= 8
    /\ (ByteBase * ByteBase) * ByteBase = ((DigitBase * DigitBase) * DigitBase) * DigitBase
    /\ \E unit \in Nat : ByteBase = unit * DigitBase
<1>1. PICK unit \in 2..DigitBase : /\ DigitBase = unit * unit * unit
                                   /\ ByteBase = unit * unit * unit * unit
  BY Base64Assumption
<1>2. unit \in Nat /\ unit >= 2 /\ DigitBase \in Nat /\ ByteBase \in Nat
  BY Base64Assumption
<1>3. unit * unit \in Nat /\ unit * unit >= 4
  BY <1>2
<1>4. unit * unit * unit >= 8
  <2> DEFINE square == unit * unit
  <2>1. square \in Nat /\ square >= 4
    BY <1>3
  <2> HIDE DEF square
  <2>2. square * unit >= 8
    BY <1>2, <2>1
  <2> QED
    BY <2>2 DEF square
<1>5. ByteBase = unit * DigitBase /\ ByteBase = DigitBase * unit
  BY <1>1, <1>2
<1>6. ByteBase >= 8
  <2>1. DigitBase >= 8
    BY <1>1, <1>4
  <2> QED
    BY <1>2, <1>5, <2>1
<1>7. (ByteBase * ByteBase) * ByteBase = ((DigitBase * DigitBase) * DigitBase) * DigitBase
  <2>1. (ByteBase * ByteBase) * ByteBase
        = (((DigitBase * DigitBase) * DigitBase) * (unit * unit * unit))
    <3> HIDE <1>1
    <3> QED
      BY <1>2, <1>5
  <2> QED
    BY <1>1, <2>1
<1> QED
  BY <1>1, <1>2, <1>4, <1>5, <1>6, <1>7

\* The value of three bytes has four digits.
LEMMA GroupFits ==
    ASSUME NEW a \in Byte, NEW b \in Byte, NEW c \in Byte
    PROVE  (a * ByteBase + b) * ByteBase + c
           < ((DigitBase * DigitBase) * DigitBase) * DigitBase
<1> DEFINE u == a * ByteBase + b
           squared == ByteBase * ByteBase
<1>1. a \in Nat /\ b \in Nat /\ c \in Nat /\ ByteBase \in Nat
      /\ a + 1 <= ByteBase /\ b < ByteBase /\ c < ByteBase
  BY Sizes DEF Byte
<1>2. u \in Nat /\ squared \in Nat
  BY <1>1
<1>3. u + 1 <= squared
  <2>1. (a + 1) * ByteBase <= squared
    BY <1>1
  <2>2. (a + 1) * ByteBase = a * ByteBase + ByteBase /\ a * ByteBase \in Nat
    BY <1>1
  <2> HIDE DEF squared
  <2> QED
    BY <1>1, <1>2, <2>1, <2>2
<1>4. u * ByteBase + c < squared * ByteBase
  <2> HIDE DEF u, squared
  <2>1. (u + 1) * ByteBase <= squared * ByteBase
    BY <1>1, <1>2, <1>3
  <2>2. (u + 1) * ByteBase = u * ByteBase + ByteBase /\ u * ByteBase \in Nat
        /\ squared * ByteBase \in Nat
    BY <1>1, <1>2
  <2> QED
    BY <1>1, <2>1, <2>2
<1> QED
  BY <1>4, Sizes

\* The three bytes of a number put together from three bytes.
LEMMA FiguresOfThree ==
    ASSUME NEW a \in Byte, NEW b \in Byte, NEW c \in Byte,
           NEW v \in Nat, v = (a * ByteBase + b) * ByteBase + c
    PROVE  /\ Figure(v, ByteBase, 3, 1) = a
           /\ Figure(v, ByteBase, 3, 2) = b
           /\ Figure(v, ByteBase, 3, 3) = c
<1> DEFINE u == a * ByteBase + b
<1>1. /\ ByteBase \in Nat /\ ByteBase > 0 /\ a \in Nat /\ b \in Nat
      /\ a \in 0..(ByteBase - 1) /\ b \in 0..(ByteBase - 1) /\ c \in 0..(ByteBase - 1)
  BY Sizes DEF Byte
<1>2. u \in Nat /\ v = u * ByteBase + c
  BY <1>1
<1>3. v \div ByteBase = u /\ v % ByteBase = c
  <2> HIDE DEF u
  <2> QED
    BY <1>1, <1>2, Division
<1>4. u \div ByteBase = a /\ u % ByteBase = b
  BY <1>1, Division
<1>5. a % ByteBase = a
  BY <1>1
<1> HIDE DEF u
<1> QED
  BY <1>3, <1>4, <1>5 DEF Figure

\* The digits that become padding are zero: the last of two bytes, and the last
\* two of one.
LEMMA PaddedDigits ==
    ASSUME NEW a \in Byte, NEW b \in Byte
    PROVE  LET v == (a * ByteBase + b) * ByteBase
           IN  /\ Figure(v, DigitBase, 4, 4) = 0
               /\ b = 0 => Figure(v, DigitBase, 4, 3) = 0
<1> DEFINE v == (a * ByteBase + b) * ByteBase
<1>1. PICK unit \in Nat : ByteBase = unit * DigitBase
  BY Sizes
<1>2. a \in Nat /\ b \in Nat /\ ByteBase \in Nat /\ DigitBase \in Nat /\ DigitBase > 0
  BY Sizes DEF Byte
<1> DEFINE q == (a * ByteBase + b) * unit
<1>3. q \in Nat /\ v = q * DigitBase + 0 /\ 0 \in 0..(DigitBase - 1)
  BY <1>1, <1>2
<1>4. v \div DigitBase = q /\ v % DigitBase = 0
  <2> HIDE DEF q, v
  <2> QED
    BY <1>2, <1>3, Division
<1>5. ASSUME b = 0 PROVE q % DigitBase = 0
  <2> DEFINE p == a * unit * unit
  <2>1. p \in Nat /\ q = p * DigitBase + 0
    BY <1>1, <1>2, <1>5
  <2> HIDE DEF p, q
  <2> QED
    BY <1>2, <1>3, <2>1, Division
<1> HIDE DEF q, v
<1>6. Figure(v, DigitBase, 4, 4) = 0 /\ (b = 0 => Figure(v, DigitBase, 4, 3) = 0)
  BY <1>4, <1>5 DEF Figure
<1> QED
  BY <1>6 DEF v

\* Without its last digit, or its last two, the value of a group keeps its first
\* two bytes, or its first one.
LEMMA LostDigits ==
    ASSUME NEW a \in Byte, NEW b \in Byte, NEW c \in Byte,
           NEW v \in Nat, v = (a * ByteBase + b) * ByteBase + c
    PROVE  LET last == Figure(v, DigitBase, 4, 4)
               third == Figure(v, DigitBase, 4, 3)
               one == v - last
               two == v - last - third * DigitBase
           IN  /\ one \in Nat
               /\ Figure(one, ByteBase, 3, 1) = a /\ Figure(one, ByteBase, 3, 2) = b
               /\ two \in Nat
               /\ Figure(two, ByteBase, 3, 1) = a
<1>1. PICK unit \in Nat : ByteBase = unit * DigitBase
  BY Sizes
<1>2. /\ a \in Nat /\ b \in Nat /\ c \in Nat /\ c < ByteBase /\ b + 1 <= ByteBase
      /\ ByteBase \in Nat /\ ByteBase > 0 /\ DigitBase \in Nat /\ DigitBase > 0
  BY Sizes DEF Byte
<1> DEFINE qc == c \div DigitBase
           rc == c % DigitBase
           y == b * unit + qc
           qy == y \div DigitBase
           ry == y % DigitBase
           w == a * unit * ByteBase + y
<1>3. qc \in Nat /\ rc \in 0..(DigitBase - 1) /\ c = qc * DigitBase + rc
  BY <1>2, Quotient
<1> HIDE DEF qc, rc
<1>4. y \in Nat
  BY <1>1, <1>2, <1>3
<1>5. qy \in Nat /\ ry \in 0..(DigitBase - 1) /\ y = qy * DigitBase + ry
  <2> HIDE DEF y
  <2> QED
    BY <1>2, <1>4, Quotient
<1> HIDE DEF qy, ry
<1>6. y * DigitBase = b * ByteBase + qc * DigitBase
  <2>1. y * DigitBase = (b * unit) * DigitBase + qc * DigitBase
    BY <1>1, <1>2, <1>3
  <2>2. (b * unit) * DigitBase = b * (unit * DigitBase)
    BY <1>1, <1>2
  <2> QED
    BY <1>1, <2>1, <2>2
<1> HIDE DEF y
<1> DEFINE head == a * ByteBase
<1>7. head \in Nat /\ (a * unit * ByteBase) * DigitBase = head * ByteBase
      /\ a * unit * ByteBase \in Nat
  <2>1. (a * unit * ByteBase) * DigitBase = (a * ByteBase) * (unit * DigitBase)
    BY <1>1, <1>2
  <2> QED
    BY <1>1, <1>2, <2>1
<1>8. w \in Nat /\ v = w * DigitBase + rc
  <2> DEFINE f == a * unit * ByteBase
  <2>1. f \in Nat /\ f * DigitBase = head * ByteBase
    BY <1>7
  <2>2. w = f + y
    OBVIOUS
  <2> HIDE DEF f, w
  <2>3. w * DigitBase = f * DigitBase + y * DigitBase
    BY <1>2, <1>4, <2>1, <2>2
  <2>4. v = head * ByteBase + b * ByteBase + c
    BY <1>2
  <2> HIDE DEF head
  <2> QED
    BY <1>2, <1>3, <1>4, <1>6, <2>1, <2>2, <2>3, <2>4
<1>9. v \div DigitBase = w /\ v % DigitBase = rc
  <2> HIDE DEF w
  <2> QED
    BY <1>2, <1>3, <1>8, Division
<1>10. w % DigitBase = ry
  <2> DEFINE p == a * unit * unit + qy
  <2>1. p \in Nat
    BY <1>1, <1>2, <1>5
  <2>2. w = p * DigitBase + ry
    <3>1. a * unit * ByteBase = (a * unit * unit) * DigitBase
      <4>1. a * unit * ByteBase = a * unit * (unit * DigitBase)
        BY <1>1
      <4> QED
        BY <1>1, <1>2, <4>1
    <3> DEFINE g == a * unit * unit
    <3>2. g \in Nat
      BY <1>1, <1>2
    <3>3. w = g * DigitBase + y
      BY <3>1
    <3>4. p = g + qy
      OBVIOUS
    <3> HIDE DEF g, p, w
    <3> QED
      BY <1>2, <1>5, <3>2, <3>3, <3>4
  <2> HIDE DEF p, w
  <2> QED
    BY <1>2, <1>5, <2>1, <2>2, Division
<1>11. Figure(v, DigitBase, 4, 4) = rc /\ Figure(v, DigitBase, 4, 3) = ry
  <2> HIDE DEF w
  <2> QED
    BY <1>9, <1>10 DEF Figure
<1>12. /\ v - rc \in Nat
       /\ Figure(v - rc, ByteBase, 3, 1) = a /\ Figure(v - rc, ByteBase, 3, 2) = b
  <2> DEFINE e == c - rc
  <2>1. qc * DigitBase \in Nat
    BY <1>2, <1>3
  <2>2. e \in Nat /\ e <= c
    BY <1>2, <1>3, <2>1
  <2>3. e \in Byte
    BY <1>2, <2>2 DEF Byte
  <2> DEFINE u == (a * ByteBase + b) * ByteBase
  <2>4. u \in Nat
    BY <1>2
  <2>5. v - rc = u + e /\ u + e \in Nat
    <3>1. v = u + c
      OBVIOUS
    <3> HIDE DEF u
    <3> QED
      BY <1>2, <1>3, <2>2, <2>4, <3>1
  <2> HIDE DEF e
  <2> QED
    BY <2>3, <2>5, FiguresOfThree
<1> DEFINE z == qy * DigitBase * DigitBase
<1>13. z \in Nat /\ z <= b * ByteBase + c /\ b * ByteBase \in Nat
       /\ y * DigitBase = z + ry * DigitBase /\ ry * DigitBase \in Nat
  <2> DEFINE x == qy * DigitBase
  <2>1. x \in Nat /\ y = x + ry /\ z = x * DigitBase
    BY <1>2, <1>5
  <2> HIDE DEF x, z
  <2>2. y * DigitBase = x * DigitBase + ry * DigitBase /\ ry * DigitBase \in Nat
        /\ x * DigitBase \in Nat
    BY <1>2, <1>5, <2>1
  <2>3. b * ByteBase \in Nat /\ qc * DigitBase \in Nat
    BY <1>2, <1>3
  <2> QED
    BY <1>2, <1>3, <1>6, <2>1, <2>2, <2>3
<1>14. z < ByteBase * ByteBase
  <2>1. (b + 1) * ByteBase <= ByteBase * ByteBase
    BY <1>2
  <2>2. (b + 1) * ByteBase = b * ByteBase + ByteBase /\ ByteBase * ByteBase \in Nat
    BY <1>2
  <2> HIDE DEF z
  <2> QED
    BY <1>2, <1>13, <2>1, <2>2
<1>15. v - rc - ry * DigitBase = head * ByteBase + z /\ head * ByteBase \in Nat
  <2>1. head * ByteBase \in Nat /\ v = head * ByteBase + b * ByteBase + c
    BY <1>2, <1>7
  <2> HIDE DEF head, z
  <2>2. qc * DigitBase \in Nat
    BY <1>2, <1>3
  <2> QED
    BY <1>2, <1>3, <1>6, <1>13, <2>1, <2>2
<1>16. /\ v - rc - ry * DigitBase \in Nat
       /\ Figure(v - rc - ry * DigitBase, ByteBase, 3, 1) = a
  <2> DEFINE b2 == z \div ByteBase
             c2 == z % ByteBase
  <2>1. b2 \in Nat /\ c2 \in 0..(ByteBase - 1) /\ z = b2 * ByteBase + c2
    <3> HIDE DEF z
    <3> QED
      BY <1>2, <1>13, Quotient
  <2>2. b2 < ByteBase
    <3> HIDE DEF z
    <3> QED
      BY <1>2, <1>13, <1>14, QuotientBelow
  <2> HIDE DEF b2, c2, z
  <2>3. b2 \in Byte /\ c2 \in Byte
    BY <1>2, <2>1, <2>2 DEF Byte
  <2>4. head * ByteBase + z = (a * ByteBase + b2) * ByteBase + c2
    <3>1. (head + b2) * ByteBase = head * ByteBase + b2 * ByteBase /\ b2 * ByteBase \in Nat
      BY <1>2, <1>7, <2>1
    <3> HIDE DEF head
    <3>2. head * ByteBase + z = (head + b2) * ByteBase + c2
      BY <1>2, <1>15, <2>1, <3>1
    <3> QED
      BY <3>2 DEF head
  <2>5. head * ByteBase + z \in Nat
    <3> HIDE DEF head
    <3> QED
      BY <1>13, <1>15 DEF z
  <2> QED
    BY <1>15, <2>3, <2>4, <2>5, FiguresOfThree
<1> QED
  BY <1>11, <1>12, <1>16
-----------------------------------------------------------------------------
(* Encoding and decoding, group by group. *)

Digit == 0..(DigitBase - 1)
GroupsOf(s, size) == (Len(s) + size - 1) \div size
PaddingOf(bytes) == (3 - (Len(bytes) % 3)) % 3

\* The characters outside the alphabets are no bytes and no digits.
LEMMA Marks == {Pad, Minus, Underscore} \cap (Byte \cup Digit) = {} /\ 0 \in Byte
               /\ Pad \notin {Minus, Underscore} /\ Char = {Pad, Minus, Underscore} \cup Digit
  BY Sizes DEF Pad, Minus, Underscore, Byte, Digit, Char

\* Where the figure number j lies: in group i at place k.
LEMMA Place ==
    ASSUME NEW size \in {3, 4}, NEW n \in Nat, NEW i \in 1..n, NEW k \in 1..size
    PROVE  LET j == size * (i - 1) + k
           IN  /\ j \in 1..(n * size)
               /\ ((j - 1) \div size) + 1 = i /\ ((j - 1) % size) + 1 = k
<1>1. CASE size = 3
  BY <1>1
<1>2. CASE size = 4
  BY <1>2
<1> QED
  BY <1>1, <1>2

\* ... and every j lies somewhere.
LEMMA PlaceOf ==
    ASSUME NEW size \in {3, 4}, NEW n \in Nat, NEW j \in 1..(n * size)
    PROVE  \E i \in 1..n, k \in 1..size : j = size * (i - 1) + k
<1> DEFINE i == ((j - 1) \div size) + 1
           k == ((j - 1) % size) + 1
<1>1. i \in 1..n /\ k \in 1..size /\ j = size * (i - 1) + k
  <2>1. CASE size = 3
    BY <2>1
  <2>2. CASE size = 4
    BY <2>2
  <2> QED
    BY <2>1, <2>2
<1> QED
  BY <1>1

\* The figures of the i-th group of a regrouped sequence are those of the value
\* of its i-th group.
LEMMA Regrouped ==
    ASSUME NEW s, NEW from, NEW to \in {3, 4}, NEW fromBase, NEW toBase,
           GroupsOf(s, from) \in Nat
    PROVE  LET n == GroupsOf(s, from)
               r == Regroup(s, from, fromBase, to, toBase)
           IN  /\ DOMAIN r = 1..(n * to) /\ Len(r) = n * to
               /\ \A i \in 1..n, k \in 1..to :
                     r[to * (i - 1) + k] = Figure(GroupValue(s, i, from, fromBase), toBase, to, k)
<1> DEFINE n == GroupsOf(s, from)
           r == Regroup(s, from, fromBase, to, toBase)
<1>1. n * to \in Nat
  OBVIOUS
<1>2. r = [j \in 1..(n * to) |->
              Figure(GroupValue(s, ((j - 1) \div to) + 1, from, fromBase),
                     toBase, to, ((j - 1) % to) + 1)]
  BY DEF Regroup, GroupsOf
<1>3. DOMAIN r = 1..(n * to) /\ Len(r) = n * to
  BY <1>1, <1>2
<1>4. ASSUME NEW i \in 1..n, NEW k \in 1..to
      PROVE  r[to * (i - 1) + k] = Figure(GroupValue(s, i, from, fromBase), toBase, to, k)
  <2> DEFINE j == to * (i - 1) + k
  <2>1. j \in 1..(n * to) /\ ((j - 1) \div to) + 1 = i /\ ((j - 1) % to) + 1 = k
    BY Place
  <2> HIDE DEF j, r, n
  <2>2. r[j] = Figure(GroupValue(s, i, from, fromBase), toBase, to, k)
    BY <1>2, <2>1
  <2> QED
    BY <2>2 DEF j
<1> QED
  BY <1>3, <1>4

\* The bytes of a group, zeros standing for those behind the end.
LEMMA ByteAt ==
    ASSUME NEW bytes \in Seq(Byte), NEW p \in Nat, p > 0
    PROVE  /\ FigureAt(bytes, p) \in Byte
           /\ p <= Len(bytes) => FigureAt(bytes, p) = bytes[p]
           /\ p > Len(bytes) => FigureAt(bytes, p) = 0
<1>1. CASE p > Len(bytes)
  BY <1>1, Marks DEF FigureAt
<1>2. CASE p <= Len(bytes)
  <2>1. bytes[p] \in Byte /\ bytes[p] # Pad
    BY <1>2, Marks
  <2> QED
    BY <1>2, <2>1 DEF FigureAt
<1> QED
  BY <1>1, <1>2

\* The value of a group of bytes: it has four digits, gives back its bytes, and
\* the digits that become padding are zero.
LEMMA GroupOfBytes ==
    ASSUME NEW bytes \in Seq(Byte), NEW i \in Nat, i > 0
    PROVE  LET v == GroupValue(bytes, i, 3, ByteBase)
               D(k) == Figure(v, DigitBase, 4, k)
           IN  /\ v \in Nat
               /\ \A k \in 1..4 : D(k) \in Digit
               /\ ((D(1) * DigitBase + D(2)) * DigitBase + D(3)) * DigitBase + D(4) = v
               /\ \A k \in 1..3 : Figure(v, ByteBase, 3, k) = FigureAt(bytes, 3 * (i - 1) + k)
               /\ Len(bytes) < 3 * i => D(4) = 0
               /\ Len(bytes) < 3 * i - 1 => D(3) = 0
<1> DEFINE f == 3 * (i - 1)
           a == FigureAt(bytes, f + 1)
           b == FigureAt(bytes, f + 2)
           c == FigureAt(bytes, f + 3)
           v == GroupValue(bytes, i, 3, ByteBase)
<1>1. v = (a * ByteBase + b) * ByteBase + c
  BY DEF GroupValue
<1>2. a \in Byte /\ b \in Byte /\ c \in Byte
  <2>1. f + 1 \in Nat /\ f + 1 > 0 /\ f + 2 \in Nat /\ f + 2 > 0 /\ f + 3 \in Nat /\ f + 3 > 0
    OBVIOUS
  <2> HIDE DEF f
  <2> QED
    BY <2>1, ByteAt
<1>3. (Len(bytes) < 3 * i => c = 0) /\ (Len(bytes) < 3 * i - 1 => b = 0 /\ c = 0)
  <2>1. f + 3 = 3 * i /\ f + 2 = 3 * i - 1 /\ f + 2 \in Nat /\ f + 3 \in Nat /\ f + 2 > 0
    OBVIOUS
  <2> HIDE DEF f
  <2> QED
    BY <2>1, ByteAt
<1> HIDE DEF a, b, c
<1>4. v \in Nat
  <2>1. a \in Nat /\ b \in Nat /\ c \in Nat /\ ByteBase \in Nat
    BY <1>2, Base64Assumption DEF Byte
  <2> QED
    BY <1>1, <2>1
<1>5. v < ((DigitBase * DigitBase) * DigitBase) * DigitBase
  BY <1>1, <1>2, GroupFits
<1> DEFINE D(k) == Figure(v, DigitBase, 4, k)
<1>6. /\ \A k \in 1..4 : D(k) \in Digit
      /\ ((D(1) * DigitBase + D(2)) * DigitBase + D(3)) * DigitBase + D(4) = v
  <2> HIDE DEF v
  <2> QED
    BY <1>4, <1>5, Sizes, FourFigures DEF Digit
<1>7. Figure(v, ByteBase, 3, 1) = a /\ Figure(v, ByteBase, 3, 2) = b
      /\ Figure(v, ByteBase, 3, 3) = c
  <2> HIDE DEF v
  <2> QED
    BY <1>1, <1>2, <1>4, FiguresOfThree
<1>8. \A k \in 1..3 : Figure(v, ByteBase, 3, k) = FigureAt(bytes, f + k)
  <2>1. \A k \in 1..3 : k = 1 \/ k = 2 \/ k = 3
    OBVIOUS
  <2>2. a = FigureAt(bytes, f + 1) /\ b = FigureAt(bytes, f + 2) /\ c = FigureAt(bytes, f + 3)
    BY DEF a, b, c
  <2> HIDE DEF v, f
  <2> QED
    BY <1>7, <2>1, <2>2
<1>9. c = 0 => D(4) = 0 /\ (b = 0 => D(3) = 0)
  <2> SUFFICES ASSUME c = 0 PROVE D(4) = 0 /\ (b = 0 => D(3) = 0)
    OBVIOUS
  <2>1. v = (a * ByteBase + b) * ByteBase
    BY <1>1, <1>2, Sizes DEF Byte
  <2> HIDE DEF v
  <2> QED
    BY <1>2, <2>1, PaddedDigits
<1>10. (Len(bytes) < 3 * i => D(4) = 0) /\ (Len(bytes) < 3 * i - 1 => D(3) = 0)
  BY <1>3, <1>9, Zenon
<1> QED
  BY <1>4, <1>6, <1>8, <1>10, Zenon

\* The groups of a string of bytes, the last of which lacks what is padded.
LEMMA GroupCount ==
    ASSUME NEW bytes \in Seq(Byte), bytes # <<>>
    PROVE  /\ GroupsOf(bytes, 3) \in Nat /\ GroupsOf(bytes, 3) > 0
           /\ PaddingOf(bytes) \in 0..2
           /\ Len(bytes) = 3 * GroupsOf(bytes, 3) - PaddingOf(bytes)
<1>1. Len(bytes) \in Nat /\ Len(bytes) > 0
  OBVIOUS
<1> QED
  BY <1>1 DEF GroupsOf, PaddingOf

\* What encodeBase64 returns: four digits for each group, the last one padded;
\* read as figures, these are the digits of the value of the group.
LEMMA Encoded ==
    ASSUME NEW bytes \in Seq(Byte), bytes # <<>>
    PROVE  LET coded == encodeBase64(bytes)
               n == GroupsOf(bytes, 3)
           IN  /\ coded \in Seq(Digit \cup {Pad})
               /\ Len(coded) = n * 4
               /\ \A j \in 1..Len(coded) : coded[j] = Pad <=> j > n * 4 - PaddingOf(bytes)
               /\ \A i \in 1..n, k \in 1..4 :
                     FigureAt(coded, 4 * (i - 1) + k)
                     = Figure(GroupValue(bytes, i, 3, ByteBase), DigitBase, 4, k)
<1> DEFINE coded == encodeBase64(bytes)
           n == GroupsOf(bytes, 3)
           p == PaddingOf(bytes)
           digits == Regroup(bytes, 3, ByteBase, 4, DigitBase)
           D(i, k) == Figure(GroupValue(bytes, i, 3, ByteBase), DigitBase, 4, k)
<1>1. n \in Nat /\ n > 0 /\ p \in 0..2 /\ Len(bytes) = 3 * n - p
  BY GroupCount
<1>2. /\ Len(digits) = n * 4
      /\ \A i \in 1..n, k \in 1..4 : digits[4 * (i - 1) + k] = D(i, k)
  BY <1>1, Regrouped
<1>3. coded = [j \in 1..Len(digits) |-> IF j > Len(digits) - p THEN Pad ELSE digits[j]]
  BY DEF encodeBase64, BioEncode, PaddingOf
<1> HIDE DEF coded, n, p, digits
<1>4. \A i \in 1..n, k \in 1..4 : D(i, k) \in Digit /\ D(i, k) # Pad
  <2> SUFFICES ASSUME NEW i \in 1..n, NEW k \in 1..4 PROVE D(i, k) \in Digit /\ D(i, k) # Pad
    OBVIOUS
  <2>1. i \in Nat /\ i > 0
    BY <1>1
  <2>2. D(i, k) \in Digit
    BY <2>1, GroupOfBytes
  <2> QED
    BY <2>2, Marks
<1>5. \A j \in 1..(n * 4) : digits[j] \in Digit /\ digits[j] # Pad
  <2> SUFFICES ASSUME NEW j \in 1..(n * 4) PROVE digits[j] \in Digit /\ digits[j] # Pad
    OBVIOUS
  <2>1. PICK i \in 1..n, k \in 1..4 : j = 4 * (i - 1) + k
    BY <1>1, PlaceOf
  <2> QED
    BY <1>2, <1>4, <2>1
<1>6. n * 4 \in Nat /\ Len(digits) = n * 4
  BY <1>1, <1>2
<1>7. coded = [j \in 1..(n * 4) |-> IF j > n * 4 - p THEN Pad ELSE digits[j]]
  BY <1>3, <1>6
<1>8. \A j \in 1..(n * 4) : coded[j] = IF j > n * 4 - p THEN Pad ELSE digits[j]
  BY <1>7
<1>9. coded \in Seq(Digit \cup {Pad}) /\ Len(coded) = n * 4
  BY <1>5, <1>6, <1>7
<1>10. \A j \in 1..Len(coded) : coded[j] = Pad <=> j > n * 4 - p
  BY <1>5, <1>8, <1>9
<1>11. ASSUME NEW i \in 1..n, NEW k \in 1..4
       PROVE  FigureAt(coded, 4 * (i - 1) + k) = D(i, k)
  <2> DEFINE j == 4 * (i - 1) + k
  <2>1. j \in 1..(n * 4)
    BY <1>1, Place
  <2>2. digits[j] = D(i, k)
    BY <1>2
  <2>3. CASE j > n * 4 - p
    <3>1. coded[j] = Pad
      BY <1>8, <2>1, <2>3
    <3>2. i \in Nat /\ i > 0 /\ i = n /\ k > 4 - p
      BY <1>1, <2>3
    <3>3. k = 4 \/ (k = 3 /\ p = 2)
      BY <1>1, <3>2
    <3>4. Len(bytes) < 3 * i /\ (p = 2 => Len(bytes) < 3 * i - 1)
      BY <1>1, <3>2
    <3>5. D(i, k) = 0
      <4>1. D(i, 4) = 0 /\ (p = 2 => D(i, 3) = 0)
        BY <3>2, <3>4, GroupOfBytes
      <4> HIDE DEF D
      <4> QED
        BY <3>3, <4>1
    <3> HIDE DEF j, D
    <3>6. FigureAt(coded, j) = 0
      BY <3>1 DEF FigureAt
    <3> QED
      BY <3>5, <3>6 DEF j
  <2>4. CASE j <= n * 4 - p
    <3> HIDE DEF j
    <3>1. coded[j] = D(i, k) /\ coded[j] # Pad
      <4>1. coded[j] = digits[j] /\ digits[j] # Pad
        BY <1>1, <1>5, <1>8, <2>1, <2>4
      <4> QED
        BY <2>2, <4>1
    <3>2. FigureAt(coded, j) = D(i, k)
      BY <1>9, <2>1, <3>1 DEF FigureAt
    <3> QED
      BY <3>2 DEF j
  <2> QED
    BY <1>1, <2>3, <2>4
<1> QED
  BY <1>9, <1>10, <1>11 DEF coded, n, p

\* The value of a group of four figures, spelt out.
LEMMA ValueOfFour ==
    ASSUME NEW s, NEW i
    PROVE  LET F(k) == FigureAt(s, 4 * (i - 1) + k)
           IN  GroupValue(s, i, 4, DigitBase)
               = ((F(1) * DigitBase + F(2)) * DigitBase + F(3)) * DigitBase + F(4)
  BY DEF GroupValue

\* decodeBase64 gives back what encodeBase64 was given, whatever the length leaves
\* of the last group, if its buffer is not too long.
LEMMA DecodesEncoded ==
    ASSUME NEW bytes \in Seq(Byte), bytes # <<>>, BufferFits(encodeBase64(bytes))
    PROVE  decodeBase64(encodeBase64(bytes)) = bytes
<1> DEFINE coded == encodeBase64(bytes)
           n == GroupsOf(bytes, 3)
           p == PaddingOf(bytes)
           V(i) == GroupValue(bytes, i, 3, ByteBase)
           decoded == Regroup(coded, 4, DigitBase, 3, ByteBase)
           padding == IF coded[Len(coded)] # Pad THEN 0
                      ELSE IF coded[Len(coded) - 1] # Pad THEN 1 ELSE 2
<1>1. n \in Nat /\ n > 0 /\ p \in 0..2 /\ Len(bytes) = 3 * n - p
  BY GroupCount
<1>2. coded \in Seq(Digit \cup {Pad}) /\ Len(coded) = n * 4
  BY Encoded
<1>3. \A j \in 1..Len(coded) : coded[j] = Pad <=> j > n * 4 - p
  BY Encoded
<1>4. \A i \in 1..n, k \in 1..4 :
         FigureAt(coded, 4 * (i - 1) + k) = Figure(V(i), DigitBase, 4, k)
  BY Encoded
<1> HIDE DEF coded, n, p
<1>5. GroupsOf(coded, 4) = n
  BY <1>1, <1>2 DEF GroupsOf
<1>6. \A i \in 1..n : GroupValue(coded, i, 4, DigitBase) = V(i)
  <2> SUFFICES ASSUME NEW i \in 1..n PROVE GroupValue(coded, i, 4, DigitBase) = V(i)
    OBVIOUS
  <2> DEFINE F(k) == FigureAt(coded, 4 * (i - 1) + k)
             D(k) == Figure(V(i), DigitBase, 4, k)
  <2>1. F(1) = D(1) /\ F(2) = D(2) /\ F(3) = D(3) /\ F(4) = D(4)
    BY <1>4
  <2>2. ((D(1) * DigitBase + D(2)) * DigitBase + D(3)) * DigitBase + D(4) = V(i)
    <3>1. i \in Nat /\ i > 0
      BY <1>1
    <3> QED
      BY <3>1, GroupOfBytes
  <2>3. GroupValue(coded, i, 4, DigitBase)
        = ((F(1) * DigitBase + F(2)) * DigitBase + F(3)) * DigitBase + F(4)
    BY ValueOfFour
  <2> HIDE DEF F, D, V
  <2> QED
    BY <2>1, <2>2, <2>3
<1>7. Len(decoded) = n * 3 /\ DOMAIN decoded = 1..(n * 3)
  BY <1>1, <1>5, Regrouped
<1>8. \A j \in 1..(n * 3) : decoded[j] = FigureAt(bytes, j)
  <2> SUFFICES ASSUME NEW j \in 1..(n * 3) PROVE decoded[j] = FigureAt(bytes, j)
    OBVIOUS
  <2>1. PICK i \in 1..n, k \in 1..3 : j = 3 * (i - 1) + k
    BY <1>1, PlaceOf
  <2>2. decoded[3 * (i - 1) + k]
        = Figure(GroupValue(coded, i, 4, DigitBase), ByteBase, 3, k)
    BY <1>1, <1>5, Regrouped
  <2>3. Figure(V(i), ByteBase, 3, k) = FigureAt(bytes, 3 * (i - 1) + k)
    <3>1. i \in Nat /\ i > 0
      BY <1>1
    <3> QED
      BY <3>1, GroupOfBytes
  <2> HIDE DEF V, decoded
  <2> QED
    BY <1>6, <2>1, <2>2, <2>3
<1>9. padding = p
  <2>1. Len(coded) \in 1..Len(coded) /\ Len(coded) - 1 \in 1..Len(coded) /\ Len(coded) = n * 4
    BY <1>1, <1>2
  <2>2. (coded[Len(coded)] = Pad <=> p > 0) /\ (coded[Len(coded) - 1] = Pad <=> p > 1)
    BY <1>1, <1>3, <2>1
  <2> QED
    BY <1>1, <2>2
<1>10. decodeBase64(coded) = SubSeq(decoded, 1, Len(decoded) - padding)
  <2>1. coded # <<>> /\ Len(coded) % 4 = 0
    BY <1>1, <1>2
  <2>2. \A j \in 1..Len(coded) : coded[j] \notin {Minus, Underscore}
    BY <1>2, Marks
  <2>3. BufferFits(coded)
    BY DEF coded
  <2> QED
    BY <2>1, <2>2, <2>3 DEF decodeBase64, BioDecode
<1>11. SubSeq(decoded, 1, 3 * n - p) = bytes
  <2>1. 3 * n - p \in Nat /\ 3 * n - p <= n * 3 /\ 3 * n - p = Len(bytes)
    BY <1>1
  <2>2. \A j \in 1..(3 * n - p) : decoded[j] = bytes[j]
    BY <1>1, <1>8, <2>1, ByteAt
  <2> HIDE DEF decoded
  <2> DEFINE m == 3 * n - p
  <2>3. m \in Nat /\ m = Len(bytes) /\ \A j \in 1..m : decoded[j] = bytes[j]
    BY <2>1, <2>2
  <2> HIDE DEF m
  <2>4. SubSeq(decoded, 1, m) = [j \in 1..m |-> decoded[j]]
    BY <2>3
  <2>5. bytes = [j \in 1..m |-> bytes[j]]
    BY <2>3
  <2>6. SubSeq(decoded, 1, m) = bytes
    BY <2>3, <2>4, <2>5
  <2> QED
    BY <2>6 DEF m
<1>12. Len(decoded) - padding = 3 * n - p
  BY <1>1, <1>7, <1>9
<1> QED
  BY <1>10, <1>11, <1>12 DEF coded

\* A sequence that agrees with another as far as it goes is a prefix of it.
LEMMA Agrees ==
    ASSUME NEW S, NEW s \in Seq(S), NEW R, NEW r \in Seq(R), NEW m \in Nat,
           m <= Len(s), m <= Len(r), \A j \in 1..m : r[j] = s[j]
    PROVE  IsPrefix(SubSeq(r, 1, m), s)
<1>1. SubSeq(r, 1, m) = [j \in 1..m |-> r[j]] /\ Len(SubSeq(r, 1, m)) = m
  OBVIOUS
<1>2. SubSeq(s, 1, m) = [j \in 1..m |-> s[j]]
  OBVIOUS
<1> DEFINE p == SubSeq(r, 1, m)
<1>3. SubSeq(p, 1, m) = [j \in 1..m |-> p[j]]
  <2>1. p \in Seq(R) /\ Len(p) = m
    OBVIOUS
  <2> HIDE DEF p
  <2> QED
    BY <2>1
<1>4. \A j \in 1..m : p[j] = s[j]
  BY <1>1
<1> HIDE DEF p
<1>5. SubSeq(p, 1, m) = SubSeq(s, 1, m)
  BY <1>2, <1>3, <1>4
<1> QED
  BY <1>1, <1>5 DEF IsPrefix, p

\* The digits of an encoding up to the c-th, followed by what padding completes
\* the last group: decodeBase64 returns the bytes they are the digits of.
LEMMA DecodesBeginning ==
    ASSUME NEW bytes \in Seq(Byte), bytes # <<>>,
           NEW c \in 1..(GroupsOf(bytes, 3) * 4 - PaddingOf(bytes)),
           NEW g \in Nat, c <= 4 * g, 4 * g < c + 4,
           NEW T \in Seq(Digit \cup {Pad}), Len(T) = 4 * g,
           \A j \in 1..(4 * g) : T[j] = IF j <= c THEN encodeBase64(bytes)[j] ELSE Pad
    PROVE  LET answer == decodeBase64(T)
           IN  \/ answer = Failed
               \/ IsPrefix(answer, bytes)
               \/ c % 4 = 1 /\ IsPrefix(Front(answer), bytes)
<1> DEFINE coded == encodeBase64(bytes)
           n == GroupsOf(bytes, 3)
           p == PaddingOf(bytes)
           lost == 4 * g - c
           V(i) == GroupValue(bytes, i, 3, ByteBase)
           D(i, k) == Figure(V(i), DigitBase, 4, k)
           decoded == Regroup(T, 4, DigitBase, 3, ByteBase)
           padding == IF T[Len(T)] # Pad THEN 0 ELSE IF T[Len(T) - 1] # Pad THEN 1 ELSE 2
<1>1. n \in Nat /\ n > 0 /\ p \in 0..2 /\ Len(bytes) = 3 * n - p
  BY GroupCount
<1>2. /\ coded \in Seq(Digit \cup {Pad}) /\ Len(coded) = n * 4
      /\ \A j \in 1..Len(coded) : coded[j] = Pad <=> j > n * 4 - p
      /\ \A i \in 1..n, k \in 1..4 : FigureAt(coded, 4 * (i - 1) + k) = D(i, k)
  BY Encoded
<1>3. c \in 1..(n * 4 - p) /\ \A j \in 1..(4 * g) : T[j] = IF j <= c THEN coded[j] ELSE Pad
  OBVIOUS
<1> HIDE DEF coded, n, p, V
<1>4. /\ lost \in 0..3 /\ g > 0 /\ g <= n /\ c \in Nat
      /\ \A j \in 1..c : j \in 1..Len(coded) /\ j \in 1..(4 * g) /\ coded[j] # Pad
  <2>1. c \in Nat /\ c >= 1 /\ c <= n * 4 - p
    BY <1>1, <1>3
  <2>2. lost \in 0..3 /\ g > 0 /\ g <= n
    BY <1>1, <2>1
  <2>3. \A j \in 1..c : j \in 1..Len(coded) /\ j \in 1..(4 * g) /\ ~(j > n * 4 - p)
    <3>1. c <= n * 4 /\ n * 4 - p \in Int
      BY <1>1, <2>1
    <3> QED
      BY <1>2, <2>1, <3>1
  <2> QED
    BY <1>2, <2>1, <2>2, <2>3
<1>5. \A j \in 1..(4 * g) : T[j] = Pad <=> j > c
  BY <1>3, <1>4
<1>6. /\ \A j \in 1..c : FigureAt(T, j) = FigureAt(coded, j)
      /\ \A j \in 1..(4 * g) : j > c => FigureAt(T, j) = 0
  BY <1>3, <1>4, <1>5 DEF FigureAt
<1>7. ASSUME NEW i \in 1..g, NEW k \in 1..4
      PROVE  FigureAt(T, 4 * (i - 1) + k) = IF 4 * (i - 1) + k <= c THEN D(i, k) ELSE 0
  <2> DEFINE j == 4 * (i - 1) + k
  <2>1. j \in 1..(4 * g) /\ i \in 1..n
    BY <1>1, <1>4
  <2>2. FigureAt(coded, j) = D(i, k)
    BY <1>2, <2>1
  <2>3. FigureAt(T, j) = IF j <= c THEN FigureAt(coded, j) ELSE 0
    <3> HIDE DEF j
    <3> QED
      BY <1>4, <1>6, <2>1
  <2> HIDE DEF D
  <2> QED
    BY <2>2, <2>3
<1>8. \A i \in 1..g : /\ i \in Nat /\ i > 0 /\ V(i) \in Nat
                      /\ \A k \in 1..4 : D(i, k) \in Digit
                      /\ ((D(i, 1) * DigitBase + D(i, 2)) * DigitBase + D(i, 3)) * DigitBase
                         + D(i, 4) = V(i)
  <2> SUFFICES ASSUME NEW i \in 1..g
               PROVE  /\ i \in Nat /\ i > 0 /\ V(i) \in Nat
                      /\ \A k \in 1..4 : D(i, k) \in Digit
                      /\ ((D(i, 1) * DigitBase + D(i, 2)) * DigitBase + D(i, 3)) * DigitBase
                         + D(i, 4) = V(i)
    OBVIOUS
  <2>1. i \in Nat /\ i > 0
    OBVIOUS
  <2> QED
    BY <2>1, GroupOfBytes DEF V
<1>9. ASSUME NEW i \in 1..g
      PROVE  GroupValue(T, i, 4, DigitBase)
             = IF i < g \/ lost = 0 THEN V(i)
               ELSE IF lost = 1 THEN V(i) - D(i, 4)
               ELSE IF lost = 2 THEN V(i) - D(i, 4) - D(i, 3) * DigitBase
               ELSE GroupValue(T, i, 4, DigitBase)
  <2> DEFINE F(k) == FigureAt(T, 4 * (i - 1) + k)
  <2>1. GroupValue(T, i, 4, DigitBase)
        = ((F(1) * DigitBase + F(2)) * DigitBase + F(3)) * DigitBase + F(4)
    BY ValueOfFour
  <2>2. \A k \in 1..4 : F(k) = IF 4 * (i - 1) + k <= c THEN D(i, k) ELSE 0
    <3> HIDE DEF D
    <3> QED
      BY <1>7
  <2>3. /\ F(1) = D(i, 1)
        /\ lost <= 2 => F(2) = D(i, 2)
        /\ F(3) = IF i < g \/ lost <= 1 THEN D(i, 3) ELSE 0
        /\ F(4) = IF i < g \/ lost = 0 THEN D(i, 4) ELSE 0
    BY <1>4, <2>2
  <2>4. i < g => F(2) = D(i, 2)
    BY <1>4, <2>2
  <2> DEFINE head == (D(i, 1) * DigitBase + D(i, 2)) * DigitBase
  <2>5. /\ DigitBase \in Nat /\ D(i, 3) \in Nat /\ D(i, 4) \in Nat /\ head \in Nat
        /\ (head + D(i, 3)) * DigitBase + D(i, 4) = V(i)
    <3>1. D(i, 1) \in Nat /\ D(i, 2) \in Nat /\ D(i, 3) \in Nat /\ D(i, 4) \in Nat
          /\ DigitBase \in Nat
      <4>1. 1 \in 1..4 /\ 2 \in 1..4 /\ 3 \in 1..4 /\ 4 \in 1..4
        OBVIOUS
      <4> HIDE DEF D
      <4> QED
        BY <1>8, <4>1, Sizes DEF Digit
    <3>2. head \in Nat
      <4>1. \A x, y, z \in Nat : (x * z + y) * z \in Nat
        OBVIOUS
      <4> HIDE DEF D
      <4> QED
        BY <3>1, <4>1, Zenon
    <3>3. ((D(i, 1) * DigitBase + D(i, 2)) * DigitBase + D(i, 3)) * DigitBase + D(i, 4) = V(i)
      <4> HIDE DEF D, head
      <4> QED
        BY <1>8, Zenon
    <3> QED
      BY <3>1, <3>2, <3>3, Zenon
  <2> HIDE DEF F, D
  <2>6. CASE i < g \/ lost = 0
    BY <1>4, <2>1, <2>3, <2>4, <2>5, <2>6
  <2>7. CASE ~(i < g) /\ lost = 1
    <3>1. GroupValue(T, i, 4, DigitBase) = (head + D(i, 3)) * DigitBase + 0
      BY <2>1, <2>3, <2>7
    <3> HIDE DEF head
    <3> QED
      BY <2>5, <2>7, <3>1
  <2>8. CASE ~(i < g) /\ lost = 2
    <3>1. GroupValue(T, i, 4, DigitBase) = (head + 0) * DigitBase + 0
      BY <2>1, <2>3, <2>8
    <3> HIDE DEF head
    <3>2. (head + D(i, 3)) * DigitBase = head * DigitBase + D(i, 3) * DigitBase
          /\ head * DigitBase \in Nat /\ D(i, 3) * DigitBase \in Nat
      BY <2>5
    <3> QED
      BY <2>5, <2>8, <3>1, <3>2
  <2> QED
    BY <1>4, <2>6, <2>7, <2>8
<1>10. /\ GroupsOf(T, 4) = g /\ Len(decoded) = g * 3 /\ DOMAIN decoded = 1..(g * 3)
       /\ \A i \in 1..g, k \in 1..3 :
             decoded[3 * (i - 1) + k] = Figure(GroupValue(T, i, 4, DigitBase), ByteBase, 3, k)
  <2>1. GroupsOf(T, 4) = g
    BY <1>4 DEF GroupsOf
  <2> QED
    BY <1>4, <2>1, Regrouped
<1> DEFINE kept == g * 3 - lost
<1>11. ASSUME NEW j \in 1..kept PROVE decoded[j] = FigureAt(bytes, j)
  <2>1. j \in 1..(g * 3)
    BY <1>4
  <2>2. PICK i \in 1..g, k \in 1..3 : j = 3 * (i - 1) + k
    BY <2>1, PlaceOf
  <2>3. decoded[j] = Figure(GroupValue(T, i, 4, DigitBase), ByteBase, 3, k)
    BY <1>10, <2>2
  <2>4. Figure(V(i), ByteBase, 3, k) = FigureAt(bytes, j)
    BY <1>8, <2>2, GroupOfBytes DEF V
  <2> HIDE DEF decoded
  <2>5. CASE i < g \/ lost = 0
    <3>1. GroupValue(T, i, 4, DigitBase) = V(i)
      BY <1>9, <2>5
    <3> QED
      BY <2>3, <2>4, <3>1
  <2>6. CASE ~(i < g \/ lost = 0)
    <3>1. i = g /\ ((lost = 1 /\ k \in {1, 2}) \/ (lost = 2 /\ k = 1))
      <4> HIDE DEF lost
      <4>1. i = g /\ lost \in 1..3
        BY <1>4, <2>2, <2>6
      <4>2. k \in 1..3 /\ k <= 3 - lost
        BY <1>4, <2>2, <4>1
      <4> QED
        BY <4>1, <4>2
    <3> DEFINE f == 3 * (i - 1)
               x == FigureAt(bytes, f + 1)
               y == FigureAt(bytes, f + 2)
               z == FigureAt(bytes, f + 3)
    <3>2. V(i) = (x * ByteBase + y) * ByteBase + z
      BY DEF GroupValue, V
    <3>3. x \in Byte /\ y \in Byte /\ z \in Byte
      <4>1. /\ f + 1 \in Nat /\ f + 1 > 0 /\ f + 2 \in Nat /\ f + 2 > 0
            /\ f + 3 \in Nat /\ f + 3 > 0
        OBVIOUS
      <4> HIDE DEF f
      <4> QED
        BY <4>1, ByteAt
    <3>4. V(i) \in Nat
      BY <1>8
    <3> HIDE DEF x, y, z, lost
    <3>5. /\ Figure(V(i) - D(i, 4), ByteBase, 3, 1) = x
          /\ Figure(V(i) - D(i, 4), ByteBase, 3, 2) = y
          /\ Figure(V(i) - D(i, 4) - D(i, 3) * DigitBase, ByteBase, 3, 1) = x
      BY <3>2, <3>3, <3>4, LostDigits
    <3>6. CASE lost = 1
      <4>1. GroupValue(T, i, 4, DigitBase) = V(i) - D(i, 4)
        BY <1>9, <3>1, <3>6
      <4>2. j = f + k
        BY <2>2
      <4> HIDE DEF f, D
      <4> QED
        BY <2>3, <3>1, <3>5, <3>6, <4>1, <4>2 DEF x, y
    <3>7. CASE lost = 2
      <4>1. GroupValue(T, i, 4, DigitBase) = V(i) - D(i, 4) - D(i, 3) * DigitBase
        BY <1>9, <3>1, <3>7
      <4>2. j = f + k
        BY <2>2
      <4> HIDE DEF f, D
      <4> QED
        BY <2>3, <3>1, <3>5, <3>7, <4>1, <4>2 DEF x
    <3> QED
      BY <3>1, <3>6, <3>7
  <2> QED
    BY <2>5, <2>6
<1>12. kept \in Nat /\ kept <= Len(bytes) /\ kept <= Len(decoded)
  <2>1. kept \in Nat /\ kept <= g * 3
    BY <1>4
  <2>2. kept <= 3 * n - p
    <3>1. c <= n * 4 - p /\ c = 4 * g - lost /\ c \in Nat
      BY <1>1, <1>3
    <3> HIDE DEF lost
    <3>2. CASE g = n
      BY <1>1, <1>4, <3>1, <3>2
    <3>3. CASE g < n
      BY <1>1, <1>4, <3>3
    <3> QED
      BY <1>1, <1>4, <3>2, <3>3
  <2> QED
    BY <1>1, <1>10, <2>1, <2>2
<1>13. \A j \in 1..kept : decoded[j] = bytes[j]
  <2> SUFFICES ASSUME NEW j \in 1..kept PROVE decoded[j] = bytes[j]
    OBVIOUS
  <2>1. j \in Nat /\ j > 0 /\ j <= Len(bytes)
    BY <1>12
  <2> HIDE DEF kept, decoded
  <2> QED
    BY <1>11, <2>1, ByteAt
<1>14. padding = IF lost = 3 THEN 2 ELSE lost
  <2>1. /\ Len(T) \in 1..(4 * g) /\ Len(T) - 1 \in 1..(4 * g)
        /\ Len(T) > c <=> lost > 0
        /\ Len(T) - 1 > c <=> lost > 1
    BY <1>4
  <2>2. (T[Len(T)] = Pad <=> lost > 0) /\ (T[Len(T) - 1] = Pad <=> lost > 1)
    BY <1>5, <2>1
  <2> HIDE DEF lost
  <2> QED
    BY <1>4, <2>2
<1>15. decodeBase64(T) \in {Failed, SubSeq(decoded, 1, Len(decoded) - padding)}
  <2>1. \A j \in 1..Len(T) : T[j] \notin {Minus, Underscore}
    BY Marks
  <2> QED
    BY <2>1 DEF decodeBase64, BioDecode
<1> DEFINE R == {decoded[j] : j \in 1..(g * 3)}
<1>16. decoded \in Seq(R)
  <2>1. \A j \in 1..(g * 3) : decoded[j] \in R
    OBVIOUS
  <2>2. decoded = [j \in 1..(g * 3) |-> decoded[j]]
    BY <1>4, <1>10 DEF Regroup, GroupsOf
  <2> DEFINE m == g * 3
  <2>3. m \in Nat /\ decoded = [j \in 1..m |-> decoded[j]] /\ \A j \in 1..m : decoded[j] \in R
    BY <2>1, <2>2
  <2> HIDE DEF decoded, R, m
  <2>4. [j \in 1..m |-> decoded[j]] \in Seq(R)
    BY <2>3
  <2> QED
    BY <2>3, <2>4, Zenon
<1>17. IsPrefix(SubSeq(decoded, 1, kept), bytes)
  <2> HIDE DEF decoded, kept, R
  <2> QED
    BY <1>12, <1>13, <1>16, Agrees
<1>18. CASE lost < 3
  <2>1. Len(decoded) - padding = kept
    <3>1. Len(decoded) = g * 3 /\ padding = lost
      BY <1>4, <1>10, <1>14, <1>18
    <3> HIDE DEF decoded, padding, lost
    <3> QED
      BY <3>1
  <2> HIDE DEF decoded, padding, kept
  <2> QED
    BY <1>15, <1>17, <2>1
<1>19. CASE lost = 3
  <2>1. Len(decoded) - padding = kept + 1 /\ kept + 1 <= Len(decoded)
    <3>1. Len(decoded) = g * 3 /\ padding = 2
      BY <1>10, <1>14, <1>19
    <3>2. kept = g * 3 - 3
      BY <1>19
    <3> HIDE DEF decoded, padding, kept
    <3> QED
      BY <3>1, <3>2
  <2>2. c % 4 = 1
    <3>1. g - 1 \in Nat /\ c = (g - 1) * 4 + 1 /\ 1 \in 0..(4 - 1)
      BY <1>4, <1>19
    <3> QED
      BY <3>1, Division
  <2> HIDE DEF decoded, padding, kept, R
  <2> DEFINE answer == SubSeq(decoded, 1, kept + 1)
  <2>3. Front(answer) = SubSeq(decoded, 1, kept)
    <3>1. answer = [j \in 1..(kept + 1) |-> decoded[j]] /\ Len(answer) = kept + 1
          /\ answer \in Seq(R)
      BY <1>12, <1>16, <2>1
    <3>2. SubSeq(decoded, 1, kept) = [j \in 1..kept |-> decoded[j]]
      BY <1>12, <1>16
    <3>3. SubSeq(answer, 1, kept) = [j \in 1..kept |-> answer[j]]
      <4> HIDE DEF answer
      <4> QED
        BY <1>12, <3>1
    <3>4. \A j \in 1..kept : answer[j] = decoded[j]
      BY <1>12, <3>1
    <3> HIDE DEF answer
    <3>5. Len(answer) - 1 = kept
      BY <1>12, <3>1
    <3> QED
      BY <3>2, <3>3, <3>4, <3>5 DEF Front
  <2> QED
    BY <1>15, <1>17, <2>1, <2>2, <2>3
<1> QED
  BY <1>4, <1>18, <1>19
-----------------------------------------------------------------------------
(* The other alphabet. *)

UrlDigit == (Digit \ {Plus, Slash}) \cup {Minus, Underscore}

\* The two alphabets differ in two characters, and neither contains the padding.
LEMMA Alphabets ==
    /\ Plus \in Digit /\ Slash \in Digit /\ Plus # Slash
    /\ {Plus, Slash} \cap {Pad, Minus, Underscore} = {}
    /\ Minus # Underscore /\ Pad \notin Digit /\ Pad \notin UrlDigit
    /\ UrlDigit = Char \ {Plus, Slash, Pad}
    /\ Digit \cup {Pad} = Char \ {Minus, Underscore}
  BY Sizes DEF Plus, Slash, Digit, Pad, Minus, Underscore, UrlDigit, Char

\* Replacing two characters one after the other touches no others and no length.
LEMMA ReplacedTwice ==
    ASSUME NEW S, NEW s \in Seq(S), NEW a, NEW b, NEW c, NEW d, b # c
    PROVE  LET r == Replace(Replace(s, a, b), c, d)
           IN  /\ r \in Seq(S \cup {b, d}) /\ Len(r) = Len(s)
               /\ \A j \in 1..Len(s) :
                     r[j] = IF s[j] = a THEN b ELSE IF s[j] = c THEN d ELSE s[j]
<1> DEFINE q == Replace(s, a, b)
           r == Replace(q, c, d)
<1>1. q = [j \in 1..Len(s) |-> IF s[j] = a THEN b ELSE s[j]] /\ Len(s) \in Nat
  BY DEF Replace
<1>2. r = [j \in 1..Len(q) |-> IF q[j] = c THEN d ELSE q[j]]
  BY DEF Replace
<1> HIDE DEF q, r
<1>3. Len(q) = Len(s)
  BY <1>1
<1>4. Len(r) = Len(s) /\ DOMAIN r = 1..Len(s)
  BY <1>1, <1>2, <1>3
<1>5. \A j \in 1..Len(s) : r[j] = IF s[j] = a THEN b ELSE IF s[j] = c THEN d ELSE s[j]
  BY <1>1, <1>2, <1>3
<1>6. \A j \in 1..Len(s) : r[j] \in S \cup {b, d}
  BY <1>5
<1>7. r \in Seq(S \cup {b, d})
  BY <1>1, <1>2, <1>3, <1>6
<1> QED
  BY <1>4, <1>5, <1>7 DEF q, r

\* The loop of encodeBase64Url stops behind the last character that is no '='.
LEMMA PaddingRemoved ==
    ASSUME NEW S, NEW s \in Seq(S), NEW m \in 1..Len(s), s[m] # Pad,
           \A j \in (m + 1)..Len(s) : s[j] = Pad
    PROVE  WithoutPadding(s) = [j \in 1..m |-> s[j]]
<1> DEFINE Stops(n) == s[n] # Pad /\ \A j \in (n + 1)..Len(s) : s[j] = Pad
           stop == CHOOSE n \in 1..Len(s) : Stops(n)
<1>1. stop \in 1..Len(s) /\ Stops(stop)
  <2>1. \E n \in 1..Len(s) : Stops(n)
    OBVIOUS
  <2> QED
    BY <2>1
<1>2. stop = m
  <2> HIDE DEF stop
  <2>1. CASE stop < m
    BY <1>1, <2>1
  <2>2. CASE stop > m
    BY <1>1, <2>2
  <2> QED
    BY <1>1, <2>1, <2>2
<1>3. WithoutPadding(s) = SubSeq(s, 1, stop)
  BY DEF WithoutPadding
<1> HIDE DEF stop
<1>4. m \in Nat /\ m <= Len(s)
  OBVIOUS
<1>5. SubSeq(s, 1, m) = [j \in 1..m |-> s[j]]
  BY <1>4
<1> QED
  BY <1>2, <1>3, <1>5

\* What encodeBase64Url returns: the digits of encodeBase64 in the other alphabet.
LEMMA UrlEncoded ==
    ASSUME NEW bytes \in Seq(Byte), bytes # <<>>
    PROVE  LET coded == encodeBase64(bytes)
               r == encodeBase64Url(bytes)
               m == GroupsOf(bytes, 3) * 4 - PaddingOf(bytes)
           IN  /\ r \in Seq(UrlDigit) /\ Len(r) = m
               /\ \A j \in 1..m : r[j] = IF coded[j] = Plus THEN Minus
                                         ELSE IF coded[j] = Slash THEN Underscore ELSE coded[j]
<1> DEFINE coded == encodeBase64(bytes)
           n == GroupsOf(bytes, 3)
           p == PaddingOf(bytes)
           m == n * 4 - p
           q == Replace(Replace(coded, Plus, Minus), Slash, Underscore)
           r == encodeBase64Url(bytes)
<1>1. n \in Nat /\ n > 0 /\ p \in 0..2
  BY GroupCount
<1>2. /\ coded \in Seq(Digit \cup {Pad}) /\ Len(coded) = n * 4
      /\ \A j \in 1..Len(coded) : coded[j] = Pad <=> j > n * 4 - p
  BY Encoded
<1> HIDE DEF coded, n, p
<1>3. m \in 1..Len(coded) /\ Len(coded) \in Nat
  BY <1>1, <1>2
<1> HIDE DEF m
<1>4. /\ q \in Seq((Digit \cup {Pad}) \cup {Minus, Underscore}) /\ Len(q) = Len(coded)
      /\ \A j \in 1..Len(coded) :
            q[j] = IF coded[j] = Plus THEN Minus
                   ELSE IF coded[j] = Slash THEN Underscore ELSE coded[j]
  <2>1. Minus # Slash
    BY Alphabets
  <2> DEFINE S == Digit \cup {Pad}
  <2>2. coded \in Seq(S)
    BY <1>2
  <2> HIDE DEF S
  <2>3. /\ q \in Seq(S \cup {Minus, Underscore}) /\ Len(q) = Len(coded)
        /\ \A j \in 1..Len(coded) :
              q[j] = IF coded[j] = Plus THEN Minus
                     ELSE IF coded[j] = Slash THEN Underscore ELSE coded[j]
    BY <2>1, <2>2, ReplacedTwice
  <2> QED
    BY <2>3 DEF S
<1>5. r = WithoutPadding(q)
  BY DEF encodeBase64Url, coded
<1> HIDE DEF q
<1>6. \A j \in 1..Len(coded) : coded[j] = Pad <=> j > m
  BY <1>2 DEF m
<1>7. \A j \in 1..Len(q) : q[j] = Pad <=> j > m
  BY <1>4, <1>6, Alphabets
<1>8. r = [j \in 1..m |-> q[j]]
  <2>1. q \in Seq((Digit \cup {Pad}) \cup {Minus, Underscore}) /\ m \in 1..Len(q) /\ q[m] # Pad
    BY <1>3, <1>4, <1>7
  <2>2. \A j \in (m + 1)..Len(q) : q[j] = Pad
    BY <1>3, <1>4, <1>7
  <2> HIDE DEF r
  <2> QED
    BY <1>5, <2>1, <2>2, PaddingRemoved
<1> HIDE DEF r
<1>9. \A j \in 1..m : r[j] = IF coded[j] = Plus THEN Minus
                             ELSE IF coded[j] = Slash THEN Underscore ELSE coded[j]
  BY <1>3, <1>4, <1>8
<1>10. \A j \in 1..m : r[j] \in UrlDigit
  <2> SUFFICES ASSUME NEW j \in 1..m PROVE r[j] \in UrlDigit
    OBVIOUS
  <2>1. j \in 1..Len(coded) /\ ~(j > m)
    BY <1>3
  <2>2. coded[j] \in Digit
    BY <1>2, <1>6, <2>1
  <2> QED
    BY <1>9, <2>2 DEF UrlDigit
<1>11. r \in Seq(UrlDigit) /\ Len(r) = m
  BY <1>3, <1>8, <1>10
<1> QED
  BY <1>9, <1>11 DEF m, coded, n, p, r

\* The base64 digits for those of base64url.
LEMMA UrlReplaced ==
    ASSUME NEW part \in Seq(UrlDigit)
    PROVE  LET r == Replace(Replace(part, Minus, Plus), Underscore, Slash)
           IN  /\ r \in Seq(UrlDigit \cup {Plus, Slash}) /\ Len(r) = Len(part)
               /\ \A j \in 1..Len(part) :
                     r[j] = IF part[j] = Minus THEN Plus
                            ELSE IF part[j] = Underscore THEN Slash ELSE part[j]
<1> DEFINE q == Replace(part, Minus, Plus)
           r == Replace(q, Underscore, Slash)
<1>1. Plus # Underscore
  BY Alphabets
<1>2. q = [j \in 1..Len(part) |-> IF part[j] = Minus THEN Plus ELSE part[j]]
  BY DEF Replace
<1>3. r = [j \in 1..Len(q) |-> IF q[j] = Underscore THEN Slash ELSE q[j]]
  BY DEF Replace
<1>4. r \in Seq(UrlDigit \cup {Plus, Slash})
  BY <1>1, ReplacedTwice
<1> HIDE DEF q, r
<1>5. Len(q) = Len(part) /\ Len(r) = Len(part)
  BY <1>2, <1>3
<1>6. \A j \in 1..Len(part) : r[j] = IF part[j] = Minus THEN Plus
                                  ELSE IF part[j] = Underscore THEN Slash ELSE part[j]
  BY <1>1, <1>2, <1>3, <1>5
<1> QED
  BY <1>4, <1>5, <1>6 DEF q, r

\* What decodeBase64Url decodes instead of the string s it was given.
Restored(s) ==
    Replace(Replace(s, Minus, Plus), Underscore, Slash)
        \o [j \in 1..((4 - (Len(s) % 4)) % 4) |-> Pad]

\* Of the beginning of what encodeBase64Url returns, these are the digits that
\* encodeBase64 returns, and padding for the last group.
LEMMA UrlRead ==
    ASSUME NEW bytes \in Seq(Byte), bytes # <<>>,
           NEW c \in 1..(GroupsOf(bytes, 3) * 4 - PaddingOf(bytes)),
           NEW part \in Seq(UrlDigit), Len(part) = c,
           \A j \in 1..c : part[j] = encodeBase64Url(bytes)[j]
    PROVE  LET k == (4 - (c % 4)) % 4
           IN  /\ Restored(part) \in Seq(Digit \cup {Pad})
               /\ k \in 0..3 /\ Len(Restored(part)) = c + k
               /\ \A j \in 1..(c + k) :
                     Restored(part)[j] = IF j <= c THEN encodeBase64(bytes)[j] ELSE Pad
<1> DEFINE coded == encodeBase64(bytes)
           n == GroupsOf(bytes, 3)
           p == PaddingOf(bytes)
           m == n * 4 - p
           r == encodeBase64Url(bytes)
           q == Replace(Replace(part, Minus, Plus), Underscore, Slash)
           k == (4 - (c % 4)) % 4
           padding == [j \in 1..k |-> Pad]
<1>1. n \in Nat /\ n > 0 /\ p \in 0..2
  BY GroupCount
<1>2. /\ coded \in Seq(Digit \cup {Pad}) /\ Len(coded) = n * 4
      /\ \A j \in 1..Len(coded) : coded[j] = Pad <=> j > n * 4 - p
  BY Encoded
<1>3. \A j \in 1..m : r[j] = IF coded[j] = Plus THEN Minus
                             ELSE IF coded[j] = Slash THEN Underscore ELSE coded[j]
  BY UrlEncoded
<1>4. c \in 1..m /\ \A j \in 1..c : part[j] = r[j]
  OBVIOUS
<1> HIDE DEF coded, n, p, r
<1>5. c \in Nat /\ k \in 0..3 /\ m \in Nat /\ m <= Len(coded) /\ c <= m
  BY <1>1, <1>2, <1>4
<1>6. \A j \in 1..c : coded[j] \in Digit
  <2> SUFFICES ASSUME NEW j \in 1..c PROVE coded[j] \in Digit
    OBVIOUS
  <2>1. j \in 1..Len(coded) /\ ~(j > n * 4 - p)
    BY <1>1, <1>2, <1>5
  <2> QED
    BY <1>2, <2>1
<1>7. \A j \in 1..c : j \in 1..m
  BY <1>5
<1> HIDE DEF m, k
<1>8. /\ q \in Seq(UrlDigit \cup {Plus, Slash}) /\ Len(q) = c
      /\ \A j \in 1..c : q[j] = IF part[j] = Minus THEN Plus
                                ELSE IF part[j] = Underscore THEN Slash ELSE part[j]
  <2>1. /\ q \in Seq(UrlDigit \cup {Plus, Slash}) /\ Len(q) = Len(part)
        /\ \A j \in 1..Len(part) : q[j] = IF part[j] = Minus THEN Plus
                                  ELSE IF part[j] = Underscore THEN Slash ELSE part[j]
    BY UrlReplaced, Zenon
  <2>2. Len(part) = c
    OBVIOUS
  <2> HIDE DEF q
  <2> QED
    BY <2>1, <2>2
<1> HIDE DEF q
<1>9. \A j \in 1..c : q[j] = coded[j]
  <2> SUFFICES ASSUME NEW j \in 1..c PROVE q[j] = coded[j]
    OBVIOUS
  <2>1. coded[j] \in Digit /\ coded[j] \notin {Minus, Underscore}
    BY <1>6, Marks
  <2>2. q[j] = IF part[j] = Minus THEN Plus ELSE IF part[j] = Underscore THEN Slash ELSE part[j]
    BY <1>8
  <2>3. part[j] = IF coded[j] = Plus THEN Minus
               ELSE IF coded[j] = Slash THEN Underscore ELSE coded[j]
    BY <1>3, <1>4, <1>7
  <2> QED
    BY <2>1, <2>2, <2>3, Alphabets
<1>10. q \in Seq(Digit)
  <2>1. \A j \in 1..Len(q) : q[j] \in Digit
    BY <1>6, <1>8, <1>9
  <2> QED
    BY <1>8, <2>1
<1>11. padding \in Seq({Pad}) /\ Len(padding) = k /\ \A j \in 1..k : padding[j] = Pad
  BY <1>5
<1>12. Restored(part) = q \o padding
  <2> USE DEF q
  <2>1. k = (4 - (Len(part) % 4)) % 4
    BY DEF k
  <2> QED
    BY <2>1, Zenon DEF Restored
<1> HIDE DEF padding
<1>13. q \o padding \in Seq(Digit \cup {Pad}) /\ Len(q \o padding) = c + k
  BY <1>5, <1>8, <1>10, <1>11
<1>14. ASSUME NEW j \in 1..(c + k)
       PROVE  (q \o padding)[j] = IF j <= c THEN coded[j] ELSE Pad
  <2>1. CASE j <= c
    BY <1>5, <1>8, <1>9, <1>10, <1>11, <2>1
  <2>2. CASE j > c
    <3>1. (q \o padding)[j] = padding[j - c] /\ j - c \in 1..k
      BY <1>5, <1>8, <1>10, <1>11, <2>2
    <3> QED
      BY <1>5, <1>11, <2>2, <3>1
  <2>3. j <= c \/ j > c
    BY <1>5
  <2> QED
    BY <2>1, <2>2, <2>3
<1> QED
  BY <1>5, <1>12, <1>13, <1>14 DEF k, coded

\* What decodeBase64Url makes of the result of encodeBase64Url before it decodes
\* it is the result of encodeBase64.
LEMMA UrlRestored ==
    ASSUME NEW bytes \in Seq(Byte), bytes # <<>>
    PROVE  decodeBase64Url(encodeBase64Url(bytes)) = decodeBase64(encodeBase64(bytes))
<1> DEFINE coded == encodeBase64(bytes)
           n == GroupsOf(bytes, 3)
           p == PaddingOf(bytes)
           c == n * 4 - p
           k == (4 - (c % 4)) % 4
           r == encodeBase64Url(bytes)
<1>1. n \in Nat /\ n > 0 /\ p \in 0..2
  BY GroupCount
<1>2. /\ coded \in Seq(Digit \cup {Pad}) /\ Len(coded) = n * 4
      /\ \A j \in 1..Len(coded) : coded[j] = Pad <=> j > n * 4 - p
  BY Encoded
<1>3. r \in Seq(UrlDigit) /\ Len(r) = c
  BY UrlEncoded
<1>4. decodeBase64Url(r) = decodeBase64(Restored(r))
  BY DEF decodeBase64Url, Restored
<1>5. c \in 1..c
  <2> HIDE DEF n, p
  <2> QED
    BY <1>1
<1>6. /\ Restored(r) \in Seq(Digit \cup {Pad}) /\ Len(Restored(r)) = c + k
      /\ \A j \in 1..(c + k) : Restored(r)[j] = IF j <= c THEN coded[j] ELSE Pad
  <2> HIDE DEF k, r
  <2> QED
    BY <1>3, <1>5, UrlRead DEF k, r
<1> HIDE DEF coded, n, p, r
<1>7. c + k = Len(coded) /\ c \in Nat
  BY <1>1, <1>2
<1> DEFINE R == Restored(r)
<1>8. \A j \in 1..Len(coded) : R[j] = coded[j]
  <2>1. \A j \in 1..Len(coded) : coded[j] = Pad <=> ~(j <= c)
    BY <1>1, <1>2
  <2> HIDE DEF c, k
  <2> QED
    BY <1>6, <1>7, <2>1
<1> HIDE DEF c, k, R
<1>9. R = coded
  BY <1>2, <1>6, <1>7, <1>8 DEF R
<1> QED
  BY <1>4, <1>9 DEF coded, r, R
-----------------------------------------------------------------------------
(* Decoding of any string. *)

\* A figure is smaller than its base.
LEMMA FigureType ==
    ASSUME NEW v \in Nat, NEW k \in 1..3
    PROVE  Figure(v, ByteBase, 3, k) \in Byte
<1> DEFINE high == v \div ByteBase
           higher == high \div ByteBase
<1>1. ByteBase \in Nat /\ ByteBase > 0
  BY Sizes
<1>2. high \in Nat /\ v % ByteBase \in Byte
  BY <1>1, Quotient DEF Byte
<1>3. higher \in Nat /\ high % ByteBase \in Byte
  <2> HIDE DEF high
  <2> QED
    BY <1>1, <1>2, Quotient DEF Byte
<1>4. higher % ByteBase \in Byte
  <2> HIDE DEF higher
  <2> QED
    BY <1>1, <1>3, Quotient DEF Byte
<1>5. Figure(v, ByteBase, 3, 3) = v % ByteBase /\ Figure(v, ByteBase, 3, 2) = high % ByteBase
      /\ Figure(v, ByteBase, 3, 1) = higher % ByteBase
  BY DEF Figure
<1>6. k = 1 \/ k = 2 \/ k = 3
  OBVIOUS
<1> HIDE DEF high, higher
<1> QED
  BY <1>2, <1>3, <1>4, <1>5, <1>6

\* decodeBase64 returns bytes, or fails, whatever string it is given.
LEMMA DecodedType ==
    ASSUME NEW s \in Seq(Char)
    PROVE  decodeBase64(s) \in Seq(Byte) \cup {Failed}
<1> DEFINE n == GroupsOf(s, 4)
           decoded == Regroup(s, 4, DigitBase, 3, ByteBase)
           padding == IF s[Len(s)] # Pad THEN 0
                      ELSE IF s[Len(s) - 1] # Pad THEN 1 ELSE 2
<1> SUFFICES ASSUME decodeBase64(s) # Failed PROVE decodeBase64(s) \in Seq(Byte)
  OBVIOUS
<1>1. /\ s # <<>> /\ Len(s) % 4 = 0
      /\ \A j \in 1..Len(s) : s[j] \notin {Minus, Underscore}
      /\ decodeBase64(s) = SubSeq(decoded, 1, Len(decoded) - padding)
  BY DEF decodeBase64, BioDecode
<1>2. n \in Nat /\ n > 0
  <2>1. Len(s) \in Nat /\ Len(s) > 0
    BY <1>1
  <2> QED
    BY <2>1 DEF GroupsOf
<1>3. /\ DOMAIN decoded = 1..(n * 3) /\ Len(decoded) = n * 3
      /\ \A i \in 1..n, k \in 1..3 :
            decoded[3 * (i - 1) + k] = Figure(GroupValue(s, i, 4, DigitBase), ByteBase, 3, k)
  BY <1>2, Regrouped
<1>4. \A q \in Nat \ {0} : FigureAt(s, q) \in Nat
  <2> SUFFICES ASSUME NEW q \in Nat \ {0} PROVE FigureAt(s, q) \in Nat
    OBVIOUS
  <2>1. CASE q > Len(s) \/ s[q] = Pad
    BY <2>1 DEF FigureAt
  <2>2. CASE ~(q > Len(s) \/ s[q] = Pad)
    <3>1. s[q] \in Digit /\ FigureAt(s, q) = s[q]
      BY <1>1, <2>2, Marks DEF FigureAt
    <3> QED
      BY <3>1, Sizes DEF Digit
  <2> QED
    BY <2>1, <2>2
<1>5. \A i \in 1..n : GroupValue(s, i, 4, DigitBase) \in Nat
  <2> SUFFICES ASSUME NEW i \in 1..n PROVE GroupValue(s, i, 4, DigitBase) \in Nat
    OBVIOUS
  <2> DEFINE F(k) == FigureAt(s, 4 * (i - 1) + k)
  <2>1. F(1) \in Nat /\ F(2) \in Nat /\ F(3) \in Nat /\ F(4) \in Nat
    <3>1. \A k \in {1, 2, 3, 4} : 4 * (i - 1) + k \in Nat \ {0}
      BY <1>2
    <3> QED
      BY <1>4, <3>1
  <2>2. GroupValue(s, i, 4, DigitBase)
        = ((F(1) * DigitBase + F(2)) * DigitBase + F(3)) * DigitBase + F(4)
    BY ValueOfFour
  <2>3. DigitBase \in Nat
    BY Base64Assumption
  <2> HIDE DEF F
  <2>4. \A x, y \in Nat : x * DigitBase + y \in Nat
    BY <2>3
  <2> HIDE <2>3
  <2>5. F(1) * DigitBase + F(2) \in Nat
    BY <2>1, <2>4
  <2>6. (F(1) * DigitBase + F(2)) * DigitBase + F(3) \in Nat
    BY <2>1, <2>4, <2>5
  <2> QED
    BY <2>1, <2>2, <2>4, <2>6
<1> HIDE DEF n, decoded
<1>6. \A j \in 1..(n * 3) : decoded[j] \in Byte
  <2> SUFFICES ASSUME NEW j \in 1..(n * 3) PROVE decoded[j] \in Byte
    OBVIOUS
  <2>1. PICK i \in 1..n, k \in 1..3 : j = 3 * (i - 1) + k
    BY <1>2, PlaceOf
  <2> QED
    BY <1>3, <1>5, <2>1, FigureType
<1>7. Len(decoded) - padding \in Nat /\ Len(decoded) - padding <= n * 3
  BY <1>2, <1>3
<1> DEFINE m == Len(decoded) - padding
<1>8. SubSeq(decoded, 1, m) = [j \in 1..m |-> decoded[j]]
  <2> HIDE DEF m
  <2> QED
    BY <1>3, <1>7 DEF m
<1>9. SubSeq(decoded, 1, m) \in Seq(Byte)
  <2>1. \A j \in 1..m : j \in 1..(n * 3)
    BY <1>2, <1>7
  <2>2. \A j \in 1..m : decoded[j] \in Byte
    BY <1>6, <2>1
  <2> HIDE DEF m
  <2> QED
    BY <1>7, <1>8, <2>2 DEF m
<1> QED
  BY <1>1, <1>9
-----------------------------------------------------------------------------
(* The program.  RoundTrip and CutGivesPrefix are about the last step: they
   need what text is in between.  HashesWholeFile needs what has been hashed. *)

Encoding == IF url THEN encodeBase64Url(input) ELSE encodeBase64(input)
IsCut(s) == \E n \in 1..(Len(s) - 1) : text = SubSeq(s, 1, Len(s) - n)

CodecInv ==
    /\ at \in {"printed", "decoded", "cut", "decodedCut"} => input # <<>>
    /\ at \in {"printed", "decoded"} => text = Encoding
    /\ at \in {"cut", "decodedCut"} => IsCut(Encoding)
    /\ RoundTrip
    /\ CutGivesPrefix

HashInv ==
    /\ at = "start" => hashed = <<>> /\ position = 0 /\ good
    /\ at = "reading" => hashed = SubSeq(input, 1, position)
    /\ at = "reading" /\ ~opened => ~good /\ position = 0
    /\ at = "reading" /\ opened /\ ~good => position = Len(input)
    /\ HashesWholeFile

Characters == IF url THEN UrlDigit ELSE Digit \cup {Pad}

\* The types, spelt out for the alphabet in use.
Types ==
    /\ at \in {"start", "printed", "cut", "decoded", "decodedCut", "reading", "hashed"}
    /\ url \in BOOLEAN /\ opened \in BOOLEAN /\ good \in BOOLEAN
    /\ input \in Seq(Byte)
    /\ {result, hashed} \subseteq Seq(Byte) \cup {Failed}
    /\ text \in Seq(Characters)
    /\ position \in 0..Len(input)

\* The types by task give those of the model.
LEMMA TypesSuffice == Types => TypeOK
<1> SUFFICES ASSUME Types PROVE TypeOK
  OBVIOUS
<1>1. Characters = Char \ IF url THEN {Plus, Slash, Pad} ELSE {Minus, Underscore}
  BY Alphabets DEF Characters
<1>2. {input, result, hashed} \ {Failed} \subseteq Seq(Byte)
  BY DEF Types
<1> QED
  BY <1>1, <1>2 DEF Types, TypeOK

\* What is encoded has characters of its alphabet.
LEMMA EncodingType ==
    ASSUME url \in BOOLEAN, input \in Seq(Byte), input # <<>>
    PROVE  Encoding \in Seq(Characters)
<1>1. CASE url
  BY <1>1, UrlEncoded DEF Encoding, Characters
<1>2. CASE ~url
  <2> DEFINE s == encodeBase64(input)
  <2>1. s \in Seq(Digit \cup {Pad}) /\ Len(s) = GroupsOf(input, 3) * 4
    BY Encoded
  <2> HIDE DEF s
  <2> QED
    BY <1>2, <2>1 DEF Encoding, Characters, s
<1> QED
  BY <1>1, <1>2

\* What is left of a string that was cut.
LEMMA CutType ==
    ASSUME NEW S, NEW s \in Seq(S), IsCut(s)
    PROVE  /\ text \in Seq(S) /\ Len(text) \in 1..(Len(s) - 1)
           /\ \A j \in 1..Len(text) : text[j] = s[j]
<1>1. PICK n \in 1..(Len(s) - 1) : text = SubSeq(s, 1, Len(s) - n)
  BY DEF IsCut
<1> DEFINE m == Len(s) - n
<1>2. m \in Nat /\ m <= Len(s) /\ Len(s) \in Nat /\ m \in 1..(Len(s) - 1)
  BY <1>1
<1>3. text = [j \in 1..m |-> s[j]]
  <2> HIDE DEF m
  <2> QED
    BY <1>1, <1>2 DEF m
<1> HIDE DEF m
<1> QED
  BY <1>2, <1>3

\* What is decoded of a string that was cut: the beginning of the input, but for
\* the byte of a single character left of a group.
LEMMA CutDecoded ==
    ASSUME url \in BOOLEAN, input \in Seq(Byte), input # <<>>, IsCut(Encoding)
    PROVE  LET decoded == IF url THEN decodeBase64Url(text) ELSE decodeBase64(text)
           IN  \/ decoded = Failed
               \/ IsPrefix(decoded, input)
               \/ url /\ Len(text) % 4 = 1 /\ IsPrefix(Front(decoded), input)
<1> DEFINE coded == encodeBase64(input)
           n == GroupsOf(input, 3)
           p == PaddingOf(input)
           c == Len(text)
<1>1. n \in Nat /\ n > 0 /\ p \in 0..2
  BY GroupCount
<1>2. coded \in Seq(Digit \cup {Pad}) /\ Len(coded) = n * 4
  BY Encoded
<1>3. CASE ~url
  <2>1. /\ text \in Seq(Digit \cup {Pad}) /\ c \in 1..(n * 4 - 1)
        /\ \A j \in 1..c : text[j] = coded[j]
    <3>1. IsCut(coded)
      BY <1>3 DEF Encoding
    <3> HIDE DEF coded
    <3> QED
      BY <1>2, <3>1, CutType
  <2>2. CASE c % 4 # 0
    BY <1>3, <2>2 DEF decodeBase64
  <2>3. CASE c % 4 = 0
    <3> DEFINE g == c \div 4
    <3> HIDE DEF n, p
    <3>1. g \in Nat /\ c = 4 * g /\ c \in 1..(n * 4 - p) /\ c % 4 # 1
      BY <1>1, <2>1, <2>3
    <3> HIDE DEF g, c
    <3>2. /\ c <= 4 * g /\ 4 * g < c + 4
          /\ \A j \in 1..(4 * g) : text[j] = IF j <= c THEN coded[j] ELSE Pad
      BY <2>1, <3>1
    <3>3. \/ decodeBase64(text) = Failed
          \/ IsPrefix(decodeBase64(text), input)
          \/ c % 4 = 1 /\ IsPrefix(Front(decodeBase64(text)), input)
      BY <2>1, <3>1, <3>2, DecodesBeginning DEF n, p, c
    <3> QED
      BY <1>3, <3>1, <3>3
  <2> QED
    BY <2>2, <2>3
<1>4. CASE url
  <2> DEFINE r == encodeBase64Url(input)
             m == n * 4 - p
             k == (4 - (c % 4)) % 4
             T == Restored(text)
             g == (c + k) \div 4
  <2>1. r \in Seq(UrlDigit) /\ Len(r) = m
    BY UrlEncoded
  <2>2. /\ text \in Seq(UrlDigit) /\ c \in 1..(m - 1)
        /\ \A j \in 1..c : text[j] = r[j]
    <3>1. IsCut(r)
      BY <1>4 DEF Encoding
    <3> HIDE DEF r
    <3> QED
      BY <2>1, <3>1, CutType
  <2>3. c \in 1..m /\ c \in Nat
    <3> HIDE DEF n, p
    <3> QED
      BY <1>1, <2>2
  <2>4. /\ T \in Seq(Digit \cup {Pad}) /\ k \in 0..3 /\ Len(T) = c + k
        /\ \A j \in 1..(c + k) : T[j] = IF j <= c THEN coded[j] ELSE Pad
    BY <2>2, <2>3, UrlRead
  <2>5. decodeBase64Url(text) = decodeBase64(T)
    BY DEF decodeBase64Url, Restored
  <2>6. g \in Nat /\ c + k = 4 * g /\ c <= 4 * g /\ 4 * g < c + 4
    <3> HIDE DEF c
    <3> QED
      BY <2>3
  <2> HIDE DEF T, g, k
  <2>7. \/ decodeBase64(T) = Failed
        \/ IsPrefix(decodeBase64(T), input)
        \/ c % 4 = 1 /\ IsPrefix(Front(decodeBase64(T)), input)
    BY <2>3, <2>4, <2>6, DecodesBeginning
  <2> QED
    BY <1>4, <2>5, <2>7
<1> QED
  BY <1>3, <1>4

\* Every answer of the decoders is a sequence of bytes or a failure.
LEMMA DecodingType ==
    ASSUME url \in BOOLEAN, text \in Seq(Characters)
    PROVE  (IF url THEN decodeBase64Url(text) ELSE decodeBase64(text)) \in Seq(Byte) \cup {Failed}
<1>1. CASE ~url
  <2>1. text \in Seq(Char)
    BY <1>1, Alphabets DEF Characters
  <2> QED
    BY <1>1, <2>1, DecodedType
<1>2. CASE url
  <2> DEFINE q == Replace(Replace(text, Minus, Plus), Underscore, Slash)
             padding == [j \in 1..((4 - (Len(text) % 4)) % 4) |-> Pad]
  <2>1. text \in Seq(UrlDigit) /\ Plus # Underscore
    BY <1>2, Alphabets DEF Characters
  <2>2. q \in Seq(UrlDigit \cup {Plus, Slash})
    BY <2>1, ReplacedTwice
  <2>3. padding \in Seq({Pad})
    <3> DEFINE k == (4 - (Len(text) % 4)) % 4
    <3>1. k \in Nat
      BY <2>1
    <3> HIDE DEF k
    <3>2. [j \in 1..k |-> Pad] \in Seq({Pad})
      BY <3>1
    <3> QED
      BY <3>2 DEF k
  <2>4. UrlDigit \cup {Plus, Slash} \subseteq Char /\ Pad \in Char
    BY Alphabets, Marks
  <2> HIDE DEF q, padding
  <2>5. q \o padding \in Seq(Char)
    BY <2>2, <2>3, <2>4
  <2>6. decodeBase64Url(text) = decodeBase64(q \o padding)
    BY DEF decodeBase64Url, q, padding
  <2> QED
    BY <1>2, <2>5, <2>6, DecodedType
<1> QED
  BY <1>1, <1>2

AlgorithmInv == Types /\ CodecInv /\ HashInv

\* Nothing is encoded, decoded or read at the start.
LEMMA AlgorithmInit == Init => AlgorithmInv
<1> SUFFICES ASSUME Init PROVE AlgorithmInv
  OBVIOUS
<1>1. input \in Seq(Byte)
  <2>1. PICK m \in 0..MaxLength : input \in [1..m -> Samples]
    BY DEF Init, BoundedSeq, SeqOf
  <2>2. m \in Nat /\ Samples \subseteq Byte
    BY AlgorithmAssumption
  <2> QED
    BY <2>1, <2>2
<1>2. CodecInv
  BY DEF Init, CodecInv, RoundTrip, CutGivesPrefix
<1>3. HashInv
  BY DEF Init, HashInv, HashesWholeFile
<1>4. Types
  <2>1. position \in 0..Len(input)
    BY <1>1 DEF Init
  <2>2. url \in BOOLEAN /\ opened \in BOOLEAN /\ good \in BOOLEAN
    BY DEF Init
  <2>3. text \in Seq(Characters) /\ {result, hashed} \subseteq Seq(Byte) \cup {Failed}
    BY DEF Init
  <2> QED
    BY <1>1, <2>1, <2>2, <2>3 DEF Init, Types
<1> QED
  BY <1>2, <1>3, <1>4 DEF AlgorithmInv

\* Encoding and decoding.
LEMMA CodecStep ==
    ASSUME AlgorithmInv, Encode \/ CutShort \/ Decode
    PROVE  AlgorithmInv'
<1> USE DEF AlgorithmInv, Types, CodecInv, RoundTrip, CutGivesPrefix
<1>1. input' = input /\ url' = url /\ Encoding' = Encoding /\ Characters' = Characters
      /\ UNCHANGED <<hashed, position, opened, good>>
  BY DEF Encode, CutShort, Decode, Encoding, Characters
<1>2. HashInv'
  BY <1>1 DEF Encode, CutShort, Decode, HashInv, HashesWholeFile
<1>3. CASE Encode
  <2>1. text' = Encoding /\ input # <<>>
    BY <1>3 DEF Encode, Encoding
  <2>2. text' \in Seq(Characters)
    BY <2>1, EncodingType
  <2> QED
    BY <1>1, <1>2, <1>3, <2>1, <2>2 DEF Encode
<1>4. CASE CutShort
  <2>1. input # <<>> /\ text = Encoding
    BY <1>4 DEF CutShort
  <2>2. IsCut(Encoding)'
    BY <1>1, <1>4, <2>1 DEF CutShort, IsCut
  <2>3. text' \in Seq(Characters)
    <3>1. PICK n \in 1..(Len(text) - 1) : text' = SubSeq(text, 1, Len(text) - n)
      BY <1>4 DEF CutShort
    <3> QED
      BY <3>1
  <2> QED
    BY <1>1, <1>2, <1>4, <2>1, <2>2, <2>3 DEF CutShort
<1>5. CASE Decode
  <2>1. result' = IF url THEN decodeBase64Url(text) ELSE decodeBase64(text)
    BY <1>5 DEF Decode
  <2>2. result' \in Seq(Byte) \cup {Failed}
    BY <2>1, DecodingType
  <2>3. IsCut(Encoding)' <=> IsCut(Encoding)
    BY <1>1, <1>5 DEF Decode, IsCut
  <2>4. CASE at = "printed"
    <3>1. text = Encoding /\ input # <<>>
      BY <2>4
    <3>2. result' = decodeBase64(encodeBase64(input))
      BY <2>1, <3>1, UrlRestored DEF Encoding
    <3>3. result' = IF BufferFits(encodeBase64(input)) THEN input ELSE Failed
      BY <3>1, <3>2, DecodesEncoded DEF decodeBase64
    <3> QED
      BY <1>1, <1>2, <1>5, <2>2, <2>4, <3>1, <3>3 DEF Decode
  <2>5. CASE at = "cut"
    <3>1. IsCut(Encoding) /\ input # <<>>
      BY <2>5
    <3>2. \/ result' = Failed
          \/ IsPrefix(result', input)
          \/ url /\ Len(text) % 4 = 1 /\ IsPrefix(Front(result'), input)
      BY <2>1, <3>1, CutDecoded
    <3>3. CutGivesPrefix'
      BY <1>1, <1>5, <3>2 DEF Decode
    <3> QED
      BY <1>1, <1>2, <1>5, <2>2, <2>3, <2>5, <3>1, <3>3 DEF Decode
  <2> QED
    BY <1>5, <2>4, <2>5 DEF Decode
<1> QED
  BY <1>3, <1>4, <1>5

\* Adding the next chunk to what was hashed of a file.
LEMMA ChunkAdded ==
    ASSUME NEW S, NEW s \in Seq(S), NEW p \in 0..Len(s), NEW k \in Nat, p + k <= Len(s)
    PROVE  SubSeq(s, 1, p) \o SubSeq(s, p + 1, p + k) = SubSeq(s, 1, p + k)
<1>1. Len(s) \in Nat /\ p \in Nat
  OBVIOUS
<1>2. SubSeq(s, 1, p) = [j \in 1..p |-> s[j]]
      /\ SubSeq(s, 1, p + k) = [j \in 1..(p + k) |-> s[j]]
  BY <1>1
<1>3. SubSeq(s, p + 1, p + k) = [j \in 1..k |-> s[p + j]]
  BY <1>1
<1> QED
  BY <1>1, <1>2, <1>3

\* Hashing.
LEMMA HashStep ==
    ASSUME AlgorithmInv, FileMissing \/ OpenFile \/ ReadChunk \/ ReadBreaks \/ FinalHash
    PROVE  AlgorithmInv'
<1> USE DEF AlgorithmInv, Types, HashInv, HashesWholeFile
<1>1. /\ UNCHANGED <<url, input, text, result>> /\ Characters' = Characters
      /\ at' \in {"reading", "hashed"}
  BY DEF FileMissing, OpenFile, ReadChunk, ReadBreaks, FinalHash, Characters
<1>2. CodecInv'
  BY <1>1 DEF CodecInv, RoundTrip, CutGivesPrefix
<1>3. CASE OpenFile
  <2>1. SubSeq(input, 1, 0) = <<>>
    OBVIOUS
  <2> QED
    BY <1>1, <1>2, <1>3, <2>1 DEF OpenFile
<1>4. CASE ReadChunk
  <2> DEFINE rest == Len(input) - position
             gcount == IF ChunkSize <= rest THEN ChunkSize ELSE rest
  <2>1. /\ hashed' = hashed \o SubSeq(input, position + 1, position + gcount)
        /\ position' = position + gcount
        /\ good' = (ChunkSize <= rest)
        /\ at = "reading" /\ at' = at /\ opened' = opened /\ opened
    BY <1>4 DEF ReadChunk
  <2>2. Len(input) \in Nat /\ rest \in Nat /\ ChunkSize \in Nat
    BY AlgorithmAssumption
  <2>3. gcount \in Nat /\ position + gcount <= Len(input)
        /\ (~(ChunkSize <= rest) => position + gcount = Len(input))
    BY <2>2
  <2> HIDE DEF rest, gcount
  <2>4. hashed' = SubSeq(input, 1, position')
    BY <2>1, <2>3, ChunkAdded
  <2>5. position' \in 0..Len(input) /\ good' \in BOOLEAN /\ (~good' => position' = Len(input))
    BY <2>1, <2>2, <2>3
  <2>6. hashed' \in Seq(Byte)
    BY <2>4, <2>5
  <2> QED
    BY <1>1, <1>2, <2>1, <2>4, <2>5, <2>6
<1>5. CASE ReadBreaks
  BY <1>1, <1>2, <1>5 DEF ReadBreaks
<1>6. CASE FinalHash
  <2>1. SubSeq(input, 1, Len(input)) = input /\ SubSeq(input, 1, 0) = <<>>
    OBVIOUS
  <2>2. IF opened THEN hashed = input ELSE hashed = <<>>
    BY <1>6, <2>1 DEF FinalHash
  <2> QED
    BY <1>1, <1>2, <1>6, <2>2 DEF FinalHash
<1>7. CASE FileMissing
  BY <1>1, <1>2, <1>7 DEF FileMissing
<1> QED
  BY <1>3, <1>4, <1>5, <1>6, <1>7

\* Each task, encoding, decoding or reading, keeps the invariant.
LEMMA AlgorithmStep == AlgorithmInv /\ [Next]_vars => AlgorithmInv'
<1> SUFFICES ASSUME AlgorithmInv, [Next]_vars PROVE AlgorithmInv'
  OBVIOUS
<1>1. CASE UNCHANGED vars
  BY <1>1
  DEF vars, AlgorithmInv, Types, Characters, CodecInv, Encoding, IsCut, RoundTrip,
      CutGivesPrefix, HashInv, HashesWholeFile
<1> QED
  BY <1>1, CodecStep, HashStep DEF Next

\* The invariant holds in every state.
LEMMA AlgorithmAlways == Spec => []AlgorithmInv
  BY AlgorithmInit, AlgorithmStep, PTL DEF Spec
-----------------------------------------------------------------------------
\* Whatever is encoded, decoded or read: a base64url string consists of
\* characters that need no escaping, and a decoder returns bytes or fails.
THEOREM AlphabetsKept == Spec => []TypeOK
<1>1. AlgorithmInv => TypeOK
  BY TypesSuffice DEF AlgorithmInv
<1> QED
  BY <1>1, AlgorithmAlways, PTL

\* For inputs of any length and any bytes, in both alphabets, decoding gives back
\* what was encoded, unless the decoder's buffer would be longer than an int says,
\* when it refuses (encodeBase64, encodeBase64Url, decodeBase64, decodeBase64Url).
THEOREM DecodingInverts == Spec => []RoundTrip
<1>1. AlgorithmInv => RoundTrip
  BY DEF AlgorithmInv, CodecInv
<1> QED
  BY <1>1, AlgorithmAlways, PTL

\* Of an encoded string of any length and in both alphabets that lost its end,
\* whatever is decoded is the beginning of what was encoded, but for the last byte
\* when one character of a base64url group is left, which the code does not refuse
\* (decodeBase64, decodeBase64Url).
THEOREM CutDecodesToBeginning == Spec => []CutGivesPrefix
<1>1. AlgorithmInv => CutGivesPrefix
  BY DEF AlgorithmInv, CodecInv
<1> QED
  BY <1>1, AlgorithmAlways, PTL

\* For files and chunks of any size, the hash is of the whole file, or the call
\* fails, or the file could not be opened for reading, which the code does not ask:
\* then the call succeeds with the hash of nothing (calcSha256File).
THEOREM WholeFileHashed == Spec => []HashesWholeFile
<1>1. AlgorithmInv => HashesWholeFile
  BY DEF AlgorithmInv, HashInv
<1> QED
  BY <1>1, AlgorithmAlways, PTL
=============================================================================
