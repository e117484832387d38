--------------------------- MODULE RelayRequestProofs ---------------------------
(***************************************************************************)
(* The codec, for every base, 256 among them: a frame that was encoded is  *)
(* the first one decoded, whatever follows it, and what is decoded as a    *)
(* whole frame is the encoding of that frame and of no other bytes.  From  *)
(* it, for batches of any length, that the decoder hands on exactly what   *)
(* was written; and of the requests these frames spell, for any heads and  *)
(* headers, that the allowlists, the router and the token decide as meant. *)
(***************************************************************************)
EXTENDS RelayRequest, SequenceTheorems, WellFoundedInduction, TLAPS

(***************************************************************************)
(* The codec.                                                              *)
(***************************************************************************)

\* A string of bytes is one of numbers.
LEMMA BytesAreNumbers ==
    /\ Byte \subseteq Nat
    /\ \A s \in Seq(Byte) : s \in Seq(Nat)
<1>1. Byte \subseteq Nat
    BY BaseAssumption DEF Byte
<1>2. QED
    BY <1>1, SeqMonotonic

\* Quotient and remainder by the base.
LEMMA Division ==
    ASSUME NEW n \in Nat
    PROVE  /\ n \div Base \in Nat /\ n % Base \in Byte
           /\ n = Base * (n \div Base) + (n % Base)
BY BaseAssumption DEF Byte

\* Appending a digit and taking it off again.
LEMMA LastDigit ==
    ASSUME NEW q \in Nat, NEW d \in Byte
    PROVE  (q * Base + d) \div Base = q /\ (q * Base + d) % Base = d
BY BaseAssumption DEF Byte

\* The quotient of a number below k * Base is below k.
LEMMA QuotientBound ==
    ASSUME NEW n \in Nat, NEW k \in Nat, n < k * Base
    PROVE  n \div Base < k
<1>1. n = Base * (n \div Base) + (n % Base) /\ n \div Base \in Nat /\ n % Base \in Nat
    BY Division DEF Byte
<1>2. SUFFICES ASSUME n \div Base >= k PROVE FALSE
    BY <1>1
<1>3. Base * (n \div Base) >= Base * k
    BY <1>1, <1>2, BaseAssumption
<1>4. QED
    BY <1>1, <1>3, BaseAssumption

\* A number below the base is its only digit.
LEMMA OneDigit ==
    ASSUME NEW n \in Nat, n < Base
    PROVE  n % Base = n
BY BaseAssumption

\* A length is the value of its three digits.
LEMMA LengthDigits ==
    ASSUME NEW n \in 0..MaxPayload
    PROVE  /\ LengthOf(LengthBytes(n)[1], LengthBytes(n)[2], LengthBytes(n)[3]) = n
           /\ \A i \in 1..3 : LengthBytes(n)[i] \in Byte
<1> DEFINE q1 == n \div Base
           q2 == q1 \div Base
<1>1. n \in Nat /\ q1 \in Nat /\ q2 \in Nat
      /\ n = Base * q1 + (n % Base) /\ q1 = Base * q2 + (q1 % Base)
    BY Division, BaseAssumption DEF MaxPayload
<1>2. q2 < Base
  <2>1. n < (Base * Base) * Base /\ Base * Base \in Nat
      BY BaseAssumption DEF MaxPayload
  <2>2. q1 < Base * Base
      BY <1>1, <2>1, QuotientBound
  <2>3. QED
      BY <1>1, <2>2, QuotientBound, BaseAssumption
<1>3. q2 % Base = q2
    BY <1>1, <1>2, OneDigit
<1>4. LengthBytes(n)[1] = q2 % Base /\ LengthBytes(n)[2] = q1 % Base /\ LengthBytes(n)[3] = n % Base
    BY DEF LengthBytes
<1>5. q2 % Base \in Byte /\ q1 % Base \in Byte /\ n % Base \in Byte
    BY <1>1, Division
<1>6. LengthOf(q2, q1 % Base, n % Base) = n
  <2>1. q2 * Base + (q1 % Base) = q1
      BY <1>1, BaseAssumption
  <2>2. q1 * Base + (n % Base) = n
      BY <1>1, BaseAssumption
  <2>3. QED
      BY <2>1, <2>2 DEF LengthOf
<1>7. QED
    BY <1>3, <1>4, <1>5, <1>6

\* A stream id is the value of its four digits.
LEMMA IdDigits ==
    ASSUME NEW n \in StreamIds
    PROVE  /\ IdOf(IdBytes(n)[1], IdBytes(n)[2], IdBytes(n)[3], IdBytes(n)[4]) = n
           /\ \A i \in 1..4 : IdBytes(n)[i] \in Byte
<1> DEFINE q1 == n \div Base
           q2 == q1 \div Base
           q3 == q2 \div Base
<1>1. n \in Nat /\ q1 \in Nat /\ q2 \in Nat /\ q3 \in Nat
      /\ n = Base * q1 + (n % Base) /\ q1 = Base * q2 + (q1 % Base)
      /\ q2 = Base * q3 + (q2 % Base)
    BY Division, BaseAssumption DEF StreamIds
<1>2. q3 < Base
  <2>1. n < (Base * Base * Base) * Base /\ Base * Base * Base \in Nat /\ Base * Base \in Nat
      BY BaseAssumption DEF StreamIds
  <2>2. q1 < (Base * Base) * Base
      BY <1>1, <2>1, QuotientBound
  <2>3. q2 < Base * Base
      BY <1>1, <2>1, <2>2, QuotientBound
  <2>4. QED
      BY <1>1, <2>3, QuotientBound, BaseAssumption
<1>3. q3 % Base = q3
    BY <1>1, <1>2, OneDigit
<1>4. /\ IdBytes(n)[1] = q3 % Base /\ IdBytes(n)[2] = q2 % Base
      /\ IdBytes(n)[3] = q1 % Base /\ IdBytes(n)[4] = n % Base
    BY DEF IdBytes
<1>5. q3 % Base \in Byte /\ q2 % Base \in Byte /\ q1 % Base \in Byte /\ n % Base \in Byte
    BY <1>1, Division
<1>6. IdOf(q3, q2 % Base, q1 % Base, n % Base) = n
  <2>1. q3 * Base + (q2 % Base) = q2
      BY <1>1, BaseAssumption
  <2>2. q2 * Base + (q1 % Base) = q1
      BY <1>1, BaseAssumption
  <2>3. q1 * Base + (n % Base) = n
      BY <1>1, BaseAssumption
  <2>4. QED
      BY <2>1, <2>2, <2>3 DEF IdOf
<1>7. QED
    BY <1>3, <1>4, <1>5, <1>6

\* The digits of a value are the digits it was put together from.
LEMMA DigitsOfLength ==
    ASSUME NEW a \in Byte, NEW b \in Byte, NEW c \in Byte
    PROVE  LengthBytes(LengthOf(a, b, c)) = <<a, b, c>> /\ LengthOf(a, b, c) \in 0..MaxPayload
<1>1. a \in Nat /\ b \in Nat /\ c \in Nat /\ a < Base /\ b < Base /\ c < Base
    BY BaseAssumption DEF Byte
<1> DEFINE q == a * Base + b
<1>2. q \in Nat /\ q \div Base = a /\ q % Base = b
    BY <1>1, LastDigit, BaseAssumption
<1>3. LengthOf(a, b, c) \in Nat /\ LengthOf(a, b, c) \div Base = q /\ LengthOf(a, b, c) % Base = c
    BY <1>1, <1>2, LastDigit, BaseAssumption DEF LengthOf
<1>4. a % Base = a
    BY <1>1, OneDigit
<1>5. LengthOf(a, b, c) <= MaxPayload
  <2>1. (a + 1) * Base <= Base * Base
      BY <1>1, BaseAssumption
  <2>2. q + 1 <= Base * Base
      BY <1>1, <2>1, BaseAssumption
  <2>3. (q + 1) * Base <= (Base * Base) * Base
      BY <1>2, <2>2, BaseAssumption
  <2>4. q * Base + c + 1 <= (q + 1) * Base
      BY <1>1, <1>2, BaseAssumption
  <2>5. QED
      BY <1>1, <1>2, <2>3, <2>4, BaseAssumption DEF LengthOf, MaxPayload
<1>6. QED
    BY <1>2, <1>3, <1>4, <1>5 DEF LengthBytes

LEMMA DigitsOfId ==
    ASSUME NEW a \in Byte, NEW b \in Byte, NEW c \in Byte, NEW d \in Byte
    PROVE  IdBytes(IdOf(a, b, c, d)) = <<a, b, c, d>> /\ IdOf(a, b, c, d) \in StreamIds
<1>1. a \in Nat /\ b \in Nat /\ c \in Nat /\ d \in Nat /\ a < Base
    BY BaseAssumption DEF Byte
<1> DEFINE q == a * Base + b
           r == q * Base + c
<1>2. q \in Nat /\ q \div Base = a /\ q % Base = b
    BY <1>1, LastDigit, BaseAssumption
<1> HIDE DEF q
<1>3. r \in Nat /\ r \div Base = q /\ r % Base = c
    BY <1>1, <1>2, LastDigit, BaseAssumption
<1>4. IdOf(a, b, c, d) = r * Base + d
    BY DEF q, IdOf
<1> HIDE DEF r
<1>4a. IdOf(a, b, c, d) \div Base = r /\ IdOf(a, b, c, d) % Base = d
    BY <1>3, <1>4, LastDigit
<1>5. a % Base = a
    BY <1>1, OneDigit
<1>6. IdBytes(IdOf(a, b, c, d)) = <<a, b, c, d>>
    BY <1>2, <1>3, <1>4a, <1>5 DEF IdBytes
<1>7. IdOf(a, b, c, d) \in StreamIds
  <2>1. q + 1 <= Base * Base
    <3>1. (a + 1) * Base <= Base * Base
        BY <1>1, BaseAssumption
    <3>2. b < Base
        BY <1>1, BaseAssumption DEF Byte
    <3>3. q + 1 <= (a + 1) * Base
        BY <1>1, <3>2, BaseAssumption DEF q
    <3>4. (a + 1) * Base \in Nat /\ Base * Base \in Nat
        BY <1>1, BaseAssumption
    <3>5. QED
        BY <1>2, <3>1, <3>3, <3>4
  <2>2. r + 1 <= Base * Base * Base
    <3>1. (q + 1) * Base <= (Base * Base) * Base
        BY <1>2, <2>1, BaseAssumption
    <3>2. r = q * Base + c /\ c < Base
        BY <1>1, BaseAssumption DEF r, Byte
    <3>3. r + 1 <= (q + 1) * Base
        BY <1>1, <1>2, <3>2, BaseAssumption
    <3>4. QED
        BY <1>3, <1>2, <3>1, <3>3, BaseAssumption
  <2>3. (r + 1) * Base <= (Base * Base * Base) * Base
      BY <1>3, <2>2, BaseAssumption
  <2>4. d < Base /\ d \in Nat
      BY <1>1, BaseAssumption DEF Byte
  <2>5. r * Base + d + 1 <= (r + 1) * Base
      BY <1>3, <2>4, BaseAssumption
  <2>6. QED
      BY <1>3, <1>4, <2>3, <2>4, <2>5, BaseAssumption DEF StreamIds
<1>8. QED
    BY <1>6, <1>7

\* What two strings put together hold, and where.
LEMMA TwoParts ==
    ASSUME NEW h \in Seq(Nat), NEW p \in Seq(Nat)
    PROVE  /\ h \o p \in Seq(Nat)
           /\ Len(h \o p) = Len(h) + Len(p)
           /\ \A i \in 1..Len(h) : (h \o p)[i] = h[i]
           /\ SubSeq(h \o p, Len(h) + 1, Len(h \o p)) = p
<1>1. h \o p \in Seq(Nat) /\ Len(h \o p) = Len(h) + Len(p)
      /\ \A i \in 1..Len(h) : (h \o p)[i] = h[i]
    BY ConcatProperties
<1>2. SubSeq(h \o p, Len(h) + 1, Len(h \o p)) = p
  <2>1. CASE p = << >>
      BY <2>1
  <2>2. CASE p # << >>
    <3>1. Len(p) \in Nat /\ Len(p) > 0 /\ Len(h) \in Nat
        BY <2>2, EmptySeq
    <3>2. SubSeq(h \o p, Len(h) + 1, Len(h) + Len(p)) = SubSeq(p, (Len(h) + 1) - Len(h), (Len(h) + Len(p)) - Len(h))
        BY <3>1, SubSeqOfConcat2
    <3>3. SubSeq(p, 1, Len(p)) = p
        BY SubSeqFull
    <3>4. (Len(h) + 1) - Len(h) = 1 /\ (Len(h) + Len(p)) - Len(h) = Len(p)
        BY <3>1
    <3>5. QED
        BY <1>1, <3>2, <3>3, <3>4
  <2>3. QED
      BY <2>1, <2>2
<1>3. QED
    BY <1>1, <1>2

\* The same of three: a header, a payload and what follows.
LEMMA ThreeParts ==
    ASSUME NEW h \in Seq(Nat), NEW p \in Seq(Nat), NEW r \in Seq(Nat)
    PROVE  /\ (h \o p) \o r \in Seq(Nat)
           /\ Len((h \o p) \o r) = Len(h) + Len(p) + Len(r)
           /\ \A i \in 1..Len(h) : ((h \o p) \o r)[i] = h[i]
           /\ SubSeq((h \o p) \o r, Len(h) + 1, Len(h) + Len(p)) = p
           /\ SubSeq((h \o p) \o r, Len(h) + Len(p) + 1, Len((h \o p) \o r)) = r
<1> DEFINE hp == h \o p
<1>1. hp \in Seq(Nat) /\ Len(hp) = Len(h) + Len(p)
      /\ \A i \in 1..Len(h) : hp[i] = h[i]
    BY TwoParts
<1>2. SubSeq(hp, Len(h) + 1, Len(hp)) = p
    BY TwoParts
<1>3. SubSeq(hp, Len(h) + 1, Len(h) + Len(p)) = p
    BY <1>1, <1>2
<1> HIDE DEF hp
<1>4. /\ hp \o r \in Seq(Nat) /\ Len(hp \o r) = Len(hp) + Len(r)
      /\ \A i \in 1..Len(hp) : (hp \o r)[i] = hp[i]
      /\ SubSeq(hp \o r, Len(hp) + 1, Len(hp \o r)) = r
    BY <1>1, TwoParts
<1>5. Len(h) \in Nat /\ Len(p) \in Nat /\ Len(r) \in Nat
    BY LenProperties
<1>6. SubSeq(hp \o r, Len(h) + 1, Len(h) + Len(p)) = p
  <2>1. CASE Len(p) = 0
      BY <2>1, <1>5, EmptySeq
  <2>2. CASE Len(p) # 0
    <3>1. Len(h) + 1 \in 1..Len(hp) /\ Len(h) + Len(p) \in 1..Len(hp)
        BY <2>2, <1>1, <1>5
    <3>2. SubSeq(hp \o r, Len(h) + 1, Len(h) + Len(p)) = SubSeq(hp, Len(h) + 1, Len(h) + Len(p))
        BY <1>1, <3>1, SubSeqOfConcat1
    <3>3. QED
        BY <1>3, <3>2
  <2>3. QED
      BY <2>1, <2>2
<1>7. QED
    BY <1>1, <1>3, <1>4, <1>6, <1>5 DEF hp

\* The header, byte by byte.
LEMMA HeaderParts ==
    ASSUME NEW t \in Nat, NEW a \in Nat, NEW b \in Nat, NEW c \in Nat, NEW d \in Nat,
           NEW x \in Nat, NEW y \in Nat, NEW z \in Nat
    PROVE  LET h == (<<t>> \o <<a, b, c, d>>) \o <<x, y, z>>
           IN  /\ h \in Seq(Nat) /\ Len(h) = 8
               /\ h[1] = t /\ h[2] = a /\ h[3] = b /\ h[4] = c /\ h[5] = d
               /\ h[6] = x /\ h[7] = y /\ h[8] = z
<1> DEFINE u == <<t>>  
           v == <<a, b, c, d>>
           w == <<x, y, z>>
           k == u \o v
<1>1. u \in Seq(Nat) /\ v \in Seq(Nat) /\ w \in Seq(Nat) /\ Len(u) = 1 /\ Len(v) = 4 /\ Len(w) = 3
    OBVIOUS
<1>2. u[1] = t /\ v[1] = a /\ v[2] = b /\ v[3] = c /\ v[4] = d /\ w[1] = x /\ w[2] = y /\ w[3] = z
    OBVIOUS
<1> HIDE DEF u, v, w
<1>3. k \in Seq(Nat) /\ Len(k) = 5 /\ \A i \in 1..5 : k[i] = IF i <= 1 THEN u[i] ELSE v[i - 1]
  <2>1. k \in Seq(Nat) /\ Len(k) = Len(u) + Len(v) 
       /\ \A i \in 1..(Len(u) + Len(v)) : k[i] = IF i <= Len(u) THEN u[i] ELSE v[i - Len(u)]
      BY <1>1, ConcatProperties
  <2>2. QED
      BY <1>1, <2>1
<1> HIDE DEF k
<1>4. k \o w \in Seq(Nat) /\ Len(k \o w) = 8 /\ \A i \in 1..8 : (k \o w)[i] = IF i <= 5 THEN k[i] ELSE w[i - 5]
  <2>1. k \o w \in Seq(Nat) /\ Len(k \o w) = Len(k) + Len(w) 
       /\ \A i \in 1..(Len(k) + Len(w)) : (k \o w)[i] = IF i <= Len(k) THEN k[i] ELSE w[i - Len(k)]
      BY <1>1, <1>3, ConcatProperties
  <2>2. Len(k) = 5 /\ Len(w) = 3 /\ Len(k) + Len(w) = 8
      BY <1>1, <1>3
  <2>3. QED
      BY <2>1, <2>2, Zenon
<1>5. k[1] = u[1] /\ k[2] = v[1] /\ k[3] = v[2] /\ k[4] = v[3] /\ k[5] = v[4]
    BY <1>3
<1>6. QED
    BY <1>2, <1>4, <1>5 DEF k, u, v, w

\* The header of an encoded frame spells its type, its id and its length.
LEMMA HeaderOfEncoding ==
    ASSUME NEW f \in Frame, Len(f.payload) <= MaxPayload
    PROVE  LET h == <<f.typ>> \o IdBytes(f.id) \o LengthBytes(Len(f.payload))
           IN  /\ h \in Seq(Nat) /\ Len(h) = 8
               /\ h[1] = f.typ
               /\ IdOf(h[2], h[3], h[4], h[5]) = f.id
               /\ LengthOf(h[6], h[7], h[8]) = Len(f.payload)
<1> DEFINE i == IdBytes(f.id)
           n == Len(f.payload)
           l == LengthBytes(n)
<1>1. f.typ \in Nat /\ f.id \in StreamIds /\ n \in 0..MaxPayload
  <2>1. f.typ \in Byte /\ f.id \in StreamIds /\ f.payload \in Seq(Byte)
      BY DEF Frame
  <2>2. n \in Nat
      BY <2>1, LenProperties
  <2>3. MaxPayload \in Nat
      BY BaseAssumption DEF MaxPayload
  <2>4. f.typ \in Nat
      BY <2>1, BytesAreNumbers
  <2>5. QED
      BY <2>1, <2>2, <2>3, <2>4
<1>2. /\ IdOf(i[1], i[2], i[3], i[4]) = f.id /\ LengthOf(l[1], l[2], l[3]) = n
      /\ i[1] \in Byte /\ i[2] \in Byte /\ i[3] \in Byte /\ i[4] \in Byte
      /\ l[1] \in Byte /\ l[2] \in Byte /\ l[3] \in Byte
    BY <1>1, IdDigits, LengthDigits
<1>3. i = <<i[1], i[2], i[3], i[4]>>
    BY DEF IdBytes
<1>4. l = <<l[1], l[2], l[3]>>
    BY DEF LengthBytes
<1> HIDE DEF i, l, n
<1>5. i[1] \in Nat /\ i[2] \in Nat /\ i[3] \in Nat /\ i[4] \in Nat
      /\ l[1] \in Nat /\ l[2] \in Nat /\ l[3] \in Nat
    BY <1>2, BaseAssumption DEF Byte
<1> DEFINE h == (<<f.typ>> \o <<i[1], i[2], i[3], i[4]>>) \o <<l[1], l[2], l[3]>>
<1>6. /\ h \in Seq(Nat) /\ Len(h) = 8
      /\ h[1] = f.typ /\ h[2] = i[1] /\ h[3] = i[2] /\ h[4] = i[3] /\ h[5] = i[4]
      /\ h[6] = l[1] /\ h[7] = l[2] /\ h[8] = l[3]
    BY <1>1, <1>5, HeaderParts
<1>7. h = (<<f.typ>> \o i) \o l
    BY <1>3, <1>4
<1> HIDE DEF h
<1>8. QED
    BY <1>2, <1>6, <1>7 DEF i, l, n

\* What is encoded is what is decoded first, whatever bytes come after it: two
\* frames of a batch never run into each other (encode_inner and one turn of
\* decode_inner_all's loop).
THEOREM EncodedIsDecoded ==
    ASSUME NEW f \in Frame, Len(f.payload) <= MaxPayload, NEW rest \in Seq(Byte)
    PROVE  /\ Whole(EncodeInner(f) \o rest)
           /\ First(EncodeInner(f) \o rest) = f
           /\ Rest(EncodeInner(f) \o rest) = rest
<1> DEFINE h == <<f.typ>> \o IdBytes(f.id) \o LengthBytes(Len(f.payload))
           p == f.payload
           n == Len(p)
           input == (h \o p) \o rest
<1>1. p \in Seq(Nat) /\ n \in Nat /\ rest \in Seq(Nat) /\ Len(rest) \in Nat
    BY LenProperties, BytesAreNumbers DEF Frame
<1>2. /\ h \in Seq(Nat) /\ Len(h) = 8
      /\ h[1] = f.typ
      /\ IdOf(h[2], h[3], h[4], h[5]) = f.id
      /\ LengthOf(h[6], h[7], h[8]) = n
    BY HeaderOfEncoding
<1>3. EncodeInner(f) \o rest = input
    BY DEF EncodeInner
<1> HIDE DEF h, p, n
<1>4. /\ Len(input) = Len(h) + Len(p) + Len(rest)
      /\ \A i \in 1..Len(h) : input[i] = h[i]
      /\ SubSeq(input, Len(h) + 1, Len(h) + Len(p)) = p
      /\ SubSeq(input, Len(h) + Len(p) + 1, Len(input)) = rest
  <2>1. h \in Seq(Nat) /\ p \in Seq(Nat) /\ rest \in Seq(Nat)
      BY <1>1, <1>2
  <2>2. Len((h \o p) \o rest) = Len(h) + Len(p) + Len(rest)
      BY ONLY <2>1, ThreeParts
  <2>3. \A i \in 1..Len(h) : ((h \o p) \o rest)[i] = h[i]
      BY ONLY <2>1, ThreeParts
  <2>4. SubSeq((h \o p) \o rest, Len(h) + 1, Len(h) + Len(p)) = p
      BY ONLY <2>1, ThreeParts
  <2>5. SubSeq((h \o p) \o rest, Len(h) + Len(p) + 1, Len((h \o p) \o rest)) = rest
      BY ONLY <2>1, ThreeParts
  <2>6. QED
      BY <2>2, <2>3, <2>4, <2>5 DEF input
<1> HIDE DEF input
<1>5. /\ Len(input) = 8 + n + Len(rest)
      /\ SubSeq(input, 8 + 1, 8 + n) = p /\ SubSeq(input, 8 + n + 1, Len(input)) = rest
      /\ input[1] = h[1] /\ input[2] = h[2] /\ input[3] = h[3] /\ input[4] = h[4]
      /\ input[5] = h[5] /\ input[6] = h[6] /\ input[7] = h[7] /\ input[8] = h[8]
    BY <1>2, <1>4 DEF n
<1>6. PayloadLen(input) = n
    BY <1>2, <1>5 DEF PayloadLen
<1>7. Whole(input)
    BY <1>1, <1>5, <1>6 DEF Whole, HasHeader, HeaderLen
<1>8. First(input) = [typ |-> f.typ, id |-> f.id, payload |-> f.payload]
  <2>1. HeaderLen + 1 = 8 + 1 /\ HeaderLen + PayloadLen(input) = 8 + n
      BY <1>1, <1>6 DEF HeaderLen
  <2>2. SubSeq(input, HeaderLen + 1, HeaderLen + PayloadLen(input)) = f.payload
      BY <1>5, <2>1 DEF p
  <2>3. IdOf(input[2], input[3], input[4], input[5]) = f.id /\ input[1] = f.typ
      BY <1>2, <1>5
  <2>4. QED
      BY <2>2, <2>3 DEF First
<1>9. First(input) = f
    BY <1>8 DEF Frame
<1>10. Rest(input) = rest
    BY <1>5, <1>6 DEF Rest, HeaderLen
<1>11. QED
    BY <1>3, <1>7, <1>9, <1>10

\* What is taken off a buffer as one frame is the encoding of that frame, and
\* nothing is lost or invented between it and the rest: decode_inner_all can
\* only hand on frames whose bytes the sealed payload really holds.
THEOREM DecodedIsEncoded ==
    ASSUME NEW bytes \in Seq(Byte), Whole(bytes)
    PROVE  /\ First(bytes) \in Frame /\ Rest(bytes) \in Seq(Byte)
           /\ EncodeInner(First(bytes)) \o Rest(bytes) = bytes
<1> DEFINE n == PayloadLen(bytes)
           f == First(bytes)
           p == SubSeq(bytes, 8 + 1, 8 + n)
<1>1. /\ bytes[2] \in Byte /\ bytes[3] \in Byte /\ bytes[4] \in Byte /\ bytes[5] \in Byte
      /\ bytes[6] \in Byte /\ bytes[7] \in Byte /\ bytes[8] \in Byte
  <2>1. Len(bytes) \in Nat /\ Len(bytes) >= 8
      BY LenProperties DEF Whole, HasHeader, HeaderLen
  <2>2. QED
      BY <2>1, ElementOfSeq
<1>1a. bytes \in Seq(Nat)
    BY BytesAreNumbers
<1>2. n \in Nat /\ Len(bytes) \in Nat /\ Len(bytes) >= 8 + n
  <2>1. n \in Nat
    <3>1. n \in 0..MaxPayload
        BY <1>1, DigitsOfLength DEF PayloadLen
    <3>2. MaxPayload \in Int
        BY BaseAssumption DEF MaxPayload
    <3>3. QED
        BY <3>1, <3>2
  <2>2. QED
      BY <2>1, LenProperties DEF Whole, HasHeader, HeaderLen
<1>3. f.typ = bytes[1] /\ f.payload = p /\ IdBytes(f.id) = <<bytes[2], bytes[3], bytes[4], bytes[5]>>
  <2>1. f = [typ |-> bytes[1], id |-> IdOf(bytes[2], bytes[3], bytes[4], bytes[5]), payload |-> p]
    <3>1. HeaderLen + 1 = 8 + 1 /\ HeaderLen + n = 8 + n
        BY <1>2 DEF HeaderLen
    <3>2. QED
        BY <3>1 DEF First
  <2> HIDE DEF f, p
  <2>2. f.typ = bytes[1] /\ f.payload = p /\ f.id = IdOf(bytes[2], bytes[3], bytes[4], bytes[5])
      BY <2>1
  <2>3. IdBytes(IdOf(bytes[2], bytes[3], bytes[4], bytes[5])) = <<bytes[2], bytes[3], bytes[4], bytes[5]>>
      BY <1>1, DigitsOfId
  <2>4. QED
      BY <2>2, <2>3
<1>4. Len(p) = n
  <2>1. \A i \in (8 + 1)..(8 + n) : bytes[i] \in Nat
      BY <1>1a, <1>2, ElementOfSeq
  <2>2. Len(p) = IF 8 + 1 <= 8 + n THEN (8 + n) - (8 + 1) + 1 ELSE 0
      BY <1>2, <2>1, SubSeqProperties
  <2>3. QED
      BY <1>2, <2>2
<1>5. LengthBytes(Len(f.payload)) = <<bytes[6], bytes[7], bytes[8]>>
  <2>1. LengthBytes(n) = <<bytes[6], bytes[7], bytes[8]>>
      BY <1>1, DigitsOfLength DEF PayloadLen
  <2>2. QED
      BY <1>3, <1>4, <2>1
<1> HIDE DEF n, f, p
<1> DEFINE h == SubSeq(bytes, 1, 8)
<1>6. (<<bytes[1]>> \o <<bytes[2], bytes[3], bytes[4], bytes[5]>>) \o <<bytes[6], bytes[7], bytes[8]>> = h
  <2> DEFINE g == (<<bytes[1]>> \o <<bytes[2], bytes[3], bytes[4], bytes[5]>>) \o <<bytes[6], bytes[7], bytes[8]>>
  <2>1. \A i \in 1..8 : bytes[i] \in Nat
      BY <1>1a, <1>2, ElementOfSeq
  <2>2. /\ g \in Seq(Nat) /\ Len(g) = 8
        /\ g[1] = bytes[1] /\ g[2] = bytes[2] /\ g[3] = bytes[3] /\ g[4] = bytes[4]
        /\ g[5] = bytes[5] /\ g[6] = bytes[6] /\ g[7] = bytes[7] /\ g[8] = bytes[8]
      BY <2>1, HeaderParts
  <2>3. /\ h \in Seq(Nat) /\ Len(h) = 8
        /\ \A i \in 1..8 : h[i] = bytes[i]
    <3>1. /\ h \in Seq(Nat) /\ Len(h) = IF 1 <= 8 THEN 8 - 1 + 1 ELSE 0
          /\ \A i \in 1..(8 - 1 + 1) : h[i] = bytes[1 + i - 1]
        BY <2>1, SubSeqProperties
    <3>2. QED
        BY <3>1
  <2> HIDE DEF g, h
  <2>4. g[1] = h[1] /\ g[2] = h[2] /\ g[3] = h[3] /\ g[4] = h[4]
        /\ g[5] = h[5] /\ g[6] = h[6] /\ g[7] = h[7] /\ g[8] = h[8]
      BY <2>2, <2>3
  <2>5. \A i \in 1..8 : g[i] = h[i]
      BY <2>4
  <2>6. g = h
      BY <2>2, <2>3, <2>5, SeqEqual
  <2>7. QED
      BY <2>6 DEF g
<1>7. EncodeInner(f) = h \o p
    BY <1>3, <1>5, <1>6 DEF EncodeInner
<1>8. SubSeq(bytes, 1, 8) \o SubSeq(bytes, 8 + 1, 8 + n) = SubSeq(bytes, 1, 8 + n)
    BY <1>2, ConcatAdjacentSubSeq
<1>9. SubSeq(bytes, 1, 8 + n) \o SubSeq(bytes, 8 + n + 1, Len(bytes)) = SubSeq(bytes, 1, Len(bytes))
  <2>1. /\ 1 \in 1..(Len(bytes) + 1) /\ 8 + n \in (1 - 1)..Len(bytes)
        /\ Len(bytes) \in (8 + n)..Len(bytes)
      BY <1>2
  <2>2. QED
      BY <2>1, ConcatAdjacentSubSeq, Zenon
<1>10. Rest(bytes) = SubSeq(bytes, 8 + n + 1, Len(bytes))
    BY DEF Rest, HeaderLen, n
<1>11. EncodeInner(f) \o Rest(bytes) = bytes
    BY <1>7, <1>8, <1>9, <1>10, SubSeqFull DEF p, h
<1>12. f \in Frame
  <2>1. f = [typ |-> f.typ, id |-> f.id, payload |-> f.payload]
        /\ f.id = IdOf(bytes[2], bytes[3], bytes[4], bytes[5])
      BY DEF f, First
  <2>2. f.typ \in Byte
      BY <1>2, <1>3, ElementOfSeq
  <2>3. f.id \in StreamIds
    <3>1. IdOf(bytes[2], bytes[3], bytes[4], bytes[5]) \in StreamIds
        BY <1>1, DigitsOfId
    <3>2. QED
        BY <2>1, <3>1
  <2>4. f.payload \in Seq(Byte)
    <3>1. \A i \in (8 + 1)..(8 + n) : bytes[i] \in Byte
        BY <1>2, ElementOfSeq
    <3>2. p \in Seq(Byte)
        BY <1>2, <3>1, SubSeqProperties DEF p
    <3>3. QED
        BY <1>3, <3>2
  <2> HIDE DEF f
  <2>5. QED
      BY <2>1, <2>2, <2>3, <2>4 DEF Frame
<1>13. Rest(bytes) \in Seq(Byte)
  <2>1. \A i \in (8 + n + 1)..Len(bytes) : bytes[i] \in Byte
      BY <1>2, ElementOfSeq
  <2>2. QED
      BY <1>2, <1>10, <2>1, SubSeqProperties
<1>14. QED
    BY <1>11, <1>12, <1>13 DEF f

(***************************************************************************)
(* Induction, and functions defined by recursion, over the numbers.        *)
(***************************************************************************)

\* A set of numbers with 0 in it and closed under the next one is all of them.
LEMMA NatSets ==
    ASSUME NEW T \in SUBSET Nat, 0 \in T, \A n \in T : n + 1 \in T
    PROVE  T = Nat
<1> DEFINE Left == Nat \ T
           Below == OpToRel(<, Nat)
<1>1. SUFFICES ASSUME Left # {} PROVE FALSE
    OBVIOUS
<1>2. IsWellFoundedOn(Below, Nat)
    BY NatLessThanWellFounded
<1>3. \A y, x \in Nat : y < x => <<y, x>> \in Below
    BY DEF OpToRel
<1> HIDE DEF Below
<1>4. \E x \in Left : \A y \in Left : <<y, x>> \notin Below
  <2>1. Left \subseteq Nat
      OBVIOUS
  <2> HIDE DEF Left
  <2>2. QED
      BY <1>1, <1>2, <2>1, WFMin
<1>5. PICK n \in Left : \A y \in Left : <<y, n>> \notin Below
    BY <1>4
<1>6. n \in Nat /\ n \notin T /\ n # 0
    BY <1>5
<1>7. n - 1 \in Nat /\ n - 1 < n /\ (n - 1) + 1 = n
    BY <1>6
<1>8. n - 1 \in T
  <2>1. SUFFICES ASSUME n - 1 \notin T PROVE FALSE
      OBVIOUS
  <2>2. n - 1 \in Left
      BY <1>7, <2>1
  <2>3. QED
      BY <1>3, <1>5, <1>6, <1>7, <2>2
<1>9. QED
    BY <1>6, <1>7, <1>8

\* f starts with first and goes on by step.
Recursion(f, R, first, N, step) ==
    /\ f \in [0..N -> R] /\ f[0] = first
    /\ \A n \in 1..N : f[n] = step[<<n, f[n - 1]>>]

\* There is a function for every start and step.
LEMMA RecursiveFunction ==
    ASSUME NEW R, NEW first \in R, NEW N \in Nat, NEW step \in [(1..N) \X R -> R]
    PROVE  \E f : Recursion(f, R, first, N, step)
<1> DEFINE Upto(n, f) == f[0] = first /\ \A i \in 1..n : f[i] = step[<<i, f[i - 1]>>]
           T == {n \in Nat : n <= N => \E f \in [0..n -> R] : Upto(n, f)}
<1>1. 0 \in T
  <2>1. [i \in 0..0 |-> first] \in [0..0 -> R] /\ Upto(0, [i \in 0..0 |-> first])
      OBVIOUS
  <2>2. QED
      BY <2>1
<1>2. ASSUME NEW n \in T PROVE n + 1 \in T
  <2>1. SUFFICES ASSUME n + 1 <= N PROVE \E f \in [0..(n + 1) -> R] : Upto(n + 1, f)
      OBVIOUS
  <2>2. PICK f \in [0..n -> R] : Upto(n, f)
      BY <2>1
  <2> DEFINE g == [i \in 0..(n + 1) |-> IF i = n + 1 THEN step[<<n + 1, f[n]>>] ELSE f[i]]
  <2>3. n \in Nat /\ n + 1 \in 1..N /\ f[n] \in R /\ step[<<n + 1, f[n]>>] \in R
      BY <2>1, <2>2
  <2>4. \A i \in 0..n : g[i] = f[i] /\ f[i] \in R
      BY <2>2, <2>3
  <2>5. g[n + 1] = step[<<n + 1, f[n]>>] /\ DOMAIN g = 0..(n + 1)
      BY <2>3
  <2>6. g \in [0..(n + 1) -> R]
      BY <2>2, <2>3
  <2> HIDE DEF g
  <2>7. ASSUME NEW i \in 1..(n + 1) PROVE g[i] = step[<<i, g[i - 1]>>]
    <3>1. CASE i = n + 1
      <4>1. i - 1 = n /\ n \in 0..n
          BY <3>1, <2>3
      <4>2. g[i - 1] = f[n]
          BY <4>1, <2>4
      <4>3. QED
          BY <3>1, <4>2, <2>5
    <3>2. CASE i # n + 1
      <4>1. i \in 1..n /\ i \in 0..n /\ i - 1 \in 0..n
          BY <3>2, <2>3
      <4>2. QED
          BY <4>1, <2>2, <2>4
    <3>3. QED
        BY <3>1, <3>2
  <2>8. g[0] = first
      BY <2>2, <2>3, <2>4
  <2>9. QED
      BY <2>6, <2>7, <2>8
<1>3. T = Nat
  <2>1. T \in SUBSET Nat
      OBVIOUS
  <2> HIDE DEF T
  <2>2. QED
      BY <1>1, <1>2, <2>1, NatSets
<1>4. N \in T
    BY <1>3
<1>5. QED
    BY <1>4 DEF Recursion

(***************************************************************************)
(* What is selected from a sequence.                                       *)
(***************************************************************************)

\* k[n] is what is selected from the first n elements of s.
Kept(k, S, s, chosen) ==
    /\ k \in [0..Len(s) -> Seq(S)] /\ k[0] = << >>
    /\ \A n \in 1..Len(s) : k[n] = IF n \in chosen THEN Append(k[n - 1], s[n]) ELSE k[n - 1]

\* The recursion of Selected, unfolded.
LEMMA SelectedByRecursion ==
    ASSUME NEW S, NEW s \in Seq(S), NEW chosen
    PROVE  \E k : Kept(k, S, s, chosen) /\ Selected(s, chosen) = k[Len(s)]
<1> DEFINE N == Len(s)
           step == [p \in (1..N) \X Seq(S) |->
                       IF p[1] \in chosen THEN Append(p[2], s[p[1]]) ELSE p[2]]
           kept[n \in 0..N] ==
               IF n = 0 THEN << >>
               ELSE IF n \in chosen THEN Append(kept[n - 1], s[n]) ELSE kept[n - 1]
<1>1. N \in Nat /\ << >> \in Seq(S) /\ \A n \in 1..N : s[n] \in S
    BY LenProperties, ElementOfSeq
<1>2. Selected(s, chosen) = kept[N]
    BY DEF Selected
<1>3. step \in [(1..N) \X Seq(S) -> Seq(S)]
    BY <1>1, AppendProperties
<1> HIDE DEF N
<1>4. \A n \in 1..N, b \in Seq(S) :
         step[<<n, b>>] = IF n \in chosen THEN Append(b, s[n]) ELSE b
    OBVIOUS
<1> HIDE DEF step
<1>5. PICK k \in [0..N -> Seq(S)] :
         k[0] = << >> /\ \A n \in 1..N : k[n] = step[<<n, k[n - 1]>>]
  <2>1. \E k : Recursion(k, Seq(S), << >>, N, step)
      BY <1>1, <1>3, RecursiveFunction
  <2>2. QED
      BY <2>1 DEF Recursion
<1>6. ASSUME NEW n \in 1..N
      PROVE  k[n] = IF n \in chosen THEN Append(k[n - 1], s[n]) ELSE k[n - 1]
  <2>1. n - 1 \in 0..N
      BY <1>1
  <2>2. QED
      BY <1>4, <1>5, <2>1
<1>7. kept = [n \in 0..N |-> IF n = 0 THEN << >>
                 ELSE IF n \in chosen THEN Append(kept[n - 1], s[n]) ELSE kept[n - 1]]
  <2>1. SUFFICES \E c : c = [n \in 0..N |-> IF n = 0 THEN << >>
                 ELSE IF n \in chosen THEN Append(c[n - 1], s[n]) ELSE c[n - 1]]
      BY Zenon
  <2>2. ASSUME NEW n \in 0..N
        PROVE  k[n] = IF n = 0 THEN << >>
                      ELSE IF n \in chosen THEN Append(k[n - 1], s[n]) ELSE k[n - 1]
    <3>1. n # 0 => n \in 1..N
        BY <1>1
    <3>2. QED
        BY <1>5, <1>6, <3>1
  <2>3. k = [n \in 0..N |-> IF n = 0 THEN << >>
                 ELSE IF n \in chosen THEN Append(k[n - 1], s[n]) ELSE k[n - 1]]
      BY <1>5, <2>2
  <2>4. QED
      BY <2>3
<1> HIDE DEF kept
<1> DEFINE Same == {n \in Nat : n <= N => kept[n] = k[n]}
<1>8. Same = Nat
  <2>1. 0 \in Same
      BY <1>1, <1>5, <1>7
  <2>2. ASSUME NEW n \in Same PROVE n + 1 \in Same
    <3>1. SUFFICES ASSUME n + 1 <= N PROVE kept[n + 1] = k[n + 1]
        OBVIOUS
    <3>2. n \in Nat /\ kept[n] = k[n] /\ n + 1 \in 1..N /\ n + 1 \in 0..N
          /\ (n + 1) - 1 = n /\ n + 1 # 0
        BY <1>1, <3>1
    <3>3. kept[n + 1] = IF n + 1 \in chosen THEN Append(kept[n], s[n + 1]) ELSE kept[n]
        BY <1>7, <3>2
    <3>4. k[n + 1] = IF n + 1 \in chosen THEN Append(k[n], s[n + 1]) ELSE k[n]
        BY <1>6, <3>2
    <3>5. QED
        BY <3>2, <3>3, <3>4
  <2>3. Same \in SUBSET Nat
      OBVIOUS
  <2> HIDE DEF Same
  <2>4. QED
      BY <2>1, <2>2, <2>3, NatSets
<1>9. kept[N] = k[N]
  <2>1. N \in Same
      BY <1>1, <1>8
  <2>2. QED
      BY <1>1, <2>1
<1>10. Kept(k, S, s, chosen)
    BY <1>5, <1>6 DEF Kept, N
<1>11. QED
    BY <1>2, <1>9, <1>10 DEF N

\* What is selected are elements of the sequence at the places chosen.
LEMMA SelectedElements ==
    ASSUME NEW S, NEW s \in Seq(S), NEW chosen
    PROVE  /\ Selected(s, chosen) \in Seq(S)
           /\ \A j \in 1..Len(Selected(s, chosen)) :
                 \E i \in 1..Len(s) : i \in chosen /\ Selected(s, chosen)[j] = s[i]
<1> DEFINE N == Len(s)
<1>0. PICK k : Kept(k, S, s, chosen) /\ Selected(s, chosen) = k[N]
    BY SelectedByRecursion
<1>1. /\ k \in [0..N -> Seq(S)] /\ k[0] = << >>
      /\ \A n \in 1..N : k[n] = IF n \in chosen THEN Append(k[n - 1], s[n]) ELSE k[n - 1]
    BY <1>0 DEF Kept
<1>2. N \in Nat /\ \A n \in 1..N : s[n] \in S
    BY LenProperties, ElementOfSeq
<1> HIDE DEF N
<1> DEFINE From(q) == \A j \in 1..Len(q) : \E i \in 1..N : i \in chosen /\ q[j] = s[i]
           T == {n \in Nat : n <= N => From(k[n])}
<1>3. 0 \in T
  <2>1. Len(k[0]) = 0
      BY <1>1
  <2>2. QED
      BY <2>1
<1>4. ASSUME NEW n \in T PROVE n + 1 \in T
  <2>1. SUFFICES ASSUME n + 1 <= N PROVE From(k[n + 1])
      OBVIOUS
  <2>1a. n \in Nat /\ n \in 0..N /\ n + 1 \in 1..N /\ (n + 1) - 1 = n
      BY <1>2, <2>1
  <2>1b. From(k[n])
      BY <2>1a
  <2>2. n \in Nat /\ n \in 0..N /\ n + 1 \in 1..N /\ (n + 1) - 1 = n /\ From(k[n])
      BY <2>1a, <2>1b
  <2>3. k[n + 1] = IF n + 1 \in chosen THEN Append(k[n], s[n + 1]) ELSE k[n]
      BY <1>1, <2>2
  <2>4. CASE n + 1 \notin chosen
      BY <2>2, <2>3, <2>4
  <2>5. CASE n + 1 \in chosen
    <3> DEFINE q == k[n]
               r == k[n + 1]
    <3>1. q \in Seq(S) /\ r = Append(q, s[n + 1]) /\ s[n + 1] \in S
        BY <1>1, <1>2, <2>2, <2>3, <2>5
    <3>2. Len(q) \in Nat /\ Len(r) = Len(q) + 1 /\ r[Len(q) + 1] = s[n + 1]
          /\ \A j \in 1..Len(q) : r[j] = q[j]
        BY <3>1, AppendProperties, LenProperties
    <3> HIDE DEF q, r
    <3>3. ASSUME NEW j \in 1..Len(r) PROVE \E i \in 1..N : i \in chosen /\ r[j] = s[i]
      <4>1. CASE j = Len(q) + 1
          BY <2>2, <2>5, <3>2, <4>1
      <4>2. CASE j # Len(q) + 1
        <5>1. j \in 1..Len(q)
            BY <3>2, <4>2
        <5>2. QED
            BY <2>2, <3>2, <5>1 DEF q
      <4>3. QED
          BY <4>1, <4>2
    <3>4. QED
        BY <3>3 DEF r
  <2>6. QED
      BY <2>4, <2>5
<1>5. T = Nat
  <2>1. T \in SUBSET Nat
      OBVIOUS
  <2> HIDE DEF T
  <2>2. QED
      BY <1>3, <1>4, <2>1, NatSets
<1>6. N \in T
    BY <1>2, <1>5
<1>7. QED
  <2>1. Selected(s, chosen) = k[N] /\ k[N] \in Seq(S) /\ From(k[N])
      BY <1>0, <1>1, <1>2, <1>6
  <2>2. QED
      BY <2>1 DEF N

(***************************************************************************)
(* The payload of a batch.                                                 *)
(***************************************************************************)

\* A frame is spelled by bytes, and by at least those of its header.
LEMMA EncodingIsBytes ==
    ASSUME NEW f \in Frame
    PROVE  EncodeInner(f) \in Seq(Byte) /\ EncodeInner(f) # << >>
<1> DEFINE n == Len(f.payload)
           t == <<f.typ>>
           i == IdBytes(f.id)
           l == LengthBytes(n)
<1>1. f.typ \in Byte /\ f.id \in Nat /\ f.payload \in Seq(Byte) /\ n \in Nat
    BY LenProperties DEF Frame, StreamIds
<1>2. t \in Seq(Byte) /\ Len(t) = 1
    BY <1>1
<1>3. i \in Seq(Byte)
  <2> DEFINE q1 == f.id \div Base
             q2 == q1 \div Base
             q3 == q2 \div Base
  <2>1. q1 \in Nat /\ q2 \in Nat /\ q3 \in Nat
      BY <1>1, Division
  <2>2. q3 % Base \in Byte /\ q2 % Base \in Byte /\ q1 % Base \in Byte /\ f.id % Base \in Byte
      BY <1>1, <2>1, Division
  <2>3. i = <<q3 % Base, q2 % Base, q1 % Base, f.id % Base>>
      BY DEF IdBytes
  <2> HIDE DEF i, q1, q2, q3
  <2>4. QED
      BY <2>2, <2>3
<1>4. l \in Seq(Byte)
  <2> DEFINE q1 == n \div Base
             q2 == q1 \div Base
  <2>1. q1 \in Nat /\ q2 \in Nat
      BY <1>1, Division
  <2>2. q2 % Base \in Byte /\ q1 % Base \in Byte /\ n % Base \in Byte
      BY <1>1, <2>1, Division
  <2>3. l = <<q2 % Base, q1 % Base, n % Base>>
      BY DEF LengthBytes
  <2> HIDE DEF l, q1, q2
  <2>4. QED
      BY <2>2, <2>3
<1>5. EncodeInner(f) = ((t \o i) \o l) \o f.payload
    BY DEF EncodeInner
<1> HIDE DEF t, i, l
<1>6. t \o i \in Seq(Byte) /\ Len(t \o i) >= 1
    BY <1>2, <1>3, ConcatProperties, LenProperties
<1> DEFINE h == (t \o i) \o l
           p == f.payload
<1>7. h \in Seq(Byte) /\ Len(h) \in Nat /\ Len(h) >= 1
    BY <1>6, <1>4, ConcatProperties, LenProperties
<1>7a. EncodeInner(f) = h \o p /\ p \in Seq(Byte) /\ Len(p) \in Nat
    BY <1>5, <1>1
<1> HIDE DEF h, p
<1>8. h \o p \in Seq(Byte) /\ Len(h \o p) = Len(h) + Len(p)
    BY <1>7, <1>7a, ConcatProperties
<1>9. Len(h \o p) # 0
    BY <1>7, <1>7a, <1>8
<1>10. QED
    BY <1>7a, <1>8, <1>9, EmptySeq

\* b[n] are the bytes of the first n frames of s.
Spelled(b, s) ==
    /\ b \in [0..Len(s) -> Seq(Byte)] /\ b[0] = << >>
    /\ \A n \in 1..Len(s) : b[n] = b[n - 1] \o EncodeInner(s[n])

\* The recursion of Payload, unfolded.
LEMMA PayloadByRecursion ==
    ASSUME NEW s \in Seq(Frame)
    PROVE  \E b : Spelled(b, s) /\ Payload(s) = b[Len(s)]
<1> DEFINE N == Len(s)
           step == [p \in (1..N) \X Seq(Byte) |-> p[2] \o EncodeInner(s[p[1]])]
           bytes[n \in 0..N] == IF n = 0 THEN << >> ELSE bytes[n - 1] \o EncodeInner(s[n])
<1>1. N \in Nat /\ << >> \in Seq(Byte) /\ \A n \in 1..N : EncodeInner(s[n]) \in Seq(Byte)
    BY LenProperties, ElementOfSeq, EncodingIsBytes
<1>2. Payload(s) = bytes[N]
    BY DEF Payload
<1>3. step \in [(1..N) \X Seq(Byte) -> Seq(Byte)]
    BY <1>1, ConcatProperties
<1> HIDE DEF N
<1>4. \A n \in 1..N, b \in Seq(Byte) : step[<<n, b>>] = b \o EncodeInner(s[n])
    OBVIOUS
<1> HIDE DEF step
<1>5. PICK b \in [0..N -> Seq(Byte)] :
         b[0] = << >> /\ \A n \in 1..N : b[n] = step[<<n, b[n - 1]>>]
  <2>1. \E b : Recursion(b, Seq(Byte), << >>, N, step)
      BY <1>1, <1>3, RecursiveFunction
  <2>2. QED
      BY <2>1 DEF Recursion
<1>6. ASSUME NEW n \in 1..N PROVE b[n] = b[n - 1] \o EncodeInner(s[n])
  <2>1. n - 1 \in 0..N
      BY <1>1
  <2>2. QED
      BY <1>4, <1>5, <2>1
<1>7. bytes = [n \in 0..N |-> IF n = 0 THEN << >> ELSE bytes[n - 1] \o EncodeInner(s[n])]
  <2>1. SUFFICES \E c : c = [n \in 0..N |-> IF n = 0 THEN << >> ELSE c[n - 1] \o EncodeInner(s[n])]
      BY Zenon
  <2>2. ASSUME NEW n \in 0..N
        PROVE  b[n] = IF n = 0 THEN << >> ELSE b[n - 1] \o EncodeInner(s[n])
    <3>1. n # 0 => n \in 1..N
        BY <1>1
    <3>2. QED
        BY <1>5, <1>6, <3>1
  <2>3. b = [n \in 0..N |-> IF n = 0 THEN << >> ELSE b[n - 1] \o EncodeInner(s[n])]
      BY <1>5, <2>2
  <2>4. QED
      BY <2>3
<1> HIDE DEF bytes
<1> DEFINE Same == {n \in Nat : n <= N => bytes[n] = b[n]}
<1>8. Same = Nat
  <2>1. 0 \in Same
      BY <1>1, <1>5, <1>7
  <2>2. ASSUME NEW n \in Same PROVE n + 1 \in Same
    <3>1. SUFFICES ASSUME n + 1 <= N PROVE bytes[n + 1] = b[n + 1]
        OBVIOUS
    <3>2. n \in Nat /\ bytes[n] = b[n] /\ n + 1 \in 1..N /\ n + 1 \in 0..N
          /\ (n + 1) - 1 = n /\ n + 1 # 0
        BY <1>1, <3>1
    <3>3. bytes[n + 1] = bytes[n] \o EncodeInner(s[n + 1])
        BY <1>7, <3>2
    <3>4. b[n + 1] = b[n] \o EncodeInner(s[n + 1])
        BY <1>6, <3>2
    <3>5. QED
        BY <3>2, <3>3, <3>4
  <2>3. Same \in SUBSET Nat
      OBVIOUS
  <2> HIDE DEF Same
  <2>4. QED
      BY <2>1, <2>2, <2>3, NatSets
<1>9. bytes[N] = b[N]
  <2>1. N \in Same
      BY <1>1, <1>8
  <2>2. QED
      BY <1>1, <2>1
<1>10. Spelled(b, s)
    BY <1>5, <1>6 DEF Spelled, N
<1>11. QED
    BY <1>2, <1>9, <1>10 DEF N

\* Batches that begin with the same frames begin with the same bytes.
LEMMA SamePrefix ==
    ASSUME NEW s, NEW t, NEW b, NEW c, Spelled(b, s), Spelled(c, t),
           NEW m \in Nat, Len(s) \in Nat, Len(t) \in Nat, m <= Len(s), m <= Len(t),
           \A i \in 1..m : s[i] = t[i]
    PROVE  b[m] = c[m]
<1> DEFINE Same == {n \in Nat : n <= m => b[n] = c[n]}
<1>1. 0 \in Same
    BY DEF Spelled
<1>2. ASSUME NEW n \in Same PROVE n + 1 \in Same
  <2>1. SUFFICES ASSUME n + 1 <= m PROVE b[n + 1] = c[n + 1]
      OBVIOUS
  <2>2. n \in Nat /\ b[n] = c[n] /\ n + 1 \in 1..m /\ n + 1 \in 1..Len(s) /\ n + 1 \in 1..Len(t)
        /\ (n + 1) - 1 = n
      BY <2>1
  <2>3. b[n + 1] = b[n] \o EncodeInner(s[n + 1])
      BY <2>2 DEF Spelled
  <2>4. c[n + 1] = c[n] \o EncodeInner(t[n + 1])
      BY <2>2 DEF Spelled
  <2>5. QED
      BY <2>2, <2>3, <2>4
<1>3. Same = Nat
  <2>1. Same \in SUBSET Nat
      OBVIOUS
  <2> HIDE DEF Same
  <2>2. QED
      BY <1>1, <1>2, <2>1, NatSets
<1>4. m \in Same
    BY <1>3
<1>5. QED
    BY <1>4

\* The payload of a batch is bytes, none for no frames.
LEMMA PayloadIsBytes ==
    ASSUME NEW s \in Seq(Frame)
    PROVE  Payload(s) \in Seq(Byte) /\ (s = << >> => Payload(s) = << >>)
<1>1. PICK b : Spelled(b, s) /\ Payload(s) = b[Len(s)]
    BY PayloadByRecursion
<1>2. Len(s) \in Nat /\ Len(s) \in 0..Len(s) /\ (s = << >> => Len(s) = 0)
    BY LenProperties
<1>3. QED
    BY <1>1, <1>2 DEF Spelled

\* One frame more is its encoding more.
LEMMA PayloadOfAppend ==
    ASSUME NEW s \in Seq(Frame), NEW f \in Frame
    PROVE  Payload(Append(s, f)) = Payload(s) \o EncodeInner(f)
<1> DEFINE t == Append(s, f)
<1>1. t \in Seq(Frame) /\ Len(s) \in Nat /\ Len(t) = Len(s) + 1 /\ t[Len(s) + 1] = f
      /\ \A i \in 1..Len(s) : s[i] = t[i]
    BY AppendProperties, LenProperties
<1> HIDE DEF t
<1>2. PICK b : Spelled(b, s) /\ Payload(s) = b[Len(s)]
    BY PayloadByRecursion
<1>3. PICK c : Spelled(c, t) /\ Payload(t) = c[Len(t)]
    BY <1>1, PayloadByRecursion
<1>4. b[Len(s)] = c[Len(s)]
    BY <1>1, <1>2, <1>3, SamePrefix
<1>5. c[Len(s) + 1] = c[Len(s)] \o EncodeInner(f)
  <2>1. Len(s) + 1 \in 1..Len(t) /\ (Len(s) + 1) - 1 = Len(s)
      BY <1>1
  <2>2. QED
      BY <1>1, <1>3, <2>1 DEF Spelled
<1>6. QED
    BY <1>1, <1>2, <1>3, <1>4, <1>5 DEF t

\* After the bytes of the first frames come those of the next one.
LEMMA PayloadSplits ==
    ASSUME NEW s \in Seq(Frame), NEW t \in Seq(Frame), Len(t) < Len(s),
           \A i \in 1..Len(t) : t[i] = s[i]
    PROVE  \E rest \in Seq(Byte) :
              Payload(s) = Payload(t) \o (EncodeInner(s[Len(t) + 1]) \o rest)
<1> DEFINE m == Len(t) + 1
           N == Len(s)
<1>1. Len(t) \in Nat /\ N \in Nat /\ m \in 1..N /\ m - 1 = Len(t) /\ Len(t) \in 0..N
    BY LenProperties
<1>2. PICK b : Spelled(b, s) /\ Payload(s) = b[N]
    BY PayloadByRecursion
<1>3. PICK c : Spelled(c, t) /\ Payload(t) = c[Len(t)]
    BY PayloadByRecursion
<1>4. b[Len(t)] = Payload(t)
    BY <1>1, <1>2, <1>3, SamePrefix
<1>5. /\ b \in [0..N -> Seq(Byte)]
      /\ \A n \in 1..N : s[n] \in Frame /\ b[n] = b[n - 1] \o EncodeInner(s[n])
    BY <1>1, <1>2, ElementOfSeq DEF Spelled
<1> HIDE DEF N, m
<1> DEFINE More(n) == \E rest \in Seq(Byte) : b[n] = b[m] \o rest
           T == {k \in Nat : m + k <= N => More(m + k)}
<1>6. 0 \in T
  <2>1. m + 0 = m /\ b[m] \in Seq(Byte) /\ << >> \in Seq(Byte)
      BY <1>1, <1>5
  <2>2. b[m] = b[m] \o << >>
      BY <2>1, ConcatEmptySeq
  <2>3. More(m + 0)
      BY <2>1, <2>2
  <2>4. QED
      BY <2>3
<1>7. ASSUME NEW k \in T PROVE k + 1 \in T
  <2>1. SUFFICES ASSUME m + (k + 1) <= N PROVE More(m + (k + 1))
      OBVIOUS
  <2>2. k \in Nat /\ m + (k + 1) \in 1..N /\ (m + (k + 1)) - 1 = m + k /\ m + k <= N
        /\ m \in 0..N
      BY <1>1, <2>1
  <2>3. More(m + k)
      BY <2>2
  <2>4. PICK rest \in Seq(Byte) : b[m + k] = b[m] \o rest
      BY <2>3
  <2> DEFINE e == EncodeInner(s[m + (k + 1)])
  <2>5. b[m + (k + 1)] = b[m + k] \o e /\ e \in Seq(Byte) /\ b[m] \in Seq(Byte)
      BY <1>5, <2>2, EncodingIsBytes
  <2> HIDE DEF e
  <2>6. rest \o e \in Seq(Byte)
      BY <2>5, ConcatProperties
  <2>6a. (b[m] \o rest) \o e = b[m] \o (rest \o e)
    <3> DEFINE x == b[m]
    <3>1. x \in Seq(Byte)
        BY <2>5
    <3> HIDE DEF x
    <3>2. (x \o rest) \o e = x \o (rest \o e)
        BY <2>5, <3>1, ConcatAssociative
    <3>3. QED
        BY <3>2 DEF x
  <2>7. QED
      BY <2>4, <2>5, <2>6, <2>6a
<1>8. T = Nat
  <2>1. T \in SUBSET Nat
      OBVIOUS
  <2> HIDE DEF T
  <2>2. QED
      BY <1>6, <1>7, <2>1, NatSets
<1>9. PICK rest \in Seq(Byte) : b[N] = b[m] \o rest
  <2>1. N - m \in Nat /\ m + (N - m) = N /\ N <= N
      BY <1>1
  <2>2. N - m \in T
      BY <2>1, <1>8
  <2>3. More(N)
      BY <2>1, <2>2
  <2>4. QED
      BY <2>3
<1> DEFINE e == EncodeInner(s[m])
<1>10. b[m] = Payload(t) \o e /\ e \in Seq(Byte) /\ Payload(t) \in Seq(Byte)
    BY <1>1, <1>4, <1>5, EncodingIsBytes, PayloadIsBytes
<1> HIDE DEF e
<1>11. (Payload(t) \o e) \o rest = Payload(t) \o (e \o rest)
    BY <1>10, ConcatAssociative
<1>12. QED
    BY <1>2, <1>9, <1>10, <1>11 DEF e, m

\* What follows the same bytes in the same string is the same.
LEMMA SameTail ==
    ASSUME NEW p \in Seq(Byte), NEW x \in Seq(Byte), NEW y \in Seq(Byte), p \o x = p \o y
    PROVE  x = y
<1>1. p \in Seq(Nat) /\ x \in Seq(Nat) /\ y \in Seq(Nat)
    BY BytesAreNumbers
<1>2. SubSeq(p \o x, Len(p) + 1, Len(p \o x)) = x
    BY <1>1, TwoParts
<1>3. SubSeq(p \o y, Len(p) + 1, Len(p \o y)) = y
    BY <1>1, TwoParts
<1>4. QED
    BY <1>2, <1>3

\* A decoded frame moves its bytes from what is left to what is decoded.
LEMMA DecodingMovesBytes ==
    ASSUME NEW fs \in Seq(Frame), NEW bytes \in Seq(Byte), Whole(bytes)
    PROVE  /\ Append(fs, First(bytes)) \in Seq(Frame) /\ Rest(bytes) \in Seq(Byte)
           /\ Payload(Append(fs, First(bytes))) \o Rest(bytes) = Payload(fs) \o bytes
<1> DEFINE f == First(bytes)
           e == EncodeInner(f)
           rest == Rest(bytes)
           p == Payload(fs)
<1>1. f \in Frame /\ rest \in Seq(Byte) /\ e \o rest = bytes
    BY DecodedIsEncoded
<1>2. e \in Seq(Byte) /\ p \in Seq(Byte) /\ Payload(Append(fs, f)) = p \o e
    BY <1>1, EncodingIsBytes, PayloadIsBytes, PayloadOfAppend
<1>3. Append(fs, f) \in Seq(Frame)
    BY <1>1, AppendProperties
<1> HIDE DEF f, e, rest, p
<1>3a. p \in Seq(Byte) /\ e \in Seq(Byte) /\ rest \in Seq(Byte)
    BY <1>1, <1>2
<1>4. (p \o e) \o rest = p \o (e \o rest)
    BY ONLY <1>3a, ConcatAssociative
<1>5. QED
    BY <1>1, <1>2, <1>3, <1>4 DEF f, rest, p

\* Some of a batch decoded, what is left is nothing if that is all of it, and
\* otherwise begins with the next frame.
LEMMA NextOfBatch ==
    ASSUME NEW batch \in Seq(Frame), \A i \in 1..Len(batch) : Encodable(batch[i]),
           NEW fs \in Seq(Frame), Len(fs) <= Len(batch), \A i \in 1..Len(fs) : fs[i] = batch[i],
           NEW bytes \in Seq(Byte), Payload(fs) \o bytes = Payload(batch)
    PROVE  \/ bytes = << >> /\ fs = batch
           \/ /\ bytes # << >> /\ Len(fs) < Len(batch)
              /\ Whole(bytes) /\ bytes[1] \notin ReservedTypes
              /\ First(bytes) = batch[Len(fs) + 1]
<1>1. Len(fs) \in Nat /\ Len(batch) \in Nat
    BY LenProperties
<1>2. Payload(fs) \in Seq(Byte) /\ << >> \in Seq(Byte)
    BY PayloadIsBytes
<1>3. CASE Len(fs) = Len(batch)
  <2>1. fs = batch
      BY <1>3, SeqEqual
  <2>2. Payload(fs) \o bytes = Payload(fs) \o << >>
      BY <1>2, <2>1, ConcatEmptySeq
  <2>3. bytes = << >>
      BY <1>2, <2>2, SameTail
  <2>4. QED
      BY <2>1, <2>3
<1>4. CASE Len(fs) < Len(batch)
  <2> DEFINE f == batch[Len(fs) + 1]
             e == EncodeInner(f)
  <2>1. f \in Frame /\ Encodable(f)
      BY <1>1, <1>4, ElementOfSeq
  <2>2. PICK rest \in Seq(Byte) : Payload(batch) = Payload(fs) \o (e \o rest)
      BY <1>4, PayloadSplits
  <2>3. e \in Seq(Byte) /\ e # << >>
      BY <2>1, EncodingIsBytes
  <2>4. Whole(e \o rest) /\ First(e \o rest) = f
      BY <2>1, EncodedIsDecoded DEF Encodable
  <2>5. f.typ \notin ReservedTypes
      BY <2>1 DEF Encodable
  <2> HIDE DEF e
  <2>6. e \o rest \in Seq(Byte)
      BY <2>3, ConcatProperties
  <2>7. bytes = e \o rest
    <3> DEFINE p == Payload(fs)
               x == e \o rest
    <3>1. p \in Seq(Byte) /\ x \in Seq(Byte) /\ p \o bytes = p \o x
        BY <1>2, <2>2, <2>6
    <3> HIDE DEF p, x
    <3>2. bytes = x
        BY <3>1, SameTail
    <3>3. QED
        BY <3>2 DEF x
  <2>8. Len(bytes) # 0
    <3>1. Len(bytes) \in Nat /\ Len(bytes) >= 8
        BY <2>4, <2>7, LenProperties DEF Whole, HasHeader, HeaderLen
    <3>2. QED
        BY <3>1
  <2>9. bytes[1] = f.typ
    <3>1. First(bytes).typ = bytes[1]
        BY DEF First
    <3>2. QED
        BY <2>4, <2>7, <3>1
  <2> HIDE DEF f
  <2>10. QED
      BY <1>4, <2>4, <2>5, <2>7, <2>8, <2>9 DEF f
<1>5. QED
    BY <1>1, <1>3, <1>4

\* The frames of a batch that are written are frames of it that can be.
LEMMA EncodablesAreEncodable ==
    ASSUME NEW batch \in Seq(Frame)
    PROVE  /\ Encodables(batch) \in Seq(Frame)
           /\ \A i \in 1..Len(Encodables(batch)) : Encodable(Encodables(batch)[i])
<1> DEFINE chosen == {i \in DOMAIN batch : Encodable(batch[i])}
<1>1. \A i \in chosen : Encodable(batch[i])
    OBVIOUS
<1>2. Encodables(batch) = Selected(batch, chosen)
    BY DEF Encodables
<1> HIDE DEF chosen
<1>3. QED
    BY <1>1, <1>2, SelectedElements

(***************************************************************************)
(* The allowlists and the router.                                          *)
(***************************************************************************)

Routes == DocRoutes \cup BlobRoutes \cup SyncRoutes
InfoRoute == [path |-> <<"extended", "v1", "info">>, methods |-> {"GET", "HEAD"}, to |-> "info"]
PullRoute == [path |-> <<"extended", "v1", "pull">>, methods |-> {"POST"}, to |-> "pull"]
PushRoute == [path |-> <<"extended", "v1", "push">>, methods |-> {"POST"}, to |-> "push"]
CheckRoute ==
    [path |-> <<"extended", "v1", "blobs", "check">>, methods |-> {"POST"}, to |-> "check"]
BlobRoute ==
    [path |-> <<"extended", "v1", "blob", "*">>, methods |-> {"GET", "HEAD", "PUT"}, to |-> "blob"]
SyncRoute ==
    [path |-> <<"amallo", "sync", "*">>, methods |-> {"GET", "HEAD", "POST"}, to |-> "sync"]

\* The routes lead to different handlers.
LEMMA RouteNames ==
    /\ InfoRoute.to = "info" /\ PullRoute.to = "pull" /\ PushRoute.to = "push"
    /\ CheckRoute.to = "check" /\ BlobRoute.to = "blob" /\ SyncRoute.to = "sync"
BY DEF InfoRoute, PullRoute, PushRoute, CheckRoute, BlobRoute, SyncRoute

\* What a path matches a route by.
IsRoute(r, segs) ==
    \/ /\ r \in {InfoRoute, PullRoute, PushRoute} /\ Len(segs) = 3
       /\ segs[1] = "extended" /\ segs[2] = "v1" /\ segs[3] = r.to
    \/ /\ r = CheckRoute /\ Len(segs) = 4
       /\ segs[1] = "extended" /\ segs[2] = "v1" /\ segs[3] = "blobs" /\ segs[4] = "check"
    \/ /\ r = BlobRoute /\ Len(segs) = 4
       /\ segs[1] = "extended" /\ segs[2] = "v1" /\ segs[3] = "blob" /\ segs[4] # ""
    \/ /\ r = SyncRoute /\ Len(segs) = 3
       /\ segs[1] = "amallo" /\ segs[2] = "sync" /\ segs[3] # ""

\* A path of three segments matches segment by segment.
LEMMA MatchesThree ==
    ASSUME NEW segs, NEW path, DOMAIN path = 1..3, Len(path) = 3, path[1] # "*", path[2] # "*"
    PROVE  Matches(path, segs)
              <=> Len(segs) = 3 /\ segs[1] = path[1] /\ segs[2] = path[2]
                  /\ (segs[3] = path[3] \/ (path[3] = "*" /\ segs[3] # ""))
<1> DEFINE Fits(i) == path[i] = segs[i] \/ (path[i] = "*" /\ segs[i] # "")
<1>1. Matches(path, segs) <=> Len(segs) = 3 /\ \A i \in 1..3 : Fits(i)
    BY DEF Matches
<1>2. (\A i \in 1..3 : Fits(i)) <=> Fits(1) /\ Fits(2) /\ Fits(3)
  <2> HIDE DEF Fits
  <2>1. \A i \in 1..3 : i = 1 \/ i = 2 \/ i = 3
      OBVIOUS
  <2>2. QED
      BY <2>1
<1>3. (Fits(1) <=> segs[1] = path[1]) /\ (Fits(2) <=> segs[2] = path[2])
      /\ (Fits(3) <=> segs[3] = path[3] \/ (path[3] = "*" /\ segs[3] # ""))
    OBVIOUS
<1> HIDE DEF Fits
<1>4. QED
    BY <1>1, <1>2, <1>3

\* A path of four segments matches segment by segment, as well.
LEMMA MatchesFour ==
    ASSUME NEW segs, NEW path, DOMAIN path = 1..4, Len(path) = 4,
           path[1] # "*", path[2] # "*", path[3] # "*"
    PROVE  Matches(path, segs)
              <=> Len(segs) = 4 /\ segs[1] = path[1] /\ segs[2] = path[2] /\ segs[3] = path[3]
                  /\ (segs[4] = path[4] \/ (path[4] = "*" /\ segs[4] # ""))
<1> DEFINE Fits(i) == path[i] = segs[i] \/ (path[i] = "*" /\ segs[i] # "")
<1>1. Matches(path, segs) <=> Len(segs) = 4 /\ \A i \in 1..4 : Fits(i)
    BY DEF Matches
<1>2. (\A i \in 1..4 : Fits(i)) <=> Fits(1) /\ Fits(2) /\ Fits(3) /\ Fits(4)
  <2> HIDE DEF Fits
  <2>1. \A i \in 1..4 : i = 1 \/ i = 2 \/ i = 3 \/ i = 4
      OBVIOUS
  <2>2. QED
      BY <2>1
<1>3. (Fits(1) <=> segs[1] = path[1]) /\ (Fits(2) <=> segs[2] = path[2])
      /\ (Fits(3) <=> segs[3] = path[3])
      /\ (Fits(4) <=> segs[4] = path[4] \/ (path[4] = "*" /\ segs[4] # ""))
    OBVIOUS
<1> HIDE DEF Fits
<1>4. QED
    BY <1>1, <1>2, <1>3

\* What matches a route, spelled out.
LEMMA RoutesMatch ==
    ASSUME NEW segs \in Seq(STRING), NEW r
    PROVE  r \in Routes /\ Matches(r.path, segs) <=> IsRoute(r, segs)
<1>1. r \in Routes <=> r \in {InfoRoute, PullRoute, PushRoute, CheckRoute, BlobRoute, SyncRoute}
    BY DEF Routes, DocRoutes, BlobRoutes, SyncRoutes, InfoRoute, PullRoute, PushRoute,
           CheckRoute, BlobRoute, SyncRoute
<1>2. /\ InfoRoute.path = <<"extended", "v1", "info">> /\ InfoRoute.to = "info"
      /\ PullRoute.path = <<"extended", "v1", "pull">> /\ PullRoute.to = "pull"
      /\ PushRoute.path = <<"extended", "v1", "push">> /\ PushRoute.to = "push"
      /\ CheckRoute.path = <<"extended", "v1", "blobs", "check">> /\ CheckRoute.to = "check"
      /\ BlobRoute.path = <<"extended", "v1", "blob", "*">> /\ BlobRoute.to = "blob"
      /\ SyncRoute.path = <<"amallo", "sync", "*">> /\ SyncRoute.to = "sync"
    BY DEF InfoRoute, PullRoute, PushRoute, CheckRoute, BlobRoute, SyncRoute
<1>3. /\ Matches(InfoRoute.path, segs) <=> IsRoute(InfoRoute, segs)
      /\ Matches(PullRoute.path, segs) <=> IsRoute(PullRoute, segs)
      /\ Matches(PushRoute.path, segs) <=> IsRoute(PushRoute, segs)
  <2>1. ASSUME NEW q \in {InfoRoute, PullRoute, PushRoute}
        PROVE  Matches(q.path, segs) <=> IsRoute(q, segs)
    <3> DEFINE path == q.path
    <3>0. path = <<"extended", "v1", q.to>> /\ q.to \in {"info", "pull", "push"}
        BY <1>2
    <3> HIDE DEF path
    <3>1. DOMAIN path = 1..3 /\ Len(path) = 3
          /\ path[1] = "extended" /\ path[2] = "v1" /\ path[3] = q.to /\ q.to # "*"
        BY <3>0
    <3>2. IsRoute(q, segs)
             <=> Len(segs) = 3 /\ segs[1] = "extended" /\ segs[2] = "v1" /\ segs[3] = q.to
        BY <1>2 DEF IsRoute
    <3>3. Matches(path, segs)
             <=> Len(segs) = 3 /\ segs[1] = "extended" /\ segs[2] = "v1" /\ segs[3] = q.to
        BY <3>1, MatchesThree
    <3>4. QED
        BY <3>2, <3>3 DEF path
  <2>2. QED
      BY <2>1
<1>4. Matches(CheckRoute.path, segs) <=> IsRoute(CheckRoute, segs)
  <2> DEFINE path == CheckRoute.path
  <2>0. path = <<"extended", "v1", "blobs", "check">>
      BY <1>2
  <2> HIDE DEF path
  <2>1. DOMAIN path = 1..4 /\ Len(path) = 4
        /\ path[1] = "extended" /\ path[2] = "v1" /\ path[3] = "blobs" /\ path[4] = "check"
      BY <2>0
  <2>2. IsRoute(CheckRoute, segs)
           <=> Len(segs) = 4 /\ segs[1] = "extended" /\ segs[2] = "v1" /\ segs[3] = "blobs"
               /\ segs[4] = "check"
      BY <1>2 DEF IsRoute
  <2>3. Matches(path, segs)
           <=> Len(segs) = 4 /\ segs[1] = "extended" /\ segs[2] = "v1" /\ segs[3] = "blobs"
               /\ segs[4] = "check"
      BY <2>1, MatchesFour
  <2>4. QED
      BY <2>2, <2>3 DEF path
<1>4a. Matches(BlobRoute.path, segs) <=> IsRoute(BlobRoute, segs)
  <2> DEFINE path == BlobRoute.path
  <2>0. path = <<"extended", "v1", "blob", "*">>
      BY <1>2
  <2> HIDE DEF path
  <2>1. DOMAIN path = 1..4 /\ Len(path) = 4
        /\ path[1] = "extended" /\ path[2] = "v1" /\ path[3] = "blob" /\ path[4] = "*"
      BY <2>0
  <2>2. IsRoute(BlobRoute, segs)
           <=> Len(segs) = 4 /\ segs[1] = "extended" /\ segs[2] = "v1" /\ segs[3] = "blob"
               /\ segs[4] # ""
      BY <1>2 DEF IsRoute
  <2>3. Matches(path, segs)
           <=> Len(segs) = 4 /\ segs[1] = "extended" /\ segs[2] = "v1" /\ segs[3] = "blob"
               /\ (segs[4] = "*" \/ segs[4] # "")
      BY <2>1, MatchesFour
  <2>4. QED
      BY <2>2, <2>3 DEF path
<1>5. Matches(SyncRoute.path, segs) <=> IsRoute(SyncRoute, segs)
  <2> DEFINE path == SyncRoute.path
  <2>0. path = <<"amallo", "sync", "*">>
      BY <1>2
  <2> HIDE DEF path
  <2>1. DOMAIN path = 1..3 /\ Len(path) = 3
        /\ path[1] = "amallo" /\ path[2] = "sync" /\ path[3] = "*"
      BY <2>0
  <2>2. IsRoute(SyncRoute, segs)
           <=> Len(segs) = 3 /\ segs[1] = "amallo" /\ segs[2] = "sync" /\ segs[3] # ""
      BY <1>2 DEF IsRoute
  <2>3. Matches(path, segs)
           <=> Len(segs) = 3 /\ segs[1] = "amallo" /\ segs[2] = "sync"
               /\ (segs[3] = "*" \/ segs[3] # "")
      BY <2>1, MatchesThree
  <2>4. QED
      BY <2>2, <2>3 DEF path
<1>6. IsRoute(r, segs) => r \in {InfoRoute, PullRoute, PushRoute, CheckRoute, BlobRoute, SyncRoute}
    BY DEF IsRoute
<1>7. QED
    BY <1>1, <1>3, <1>4, <1>4a, <1>5, <1>6

\* No path matches two routes, so that it does not matter which one is tried
\* first.
LEMMA OneRoute ==
    ASSUME NEW segs \in Seq(STRING), NEW r, NEW q, IsRoute(r, segs), IsRoute(q, segs)
    PROVE  r = q
<1>1. InfoRoute.to = "info" /\ PullRoute.to = "pull" /\ PushRoute.to = "push"
    BY RouteNames
<1>2. ASSUME r \in {InfoRoute, PullRoute, PushRoute}, q \in {InfoRoute, PullRoute, PushRoute},
             r.to = q.to
      PROVE  r = q
    BY <1>1, <1>2
<1>3. CASE r \in {InfoRoute, PullRoute, PushRoute} /\ q \in {InfoRoute, PullRoute, PushRoute}
  <2>1. ASSUME NEW x \in {r, q} PROVE x.to \in {"info", "pull", "push"} /\ segs[3] = x.to
    <3>1. x \in {InfoRoute, PullRoute, PushRoute} /\ IsRoute(x, segs)
        BY <1>3, <2>1
    <3>2. x # CheckRoute /\ x # BlobRoute /\ x # SyncRoute
        BY <1>1, <3>1, RouteNames
    <3>3. QED
        BY <1>1, <3>1, <3>2 DEF IsRoute
  <2>2. QED
      BY <1>2, <1>3, <2>1
<1>4. CASE r \notin {InfoRoute, PullRoute, PushRoute} \/ q \notin {InfoRoute, PullRoute, PushRoute}
  <2> DEFINE Of(x) ==
                \/ Len(segs) = 3 /\ segs[1] = "extended" /\ x \in {InfoRoute, PullRoute, PushRoute}
                \/ Len(segs) = 4 /\ segs[3] = "blobs" /\ x = CheckRoute
                \/ Len(segs) = 4 /\ segs[3] = "blob" /\ x = BlobRoute
                \/ Len(segs) = 3 /\ segs[1] = "amallo" /\ x = SyncRoute
  <2>1. ASSUME NEW x, IsRoute(x, segs) PROVE Of(x)
      BY <2>1 DEF IsRoute
  <2>2. Of(r) /\ Of(q)
      BY <2>1
  <2>3. CASE Len(segs) = 4
      BY <2>2, <2>3
  <2>4. CASE Len(segs) # 4
      BY <1>4, <2>2, <2>4
  <2>5. QED
      BY <2>3, <2>4
<1>5. QED
    BY <1>3, <1>4

\* The handler of a path that matches a route, and of one that matches none.
LEMMA RoutedTo ==
    ASSUME NEW m, NEW p, p.segs \in Seq(STRING)
    PROVE  /\ \A r : IsRoute(r, p.segs) =>
                 Routed(m, p) = IF m \in r.methods THEN r.to ELSE "method_not_allowed"
           /\ (\A r : ~IsRoute(r, p.segs)) => Routed(m, p) = "forward"
<1> DEFINE matching == {r \in DocRoutes \cup BlobRoutes \cup SyncRoutes : Matches(r.path, p.segs)}
<1>1. \A r : r \in matching <=> IsRoute(r, p.segs)
    BY RoutesMatch DEF Routes
<1>2. Routed(m, p) = IF matching = {} THEN "forward"
                     ELSE LET r == CHOOSE r \in matching : TRUE
                          IN  IF m \in r.methods THEN r.to ELSE "method_not_allowed"
    BY DEF Routed
<1> HIDE DEF matching
<1>3. ASSUME NEW r, IsRoute(r, p.segs)
      PROVE  Routed(m, p) = IF m \in r.methods THEN r.to ELSE "method_not_allowed"
  <2> DEFINE q == CHOOSE r_1 \in matching : TRUE
  <2>1. matching # {} /\ q \in matching
      BY <1>1, <1>3
  <2>2. q = r
      BY <1>1, <1>3, <2>1, OneRoute
  <2>3. QED
      BY <1>2, <2>1, <2>2
<1>4. ASSUME \A r : ~IsRoute(r, p.segs) PROVE Routed(m, p) = "forward"
    BY <1>1, <1>2, <1>4
<1>5. QED
    BY <1>3, <1>4

\* What the last segment of a path is.
LEMMA LastSegment ==
    ASSUME NEW segs \in Seq(STRING), Len(segs) = 3 \/ Len(segs) = 4
    PROVE  Last(segs) = segs[Len(segs)]
BY DEF Last

\* A path that the plain lane lets in is one of Ollama's OpenAI surface, and
\* no route takes it.
LEMMA HttpPathsForwarded ==
    ASSUME NEW m, NEW p, p.segs \in Seq(STRING), CheckHttpMethodPath(m, p)
    PROVE  p.segs[1] = "v1" /\ Handled(Routed(m, p), p) = "forward"
<1>1. p.segs[1] = "v1"
  <2>1. CASE <<Upper(m), p.segs>> \in AllowedHttpExact
    <3>1. \E tail \in {<<"v1", "chat", "completions">>, <<"v1", "completions">>,
                       <<"v1", "embeddings">>, <<"v1", "models">>} : p.segs = tail
        BY <2>1 DEF AllowedHttpExact
    <3>2. QED
        BY <3>1
  <2>2. CASE Under(<<"v1", "models">>, p.segs)
      BY <2>2 DEF Under
  <2>3. QED
      BY <2>1, <2>2 DEF CheckHttpMethodPath
<1>2. \A r : ~IsRoute(r, p.segs)
    BY <1>1 DEF IsRoute
<1>3. Routed(m, p) = "forward"
    BY <1>2, RoutedTo
<1>4. QED
    BY <1>1, <1>3 DEF Handled

\* A path that the E2E lane lets in goes to the handler it is meant for, and
\* the handler takes its last segment; only a method that is not in upper case
\* is no method of the route.
LEMMA E2EPathsRouted ==
    ASSUME NEW m, NEW p, p.segs \in Seq(STRING), CheckMethodPath(m, p)
    PROVE  \/ Handled(Routed(m, p), p) = Meant(p.segs)
           \/ m # Upper(m) /\ Handled(Routed(m, p), p) = "method_not_allowed"
<1> DEFINE segs == p.segs
           Agrees == \/ Handled(Routed(m, p), p) = Meant(segs)
                     \/ m # Upper(m) /\ Handled(Routed(m, p), p) = "method_not_allowed"
<1>0. SUFFICES Agrees
    OBVIOUS
<1>1. CASE <<Upper(m), segs>> \in AllowedExact
  <2>1. segs[1] = "api"
    <3>1. \E q \in {<<"api", "tags">>, <<"api", "ps">>, <<"api", "show">>, <<"api", "chat">>,
                    <<"api", "generate">>, <<"api", "embed">>, <<"api", "pull">>,
                    <<"api", "delete">>} : segs = q
        BY <1>1 DEF AllowedExact
    <3>2. QED
        BY <3>1
  <2>2. \A r : ~IsRoute(r, segs)
      BY <2>1 DEF IsRoute
  <2>3. Routed(m, p) = "forward"
      BY <2>2, RoutedTo
  <2>4. QED
      BY <2>1, <2>3 DEF Handled, Meant
<1>2. ASSUME NEW r, IsRoute(r, segs), Upper(m) \in r.methods,
             r.to = Meant(segs), Handled(r.to, p) = r.to
      PROVE  Agrees
  <2>1. Routed(m, p) = IF m \in r.methods THEN r.to ELSE "method_not_allowed"
      BY <1>2, RoutedTo
  <2>2. CASE m \in r.methods
      BY <1>2, <2>1, <2>2
  <2>3. CASE m \notin r.methods
    <3>1. m # Upper(m)
        BY <1>2, <2>3
    <3>2. Handled("method_not_allowed", p) = "method_not_allowed"
        BY DEF Handled
    <3>3. QED
        BY <2>1, <2>3, <3>1, <3>2
  <2>4. QED
      BY <2>2, <2>3
<1>3. CASE <<Upper(m), segs>> \in AllowedExactV1
  <2>1. \/ Upper(m) = "GET" /\ segs = <<"extended", "v1", "info">>
        \/ Upper(m) = "POST" /\ segs = <<"extended", "v1", "pull">>
        \/ Upper(m) = "POST" /\ segs = <<"extended", "v1", "push">>
        \/ Upper(m) = "POST" /\ segs = <<"extended", "v1", "blobs", "check">>
      BY <1>3 DEF AllowedExactV1
  <2>2. CASE Upper(m) = "GET" /\ segs = <<"extended", "v1", "info">>
    <3>1. Len(segs) = 3 /\ segs[1] = "extended" /\ segs[2] = "v1" /\ segs[3] = "info"
        BY <2>2
    <3> HIDE DEF segs
    <3>2. IsRoute(InfoRoute, segs) /\ Meant(segs) = "info"
        BY <3>1, RouteNames DEF IsRoute, Meant
    <3>3. Upper(m) \in InfoRoute.methods
        BY <2>2 DEF InfoRoute
    <3>4. Handled("info", p) = "info"
        BY DEF Handled
    <3>5. QED
        BY <1>2, <3>2, <3>3, <3>4, RouteNames
  <2>3. CASE Upper(m) = "POST" /\ segs = <<"extended", "v1", "pull">>
    <3>1. Len(segs) = 3 /\ segs[1] = "extended" /\ segs[2] = "v1" /\ segs[3] = "pull"
        BY <2>3
    <3> HIDE DEF segs
    <3>2. IsRoute(PullRoute, segs) /\ Meant(segs) = "pull"
        BY <3>1, RouteNames DEF IsRoute, Meant
    <3>3. Upper(m) \in PullRoute.methods
        BY <2>3 DEF PullRoute
    <3>4. Handled("pull", p) = "pull"
        BY DEF Handled
    <3>5. QED
        BY <1>2, <3>2, <3>3, <3>4, RouteNames
  <2>4. CASE Upper(m) = "POST" /\ segs = <<"extended", "v1", "push">>
    <3>1. Len(segs) = 3 /\ segs[1] = "extended" /\ segs[2] = "v1" /\ segs[3] = "push"
        BY <2>4
    <3> HIDE DEF segs
    <3>2. IsRoute(PushRoute, segs) /\ Meant(segs) = "push"
        BY <3>1, RouteNames DEF IsRoute, Meant
    <3>3. Upper(m) \in PushRoute.methods
        BY <2>4 DEF PushRoute
    <3>4. Handled("push", p) = "push"
        BY DEF Handled
    <3>5. QED
        BY <1>2, <3>2, <3>3, <3>4, RouteNames
  <2>5. CASE Upper(m) = "POST" /\ segs = <<"extended", "v1", "blobs", "check">>
    <3>1. Len(segs) = 4 /\ segs[1] = "extended" /\ segs[2] = "v1" /\ segs[3] = "blobs"
          /\ segs[4] = "check"
        BY <2>5
    <3> HIDE DEF segs
    <3>2. IsRoute(CheckRoute, segs) /\ Meant(segs) = "check"
        BY <3>1, RouteNames DEF IsRoute, Meant
    <3>3. Upper(m) \in CheckRoute.methods
        BY <2>5 DEF CheckRoute
    <3>4. Handled("check", p) = "check"
        BY DEF Handled
    <3>5. QED
        BY <1>2, <3>2, <3>3, <3>4, RouteNames
  <2>6. QED
      BY <2>1, <2>2, <2>3, <2>4, <2>5
<1>4. CASE AllowedSync(m, p)
  <2>1. Len(segs) = 3 /\ segs[1] = "amallo" /\ segs[2] = "sync" /\ Last(segs) \in Collections
        /\ Upper(m) \in {"GET", "POST"}
      BY <1>4 DEF AllowedSync, Under, SyncCollections, Collections
  <2>2. Last(segs) = segs[3]
      BY <2>1, LastSegment
  <2>3. segs[3] # ""
      BY <2>1, <2>2 DEF Collections
  <2>4. Handled("sync", p) = "sync"
      BY <2>1 DEF Handled
  <2>5. Upper(m) \in SyncRoute.methods
      BY <2>1 DEF SyncRoute
  <2> HIDE DEF segs
  <2>6. IsRoute(SyncRoute, segs) /\ Meant(segs) = "sync"
      BY <2>1, <2>3, RouteNames DEF IsRoute, Meant
  <2>7. QED
      BY <1>2, <2>4, <2>5, <2>6, RouteNames
<1>5. CASE /\ Upper(m) \in {"GET", "PUT"}
           /\ Under(<<"extended", "v1", "blob">>, segs) /\ ValidHash(Last(segs))
  <2>1. Len(segs) = 4 /\ segs[1] = "extended" /\ segs[2] = "v1" /\ segs[3] = "blob"
      BY <1>5 DEF Under
  <2>2. Last(segs) = segs[4]
      BY <2>1, LastSegment
  <2>3. segs[4] # ""
      BY <1>5, <2>2, HexNamesAssumption DEF ValidHash
  <2>4. Handled("blob", p) = "blob"
      BY <1>5 DEF Handled
  <2>5. Upper(m) \in BlobRoute.methods
      BY <1>5 DEF BlobRoute
  <2> HIDE DEF segs
  <2>6. IsRoute(BlobRoute, segs) /\ Meant(segs) = "blob"
      BY <2>1, <2>3, RouteNames DEF IsRoute, Meant
  <2>7. QED
      BY <1>2, <2>4, <2>5, <2>6, RouteNames
<1>6. QED
    BY <1>1, <1>3, <1>4, <1>5 DEF CheckMethodPath

(***************************************************************************)
(* What a request is made of, and how it is served.                        *)
(***************************************************************************)

\* The provers do not know a literal to be a STRING.
AnyHeader == [name: STRING \cup {"authorization"}, value: Nat]
Handlers == {"info", "pull", "push", "check", "blob", "sync", "forward", "method_not_allowed",
             "refused"}
Answers == Handlers \cup {"waiting", "unauthorized", "cors"}
Request ==
    [lane: {"e2e", "http", "lan"}, m: STRING, p: [segs: Seq(STRING), form: STRING, query: STRING],
     headers: Seq(AnyHeader), stamp: Nat, by: Answers,
     expected: Nat, upstream: Seq(AnyHeader)]

\* The headers of the model are of this type.
LEMMA HeadersAreAnyHeaders == \A headers \in Seq(Header) : headers \in Seq(AnyHeader)
<1>1. Header \subseteq AnyHeader
    BY DEF Header, AnyHeader
<1>2. QED
    BY <1>1, SeqMonotonic

\* The allowlists know no OPTIONS, which the CORS layer would answer.
LEMMA NoOptions ==
    ASSUME NEW m, NEW p, CheckMethodPath(m, p) \/ CheckHttpMethodPath(m, p)
    PROVE  m # "OPTIONS"
<1>1. SUFFICES ASSUME m = "OPTIONS" PROVE FALSE
    OBVIOUS
<1>2. Upper(m) = "OPTIONS"
    BY <1>1 DEF Upper
<1>3. <<Upper(m), p.segs>> \notin AllowedExact \cup AllowedExactV1 \cup AllowedHttpExact
    BY <1>2 DEF AllowedExact, AllowedExactV1, AllowedHttpExact
<1>4. QED
    BY <1>2, <1>3 DEF CheckMethodPath, CheckHttpMethodPath, AllowedSync

\* No credential goes on to Ollama, and no header of a peer's but two.
LEMMA NoCredentialLeft ==
    ASSUME NEW headers \in Seq(AnyHeader)
    PROVE  /\ Forwarded(headers) \in Seq(AnyHeader) /\ FilterRequestHeaders(headers) \in Seq(AnyHeader)
           /\ \A i \in 1..Len(Forwarded(headers)) : Forwarded(headers)[i].name # "authorization"
           /\ \A i \in 1..Len(FilterRequestHeaders(headers)) :
                 FilterRequestHeaders(headers)[i].name # "authorization"
<1> DEFINE passed == {i \in DOMAIN headers : headers[i].name \notin SkipRequestHeaders}
           kept == {i \in DOMAIN headers : headers[i].name \in AllowedRequestHeaders}
<1>1. \A i \in passed \cup kept : headers[i].name # "authorization"
    BY DEF SkipRequestHeaders, AllowedRequestHeaders
<1>2. Forwarded(headers) = Selected(headers, passed)
      /\ FilterRequestHeaders(headers) = Selected(headers, kept)
    BY DEF Forwarded, FilterRequestHeaders
<1> HIDE DEF passed, kept
<1>3. Forwarded(headers) \in Seq(AnyHeader)
      /\ \A i \in 1..Len(Forwarded(headers)) : Forwarded(headers)[i].name # "authorization"
    BY <1>1, <1>2, SelectedElements
<1>4. FilterRequestHeaders(headers) \in Seq(AnyHeader)
      /\ \A i \in 1..Len(FilterRequestHeaders(headers)) :
            FilterRequestHeaders(headers)[i].name # "authorization"
    BY <1>1, <1>2, SelectedElements
<1>5. QED
    BY <1>3, <1>4

\* The credential of a request that was stripped of any is the one appended.
LEMMA CredentialAppended ==
    ASSUME NEW headers \in Seq(AnyHeader), NEW v \in Nat,
           \A i \in 1..Len(headers) : headers[i].name # "authorization"
    PROVE  /\ Append(headers, [name |-> "authorization", value |-> v]) \in Seq(AnyHeader)
           /\ Credential(Append(headers, [name |-> "authorization", value |-> v])) = v
<1> DEFINE h == [name |-> "authorization", value |-> v]
           all == Append(headers, h)
           n == Len(headers) + 1
           auth == {i \in DOMAIN all : all[i].name = "authorization"}
<1>1. h \in AnyHeader /\ h.name = "authorization" /\ h.value = v
    BY DEF AnyHeader
<1> HIDE DEF h
<1>2. /\ all \in Seq(AnyHeader) /\ Len(headers) \in Nat /\ Len(all) = n /\ all[n] = h
      /\ \A i \in 1..Len(headers) : all[i] = headers[i]
    BY <1>1, AppendProperties, LenProperties
<1>3. DOMAIN all = 1..n
    BY <1>2, LenProperties
<1> HIDE DEF all
<1>4. auth = {n}
  <2>1. n \in auth
      BY <1>1, <1>2, <1>3
  <2>2. ASSUME NEW i \in auth PROVE i = n
    <3>1. i \in 1..n /\ all[i].name = "authorization"
        BY <1>3
    <3>2. i \notin 1..Len(headers)
        BY <1>2, <3>1
    <3>3. QED
        BY <1>2, <3>1, <3>2
  <2>3. QED
      BY <2>1, <2>2
<1>5. Credential(all) = IF auth = {} THEN 0
                        ELSE all[CHOOSE i \in auth : \A j \in auth : i <= j].value
    BY DEF Credential
<1> HIDE DEF auth
<1>6. (CHOOSE i \in auth : \A j \in auth : i <= j) = n
  <2>1. n \in auth /\ \A j \in auth : n <= j
      BY <1>2, <1>4
  <2>2. QED
      BY <1>4, <2>1
<1>7. Credential(all) = v
    BY <1>1, <1>2, <1>4, <1>5, <1>6
<1>8. QED
    BY <1>2, <1>7 DEF all, h

\* What a handler makes of a request is never mistaken for another's answer.
LEMMA HandledNames ==
    ASSUME NEW m, NEW p, p.segs \in Seq(STRING)
    PROVE  Handled(Routed(m, p), p) \in Handlers
<1> DEFINE Names == Handlers \ {"refused"}
<1>1. Routed(m, p) \in Names
  <2>1. CASE \E r : IsRoute(r, p.segs)
    <3>1. PICK r : IsRoute(r, p.segs)
        BY <2>1
    <3>2. r.to \in Names
        BY <3>1, RouteNames DEF IsRoute, Handlers
    <3>3. QED
        BY <3>1, <3>2, RoutedTo DEF Handlers
  <2>2. CASE \A r : ~IsRoute(r, p.segs)
      BY <2>2, RoutedTo DEF Handlers
  <2>3. QED
      BY <2>1, <2>2
<1>2. QED
    BY <1>1 DEF Handled, Handlers

\* A request once it is served, and its fields.
AsServed(r, by, e, u) == [r EXCEPT !.by = by, !.expected = e, !.upstream = u]

\* Serving a request changes these three fields of it.
LEMMA ServedFields ==
    ASSUME NEW r \in Request, NEW by \in Answers,
           NEW e \in Nat, NEW u \in Seq(AnyHeader),
           NEW q, q = AsServed(r, by, e, u)
    PROVE  /\ q \in Request
           /\ q.lane = r.lane /\ q.m = r.m /\ q.p = r.p /\ q.headers = r.headers
           /\ q.stamp = r.stamp /\ q.by = by /\ q.expected = e /\ q.upstream = u
<1> DEFINE r1 == [r EXCEPT !.by = by]
           r2 == [r1 EXCEPT !.expected = e]
           r3 == [r2 EXCEPT !.upstream = u]
<1>1. /\ r1 \in Request
      /\ r1.lane = r.lane /\ r1.m = r.m /\ r1.p = r.p /\ r1.headers = r.headers
      /\ r1.stamp = r.stamp /\ r1.by = by
    BY DEF Request
<1>0. q = r3
    BY DEF Request, AsServed
<1> HIDE DEF r1
<1>2. /\ r2 \in Request
      /\ r2.lane = r.lane /\ r2.m = r.m /\ r2.p = r.p /\ r2.headers = r.headers
      /\ r2.stamp = r.stamp /\ r2.by = by /\ r2.expected = e
    BY <1>1 DEF Request
<1> HIDE DEF r2
<1>3. /\ r3 \in Request
      /\ r3.lane = r.lane /\ r3.m = r.m /\ r3.p = r.p /\ r3.headers = r.headers
      /\ r3.stamp = r.stamp /\ r3.by = by /\ r3.expected = e /\ r3.upstream = u
    BY <1>2 DEF Request
<1> HIDE DEF r3
<1>4. QED
    BY <1>0, <1>3

(***************************************************************************)
(* The invariant.                                                          *)
(***************************************************************************)

TypeOK ==
    /\ token \in Nat \ {0} /\ stamp \in 1..token
    /\ apiKey \in BOOLEAN /\ paired \in BOOLEAN
    /\ lane \in {"e2e", "http", None} /\ decoding \in BOOLEAN
    /\ buf \in Seq(Byte) /\ frames \in Seq(Frame)
    /\ wrote \in [bytes: Seq(Byte), batch: Seq(Frame), whole: BOOLEAN]

\* What is decoded and what is left of a payload are what was written; of a
\* batch of this protocol, its first frames are decoded.
DecoderInv ==
    decoding =>
        /\ Payload(frames) \o buf = wrote.bytes
        /\ \A i \in 1..Len(frames) : frames[i].typ \notin ReservedTypes
        /\ wrote.whole =>
              /\ wrote.bytes = Payload(Encodables(wrote.batch))
              /\ Len(frames) <= Len(Encodables(wrote.batch))
              /\ \A i \in 1..Len(frames) : frames[i] = Encodables(wrote.batch)[i]

\* A request of the relay's lanes was let in by their allowlist and carries the
\* stamp of its connection; a request that was served was served by the layer
\* that its method and its credential decide, against the token of that moment.
Sound(r) ==
    /\ r \in Request
    /\ r.lane = "e2e" => CheckMethodPath(r.m, r.p)
    /\ r.lane = "http" => CheckHttpMethodPath(r.m, r.p)
    /\ r.lane # "lan" => Credential(r.headers) = r.stamp /\ r.stamp <= token
    /\ r.by # "waiting" =>
          /\ r.by = IF r.m = "OPTIONS" THEN "cors"
                    ELSE IF Credential(r.headers) # r.expected THEN "unauthorized"
                    ELSE Handled(Routed(r.m, r.p), r.p)
          /\ r.lane # "lan" => r.stamp <= r.expected
    /\ \A i \in 1..Len(r.upstream) : r.upstream[i].name # "authorization"

RequestsInv == \A r \in requests : Sound(r)

IInv == TypeOK /\ DecoderInv /\ RequestsInv

\* The types hold at the start.
LEMMA TypesAtInit == Init => TypeOK
<1> SUFFICES ASSUME Init PROVE TypeOK
    OBVIOUS
<1>1. << >> \in Seq(Byte) /\ << >> \in Seq(Frame)
    OBVIOUS
<1>2. Nothing \in [bytes: Seq(Byte), batch: Seq(Frame), whole: BOOLEAN]
  <2>1. ASSUME NEW w \in BOOLEAN
        PROVE  [bytes |-> << >>, batch |-> << >>, whole |-> w]
                  \in [bytes: Seq(Byte), batch: Seq(Frame), whole: BOOLEAN]
      BY <1>1
  <2>2. QED
      BY <2>1 DEF Nothing
<1>3. token \in Nat \ {0} /\ stamp \in 1..token
    BY DEF Init
<1>4. apiKey \in BOOLEAN /\ paired \in BOOLEAN /\ decoding \in BOOLEAN
    BY Zenon DEF Init
<1>5. lane \in {"e2e", "http", None} /\ buf \in Seq(Byte) /\ frames \in Seq(Frame)
      /\ wrote = Nothing
    BY <1>1 DEF Init
<1>6. QED
    BY <1>2, <1>3, <1>4, <1>5 DEF TypeOK

\* The bytes a payload may be.
LEMMA WrittenBytes ==
    ASSUME NEW batch \in Batches, NEW whole \in BOOLEAN, NEW cut \in Nat,
           whole \/ cut <= Len(Payload(batch))
    PROVE  LET bytes == IF whole THEN Payload(Encodables(batch)) ELSE SubSeq(Payload(batch), 1, cut)
           IN  bytes \in Seq(Byte) /\ batch \in Seq(Frame)
<1>1. batch \in Seq(Frame)
    BY BatchesAssumption
<1>2. Payload(Encodables(batch)) \in Seq(Byte)
    BY <1>1, EncodablesAreEncodable, PayloadIsBytes
<1>3. ASSUME ~whole PROVE SubSeq(Payload(batch), 1, cut) \in Seq(Byte)
  <2> DEFINE p == Payload(batch)
  <2>1. p \in Seq(Byte) /\ Len(p) \in Nat /\ cut <= Len(p)
      BY <1>1, <1>3, PayloadIsBytes, LenProperties
  <2> HIDE DEF p
  <2>2. \A i \in 1..cut : p[i] \in Byte
      BY <2>1, ElementOfSeq
  <2>3. SubSeq(p, 1, cut) \in Seq(Byte)
      BY <2>2, SubSeqProperties
  <2>4. QED
      BY <2>3 DEF p
<1>4. QED
    BY <1>1, <1>2, <1>3

\* No step leaves the types.
LEMMA TypesAtStep == TypeOK /\ [Next]_vars => TypeOK'
<1> SUFFICES ASSUME TypeOK, [Next]_vars PROVE TypeOK'
    OBVIOUS
<1>1. ASSUME NEW l \in {"e2e", "http"}, NEW batch \in Batches, NEW whole \in BOOLEAN, NEW cut \in Nat,
             whole \/ cut <= Len(Payload(batch)), ReadFrame(l, batch, whole, cut)
      PROVE  TypeOK'
  <2> DEFINE bytes == IF whole THEN Payload(Encodables(batch)) ELSE SubSeq(Payload(batch), 1, cut)
  <2>1. bytes \in Seq(Byte) /\ batch \in Seq(Frame)
      BY <1>1, WrittenBytes
  <2>2. buf' = bytes /\ wrote' = [bytes |-> bytes, batch |-> batch, whole |-> whole]
        /\ lane' = l /\ decoding' = TRUE /\ frames' = << >>
        /\ UNCHANGED <<token, stamp, apiKey, paired>>
      BY <1>1 DEF ReadFrame, connection
  <2> HIDE DEF bytes
  <2>3. wrote' \in [bytes: Seq(Byte), batch: Seq(Frame), whole: BOOLEAN]
      BY <2>1, <2>2
  <2>4. << >> \in Seq(Frame)
      OBVIOUS
  <2>5. QED
      BY <2>1, <2>2, <2>3, <2>4 DEF TypeOK
<1>2. CASE DecodeInnerOne
  <2>1. Append(frames, First(buf)) \in Seq(Frame) /\ Rest(buf) \in Seq(Byte)
      BY <1>2, DecodingMovesBytes DEF DecodeInnerOne, TypeOK
  <2>2. QED
      BY <1>2, <2>1 DEF DecodeInnerOne, TypeOK, connection
<1>3. Nothing \in [bytes: Seq(Byte), batch: Seq(Frame), whole: BOOLEAN]
  <2>1. ASSUME NEW w \in BOOLEAN
        PROVE  [bytes |-> << >>, batch |-> << >>, whole |-> w]
                  \in [bytes: Seq(Byte), batch: Seq(Frame), whole: BOOLEAN]
      OBVIOUS
  <2>2. QED
      BY <2>1 DEF Nothing
<1>4. CASE DecodeInnerAll
    BY <1>3, <1>4 DEF DecodeInnerAll, TypeOK, connection
<1>5. CASE DecodeFails
  <2>1. << >> \in Seq(Byte) /\ << >> \in Seq(Frame)
      OBVIOUS
  <2>2. paired' \in BOOLEAN
      BY <1>5 DEF DecodeFails, TypeOK
  <2>3. QED
      BY <1>3, <1>5, <2>1, <2>2 DEF DecodeFails, TypeOK
<1>6. CASE Handle
  <2>1. Tail(frames) \in Seq(Frame)
      BY <1>6, HeadTailProperties DEF Handle, TypeOK
  <2>2. frames' = Tail(frames) /\ UNCHANGED <<token, lane, decoding, buf, wrote, stamp, apiKey, paired>>
      BY <1>6 DEF Handle, connection
  <2>3. QED
      BY <2>1, <2>2 DEF TypeOK
<1>7. CASE NextMessage
    BY <1>7 DEF NextMessage, TypeOK, connection
<1>8. CASE RegenerateBearerToken
    BY <1>8 DEF RegenerateBearerToken, TypeOK, connection, reader
<1>9. CASE Connect
  <2>1. << >> \in Seq(Byte) /\ << >> \in Seq(Frame)
      OBVIOUS
  <2>2. stamp' \in 1..token' /\ token' \in Nat \ {0}
      BY <1>9 DEF Connect, TypeOK
  <2>3. apiKey' \in BOOLEAN /\ paired' \in BOOLEAN /\ decoding' \in BOOLEAN
      BY <1>9, Zenon DEF Connect
  <2>4. lane' = None /\ buf' = << >> /\ frames' = << >> /\ wrote' = wrote
      BY <1>9 DEF Connect
  <2>5. QED
      BY <2>1, <2>2, <2>3, <2>4 DEF TypeOK
<1>10. CASE SessionUp
    BY <1>10 DEF SessionUp, TypeOK, reader
<1>11. ASSUME NEW head \in LanHeads, LanRequest(head) PROVE TypeOK'
    BY <1>11 DEF LanRequest, TypeOK, connection, reader
<1>12. ASSUME NEW r \in requests, Serve(r) \/ Answered(r) PROVE TypeOK'
    BY <1>12 DEF Serve, Answered, TypeOK, connection, reader
<1>13. CASE UNCHANGED vars
    BY <1>13 DEF vars, TypeOK
<1>14. CASE Next
  <2>1. CASE \E l \in {"e2e", "http"}, batch \in Batches :
                \/ ReadFrame(l, batch, TRUE, 0)
                \/ \E cut \in 0..Len(Payload(batch)) : ReadFrame(l, batch, FALSE, cut)
    <3>1. PICK l \in {"e2e", "http"}, batch \in Batches :
             \/ ReadFrame(l, batch, TRUE, 0)
             \/ \E cut \in 0..Len(Payload(batch)) : ReadFrame(l, batch, FALSE, cut)
        BY <2>1
    <3>2. ASSUME NEW cut \in 0..Len(Payload(batch)) PROVE cut \in Nat /\ cut <= Len(Payload(batch))
      <4>1. Len(Payload(batch)) \in Nat
          BY BatchesAssumption, PayloadIsBytes, LenProperties
      <4>2. QED
          BY <3>2, <4>1
    <3>3. QED
        BY <1>1, <3>1, <3>2
  <2>2. QED
      BY <1>2, <1>4, <1>5, <1>6, <1>7, <1>8, <1>9, <1>10, <1>11, <1>12, <1>14, <2>1 DEF Next
<1>15. QED
    BY <1>13, <1>14

\* What the decoder does, as long as it goes on, moves bytes and takes frames of
\* the batch in their order.
LEMMA DecoderAtStep == TypeOK /\ DecoderInv /\ [Next]_vars => DecoderInv'
<1> SUFFICES ASSUME TypeOK, DecoderInv, [Next]_vars PROVE DecoderInv'
    OBVIOUS
<1>1. ASSUME NEW l, NEW batch \in Batches, NEW whole \in BOOLEAN, NEW cut \in Nat,
             whole \/ cut <= Len(Payload(batch)), ReadFrame(l, batch, whole, cut)
      PROVE  DecoderInv'
  <2> DEFINE bytes == IF whole THEN Payload(Encodables(batch)) ELSE SubSeq(Payload(batch), 1, cut)
             w == [bytes |-> bytes, batch |-> batch, whole |-> whole]
  <2>1. bytes \in Seq(Byte) /\ batch \in Seq(Frame)
      BY <1>1, WrittenBytes
  <2>2. buf' = bytes /\ wrote' = w /\ frames' = << >>
      BY <1>1 DEF ReadFrame
  <2>3. w.bytes = bytes /\ w.batch = batch /\ w.whole = whole
      OBVIOUS
  <2>4. whole => bytes = Payload(Encodables(batch))
      OBVIOUS
  <2> HIDE DEF bytes, w
  <2>5. Payload(<< >>) = << >> /\ << >> \o bytes = bytes /\ Len(<< >>) = 0
    <3>1. << >> \in Seq(Frame)
        OBVIOUS
    <3>2. QED
        BY <2>1, <3>1, PayloadIsBytes, ConcatEmptySeq
  <2>6. Len(Encodables(batch)) \in Nat
      BY <2>1, EncodablesAreEncodable, LenProperties
  <2>7. Payload(frames') \o buf' = wrote'.bytes
      BY <2>2, <2>3, <2>5
  <2>8. Len(frames') = 0
      BY <2>2, <2>5
  <2>9. wrote'.whole => wrote'.bytes = Payload(Encodables(wrote'.batch))
                        /\ 0 <= Len(Encodables(wrote'.batch))
      BY <2>2, <2>3, <2>4, <2>6
  <2>10. \A i \in 1..0 : FALSE
      OBVIOUS
  <2>11. QED
      BY <2>7, <2>8, <2>9, <2>10 DEF DecoderInv
<1>2. CASE DecodeInnerOne
  <2> DEFINE enc == Encodables(wrote.batch)
             fs == Append(frames, First(buf))
             rest == Rest(buf)
  <2>1. /\ decoding /\ buf # << >> /\ Whole(buf) /\ buf[1] \notin ReservedTypes
        /\ frames' = fs /\ buf' = rest /\ wrote' = wrote
      BY <1>2 DEF DecodeInnerOne
  <2>2. /\ buf \in Seq(Byte) /\ frames \in Seq(Frame) /\ wrote.batch \in Seq(Frame)
        /\ Len(frames) \in Nat
      BY LenProperties DEF TypeOK
  <2>3. Payload(fs) \o rest = wrote.bytes
      BY <2>1, <2>2, DecodingMovesBytes DEF DecoderInv
  <2>4. First(buf) \in Frame /\ First(buf).typ = buf[1]
      BY <2>1, <2>2, DecodedIsEncoded DEF First
  <2>5. Len(fs) = Len(frames) + 1 /\ fs[Len(frames) + 1] = First(buf)
        /\ \A i \in 1..Len(frames) : fs[i] = frames[i]
      BY <2>2, <2>4, AppendProperties
  <2> HIDE DEF fs
  <2>6. \A i \in 1..Len(fs) : fs[i].typ \notin ReservedTypes
    <3>1. \A i \in 1..Len(frames) : frames[i].typ \notin ReservedTypes
        BY <2>1 DEF DecoderInv
    <3>2. \A i \in 1..Len(fs) : i \in 1..Len(frames) \/ i = Len(frames) + 1
        BY <2>2, <2>5
    <3>3. QED
        BY <2>1, <2>4, <2>5, <3>1, <3>2
  <2>7. ASSUME wrote.whole
        PROVE  /\ wrote.bytes = Payload(enc) /\ Len(fs) <= Len(enc)
               /\ \A i \in 1..Len(fs) : fs[i] = enc[i]
    <3>1. /\ wrote.bytes = Payload(enc) /\ Len(frames) <= Len(enc)
          /\ \A i \in 1..Len(frames) : frames[i] = enc[i]
          /\ Payload(frames) \o buf = Payload(enc)
        BY <2>1, <2>7 DEF DecoderInv
    <3>2. enc \in Seq(Frame) /\ (\A i \in 1..Len(enc) : Encodable(enc[i])) /\ Len(enc) \in Nat
        BY <2>2, EncodablesAreEncodable, LenProperties
    <3> HIDE DEF enc
    <3>3. Len(frames) < Len(enc) /\ First(buf) = enc[Len(frames) + 1]
        BY <2>1, <2>2, <3>1, <3>2, NextOfBatch
    <3>4. Len(fs) <= Len(enc)
        BY <2>2, <2>5, <3>2, <3>3
    <3>5. ASSUME NEW i \in 1..Len(fs) PROVE fs[i] = enc[i]
      <4>1. i \in 1..Len(frames) \/ i = Len(frames) + 1
          BY <2>2, <2>5
      <4>2. QED
          BY <2>5, <3>1, <3>3, <4>1
    <3>6. QED
        BY <3>1, <3>4, <3>5
  <2>8. QED
      BY <2>1, <2>3, <2>6, <2>7 DEF DecoderInv
<1>3. ASSUME UNCHANGED <<decoding, buf, frames, wrote>> PROVE DecoderInv'
    BY <1>3 DEF DecoderInv
<1>4. ASSUME ~decoding' PROVE DecoderInv'
    BY <1>4 DEF DecoderInv
<1>5. CASE DecodeInnerAll \/ DecodeFails \/ Handle \/ NextMessage \/ Connect
    BY <1>4, <1>5 DEF DecodeInnerAll, DecodeFails, Handle, NextMessage, Connect
<1>6. CASE RegenerateBearerToken \/ SessionUp
    BY <1>3, <1>6 DEF RegenerateBearerToken, SessionUp, reader
<1>7. ASSUME NEW head \in LanHeads, LanRequest(head) PROVE DecoderInv'
    BY <1>3, <1>7 DEF LanRequest, reader
<1>8. ASSUME NEW r \in requests, Serve(r) \/ Answered(r) PROVE DecoderInv'
    BY <1>3, <1>8 DEF Serve, Answered, reader
<1>9. CASE UNCHANGED vars
    BY <1>3, <1>9 DEF vars
<1>10. CASE Next
  <2>1. CASE \E l \in {"e2e", "http"}, batch \in Batches :
                \/ ReadFrame(l, batch, TRUE, 0)
                \/ \E cut \in 0..Len(Payload(batch)) : ReadFrame(l, batch, FALSE, cut)
    <3>1. PICK l \in {"e2e", "http"}, batch \in Batches :
             \/ ReadFrame(l, batch, TRUE, 0)
             \/ \E cut \in 0..Len(Payload(batch)) : ReadFrame(l, batch, FALSE, cut)
        BY <2>1
    <3>2. ASSUME NEW cut \in 0..Len(Payload(batch)) PROVE cut \in Nat /\ cut <= Len(Payload(batch))
      <4>1. Len(Payload(batch)) \in Nat
          BY BatchesAssumption, PayloadIsBytes, LenProperties
      <4>2. QED
          BY <3>2, <4>1
    <3>3. QED
        BY <1>1, <3>1, <3>2
  <2>2. QED
      BY <1>2, <1>5, <1>6, <1>7, <1>8, <1>10, <2>1 DEF Next
<1>11. QED
    BY <1>9, <1>10

\* A sound request stays sound while the token only grows.
LEMMA SoundLater ==
    ASSUME NEW r, Sound(r), token \in Nat, token' \in Nat, token <= token'
    PROVE  Sound(r)'
<1>1. r.lane # "lan" => r.stamp <= token'
  <2>1. r.stamp \in Nat
      BY DEF Sound, Request
  <2>2. QED
      BY <2>1 DEF Sound
<1>2. QED
    BY <1>1, Zenon DEF Sound

\* Every request stays sound: those that enter, those that are served, the rest.
LEMMA RequestsAtStep == TypeOK /\ RequestsInv /\ [Next]_vars => RequestsInv'
<1> SUFFICES ASSUME TypeOK, RequestsInv, [Next]_vars PROVE RequestsInv'
    OBVIOUS
<1>1. token \in Nat /\ token' \in Nat /\ token <= token'
  <2>1. CASE RegenerateBearerToken
      BY <2>1 DEF RegenerateBearerToken, TypeOK
  <2>2. CASE UNCHANGED token
      BY <2>2 DEF TypeOK
  <2>3. QED
      BY <2>1, <2>2 DEF Next, ReadFrame, DecodeInnerOne, DecodeInnerAll, DecodeFails, Handle,
                        NextMessage, LanRequest, Serve, Answered, Connect, SessionUp, vars
<1>2. ASSUME NEW r \in requests PROVE Sound(r)'
    BY <1>1, SoundLater DEF RequestsInv
<1>3. ASSUME requests' \subseteq requests PROVE RequestsInv'
    BY <1>2, <1>3 DEF RequestsInv
<1>4. CASE Handle
  <2>1. token' = token
      BY <1>4 DEF Handle
  <2>2. ASSUME NEW head \in Heads, NEW r \in Requested(head) PROVE Sound(r)'
    <3> DEFINE headers == FilterRequestHeaders(head.headers)
               all == Append(headers, [name |-> "authorization", value |-> stamp])
    <3>1. /\ Allowed(lane, head.m, head.p)
          /\ r = [lane |-> lane, m |-> head.m, p |-> head.p, headers |-> all,
                  stamp |-> stamp, by |-> "waiting", expected |-> 0, upstream |-> << >>]
        BY <2>2 DEF Requested
    <3>2. head \in RequestHead
        BY HeadsAssumption
    <3>3. head.m \in STRING /\ head.p \in [segs: Seq(STRING), form: STRING, query: STRING]
          /\ head.headers \in Seq(AnyHeader)
        BY <3>2, HeadersAreAnyHeaders DEF RequestHead
    <3>4. stamp \in Nat /\ stamp <= token /\ lane \in {"e2e", "http"}
        BY <1>4 DEF TypeOK, Handle, None
    <3>5. headers \in Seq(AnyHeader) /\ \A i \in 1..Len(headers) : headers[i].name # "authorization"
        BY <3>3, NoCredentialLeft
    <3> HIDE DEF headers
    <3>6. all \in Seq(AnyHeader) /\ Credential(all) = stamp
        BY <3>4, <3>5, CredentialAppended
    <3> HIDE DEF all
    <3>7. << >> \in Seq(AnyHeader) /\ Len(<< >>) = 0
        OBVIOUS
    <3>8. r \in Request
        BY <3>1, <3>3, <3>4, <3>6, <3>7 DEF Request, Answers
    <3>9. /\ r.lane = lane /\ r.m = head.m /\ r.p = head.p /\ r.headers = all
          /\ r.stamp = stamp /\ r.by = "waiting" /\ r.upstream = << >>
        BY <3>1
    <3>10. /\ r.lane = "e2e" => CheckMethodPath(r.m, r.p)
           /\ r.lane = "http" => CheckHttpMethodPath(r.m, r.p)
        BY <3>1, <3>4, <3>9 DEF Allowed
    <3>11. QED
        BY <2>1, <3>4, <3>6, <3>7, <3>8, <3>9, <3>10 DEF Sound
  <2>3. ASSUME NEW r \in requests' PROVE r \in requests \/ \E head \in Heads : r \in Requested(head)
      BY <1>4, <2>3 DEF Handle
  <2>4. QED
      BY <1>2, <2>2, <2>3 DEF RequestsInv
<1>5. ASSUME NEW head \in LanHeads, LanRequest(head) PROVE RequestsInv'
  <2> DEFINE r == [lane |-> "lan", m |-> head.m, p |-> head.p, headers |-> head.headers,
                   stamp |-> 0, by |-> "waiting", expected |-> 0, upstream |-> << >>]
  <2>1. requests' = requests \cup {r}
      BY <1>5 DEF LanRequest
  <2>2. head \in RequestHead
      BY HeadsAssumption
  <2>3. head.m \in STRING /\ head.p \in [segs: Seq(STRING), form: STRING, query: STRING]
        /\ head.headers \in Seq(AnyHeader)
      BY <2>2, HeadersAreAnyHeaders DEF RequestHead
  <2>4. << >> \in Seq(AnyHeader) /\ Len(<< >>) = 0
      OBVIOUS
  <2>5. r \in Request
      BY <2>3, <2>4 DEF Request, Answers
  <2>6. r.lane = "lan" /\ r.by = "waiting" /\ r.upstream = << >>
      OBVIOUS
  <2> HIDE DEF r
  <2>7. Sound(r)'
      BY <2>4, <2>5, <2>6 DEF Sound
  <2>8. QED
      BY <1>2, <2>1, <2>7 DEF RequestsInv
<1>6. ASSUME NEW r \in requests, Serve(r) PROVE RequestsInv'
  <2> DEFINE by == ServedBy(r)
             up == IF by = "forward" THEN Forwarded(r.headers) ELSE << >>
             q == [r EXCEPT !.by = by, !.expected = token, !.upstream = up]
  <2>1. requests' = (requests \ {r}) \cup {q} /\ token' = token /\ r.by = "waiting"
      BY <1>6 DEF Serve
  <2>2. Sound(r) /\ r \in Request /\ r.p.segs \in Seq(STRING) /\ r.headers \in Seq(AnyHeader)
      BY DEF RequestsInv, Sound, Request
  <2>3. by = IF r.m = "OPTIONS" THEN "cors"
             ELSE IF Credential(r.headers) # token THEN "unauthorized"
             ELSE Handled(Routed(r.m, r.p), r.p)
      BY DEF ServedBy
  <2>4. by \in Answers
      BY <2>2, <2>3, HandledNames DEF Answers
  <2>5. up \in Seq(AnyHeader) /\ \A i \in 1..Len(up) : up[i].name # "authorization"
      BY <2>2, NoCredentialLeft
  <2>6. token \in Nat
      BY <1>1
  <2> HIDE DEF by, up
  <2>15. q = AsServed(r, by, token, up)
      BY DEF AsServed
  <2> HIDE DEF q
  <2>7. /\ q \in Request
        /\ q.lane = r.lane /\ q.m = r.m /\ q.p = r.p /\ q.headers = r.headers
        /\ q.stamp = r.stamp /\ q.by = by /\ q.expected = token /\ q.upstream = up
      BY <2>2, <2>4, <2>5, <2>6, <2>15, ServedFields
  <2>8. /\ q.lane = "e2e" => CheckMethodPath(q.m, q.p)
        /\ q.lane = "http" => CheckHttpMethodPath(q.m, q.p)
        /\ q.lane # "lan" => Credential(q.headers) = q.stamp /\ q.stamp <= token
      BY <2>2, <2>7 DEF Sound
  <2>9. q.by = IF q.m = "OPTIONS" THEN "cors"
               ELSE IF Credential(q.headers) # q.expected THEN "unauthorized"
               ELSE Handled(Routed(q.m, q.p), q.p)
      BY <2>3, <2>7
  <2>10. q.lane # "lan" => q.stamp <= q.expected
      BY <2>7, <2>8
  <2>11. \A i \in 1..Len(q.upstream) : q.upstream[i].name # "authorization"
      BY <2>5, <2>7
  <2>12. Sound(q)
      BY <2>7, <2>8, <2>9, <2>10, <2>11 DEF Sound
  <2>13. RequestsInv'
    <3>1. ASSUME NEW x \in requests' PROVE Sound(x)'
      <4>1. x \in requests \/ x = q
          BY <2>1, <3>1
      <4>2. CASE x \in requests
          BY <1>2, <4>2
      <4>3. CASE x = q
        <5>1. Sound(x)
            BY <2>12, <4>3
        <5>2. QED
            BY <1>1, <5>1, SoundLater
      <4>4. QED
          BY <4>1, <4>2, <4>3
    <3>2. QED
        BY <3>1 DEF RequestsInv
  <2>14. QED
      BY <2>13
<1>7. ASSUME NEW r \in requests, Answered(r) PROVE RequestsInv'
    BY <1>3, <1>7 DEF Answered
<1>8. CASE \E l \in {"e2e", "http"}, batch \in Batches :
              \/ ReadFrame(l, batch, TRUE, 0)
              \/ \E cut \in 0..Len(Payload(batch)) : ReadFrame(l, batch, FALSE, cut)
    BY <1>3, <1>8 DEF ReadFrame
<1>9. CASE DecodeInnerOne \/ DecodeInnerAll \/ DecodeFails \/ NextMessage
           \/ RegenerateBearerToken \/ Connect \/ SessionUp \/ UNCHANGED vars
    BY <1>3, <1>9 DEF DecodeInnerOne, DecodeInnerAll, DecodeFails, NextMessage,
                      RegenerateBearerToken, Connect, SessionUp, vars
<1>10. QED
    BY <1>4, <1>5, <1>6, <1>7, <1>8, <1>9 DEF Next

\* The invariant holds of every reachable state.
THEOREM Invariance == Spec => []IInv
<1>1. Init => IInv
    BY TypesAtInit DEF Init, IInv, DecoderInv, RequestsInv
<1>2. IInv /\ [Next]_vars => IInv'
    BY TypesAtStep, DecoderAtStep, RequestsAtStep DEF IInv
<1>3. QED
    BY <1>1, <1>2, PTL DEF Spec

(***************************************************************************)
(* The properties.                                                         *)
(***************************************************************************)

\* For any heads, however many, the plain lane costs inference and nothing more.
THEOREM OnlyInference == Spec => []InferenceOnly
<1>1. IInv => InferenceOnly
  <2>1. SUFFICES ASSUME IInv, NEW r \in requests, r.lane = "http", Served(r)
                 PROVE  r.by = "forward" /\ r.p.segs[1] = "v1"
      BY DEF InferenceOnly
  <2>2. Sound(r) /\ r.p.segs \in Seq(STRING)
      BY <2>1 DEF IInv, RequestsInv, Sound, Request
  <2>3. CheckHttpMethodPath(r.m, r.p)
      BY <2>1, <2>2 DEF Sound
  <2>4. r.m # "OPTIONS"
      BY <2>3, NoOptions
  <2>5. r.by = Handled(Routed(r.m, r.p), r.p)
      BY <2>1, <2>2, <2>4 DEF Sound, Served
  <2>6. QED
      BY <2>2, <2>3, <2>5, HttpPathsForwarded
<1>2. QED
    BY <1>1, Invariance, PTL

\* For any method and path, the handler is the one the allowlist let it in for.
THEOREM AllowlistAndRouterAgree == Spec => []RoutesAgree
<1>1. IInv => RoutesAgree
  <2>1. SUFFICES ASSUME IInv, NEW r \in requests, r.lane = "e2e", Served(r)
                 PROVE  \/ r.by = Meant(r.p.segs)
                        \/ r.m # Upper(r.m) /\ r.by = "method_not_allowed"
      BY DEF RoutesAgree
  <2>2. Sound(r) /\ r.p.segs \in Seq(STRING)
      BY <2>1 DEF IInv, RequestsInv, Sound, Request
  <2>3. CheckMethodPath(r.m, r.p)
      BY <2>1, <2>2 DEF Sound
  <2>4. r.m # "OPTIONS"
      BY <2>3, NoOptions
  <2>5. r.by = Handled(Routed(r.m, r.p), r.p)
      BY <2>1, <2>2, <2>4 DEF Sound, Served
  <2>6. QED
      BY <2>2, <2>3, <2>5, E2EPathsRouted
<1>2. QED
    BY <1>1, Invariance, PTL

\* For headers of any number and any order, the token decides; a request of the
\* relay's is only refused for a token that was regenerated since.
THEOREM TheTokenDecides == Spec => []TokenDecides
<1>1. IInv => TokenDecides
  <2>1. SUFFICES ASSUME IInv, NEW r \in requests
                 PROVE  /\ Served(r) => \/ r.by = "cors" /\ r.lane = "lan"
                                        \/ Credential(r.headers) = r.expected
                        /\ r.lane # "lan" /\ r.by = "unauthorized" => r.stamp < r.expected
                        /\ \A i \in DOMAIN r.upstream : r.upstream[i].name # "authorization"
      BY DEF TokenDecides
  <2>2. Sound(r) /\ r \in Request /\ r.p.segs \in Seq(STRING)
      BY <2>1 DEF IInv, RequestsInv, Sound, Request
  <2>3. r.lane # "lan" => r.m # "OPTIONS"
    <3>1. r.lane # "lan" => CheckMethodPath(r.m, r.p) \/ CheckHttpMethodPath(r.m, r.p)
        BY <2>2 DEF Sound, Request
    <3>2. QED
        BY <3>1, NoOptions
  <2>4. Served(r) => \/ r.by = "cors" /\ r.lane = "lan"
                     \/ Credential(r.headers) = r.expected
      BY <2>2, <2>3 DEF Sound, Served
  <2>5. ASSUME r.lane # "lan", r.by = "unauthorized" PROVE r.stamp < r.expected
    <3>1. Handled(Routed(r.m, r.p), r.p) # "unauthorized"
        BY <2>2, HandledNames DEF Handlers
    <3>2. Credential(r.headers) # r.expected /\ Credential(r.headers) = r.stamp
          /\ r.stamp <= r.expected
        BY <2>2, <2>3, <2>5, <3>1 DEF Sound
    <3>3. r.stamp \in Nat /\ r.expected \in Nat
        BY <2>2 DEF Request
    <3>4. QED
        BY <3>2, <3>3
  <2>6. \A i \in DOMAIN r.upstream : r.upstream[i].name # "authorization"
    <3>1. DOMAIN r.upstream = 1..Len(r.upstream)
        BY <2>2, LenProperties DEF Request
    <3>2. QED
        BY <2>2, <3>1 DEF Sound
  <2>7. QED
      BY <2>4, <2>5, <2>6
<1>2. QED
    BY <1>1, Invariance, PTL

\* For every base and batches of any length, the decoder hands on what was
\* written, all of it, or drops the payload.
THEOREM DecodingIsExact == Spec => DecodesExactly
<1> DEFINE Exact ==
              decoding /\ ~decoding' =>
                \/ wrote.whole /\ frames' = Encodables(wrote.batch)
                \/ ~wrote.whole /\ lane' = None /\ frames' = << >>
                \/ /\ ~wrote.whole /\ Payload(frames') = wrote.bytes
                   /\ \A i \in DOMAIN frames' : frames'[i].typ \notin ReservedTypes
<1>1. ASSUME IInv, [Next]_vars PROVE [Exact]_<<decoding, buf, frames>>
  <2>1. SUFFICES ASSUME decoding, ~decoding' PROVE Exact
      OBVIOUS
  <2>2. DecodeInnerAll \/ DecodeFails
      BY <1>1, <2>1 DEF Next, vars, ReadFrame, DecodeInnerOne, Handle, NextMessage, LanRequest,
                        Serve, Answered, RegenerateBearerToken, Connect, SessionUp, reader
  <2> DEFINE enc == Encodables(wrote.batch)
  <2>3. /\ buf \in Seq(Byte) /\ frames \in Seq(Frame) /\ enc \in Seq(Frame)
        /\ \A i \in 1..Len(enc) : Encodable(enc[i])
        /\ wrote.whole \in BOOLEAN
      BY <1>1, EncodablesAreEncodable DEF IInv, TypeOK
  <2>4. /\ Payload(frames) \o buf = wrote.bytes
        /\ \A i \in 1..Len(frames) : frames[i].typ \notin ReservedTypes
      BY <1>1, <2>1 DEF IInv, DecoderInv
  <2>5. wrote.whole => /\ wrote.bytes = Payload(enc) /\ Len(frames) <= Len(enc)
                       /\ \A i \in 1..Len(frames) : frames[i] = enc[i]
      BY <1>1, <2>1 DEF IInv, DecoderInv
  <2> HIDE DEF enc
  <2>6. ASSUME wrote.whole
        PROVE  \/ buf = << >> /\ frames = enc
               \/ buf # << >> /\ Whole(buf) /\ buf[1] \notin ReservedTypes
    <3>1. /\ Len(frames) <= Len(enc) /\ \A i \in 1..Len(frames) : frames[i] = enc[i]
          /\ Payload(frames) \o buf = Payload(enc)
        BY <2>4, <2>5, <2>6
    <3>2. enc \in Seq(Frame) /\ (\A i \in 1..Len(enc) : Encodable(enc[i]))
        BY <2>3
    <3>3. QED
        BY <2>3, <3>1, <3>2, NextOfBatch
  <2>7. CASE DecodeInnerAll
    <3>1. buf = << >> /\ frames' = frames
        BY <2>7 DEF DecodeInnerAll
    <3>2. CASE wrote.whole
        BY <2>6, <3>1, <3>2 DEF enc
    <3>3. CASE ~wrote.whole
      <4>1. Payload(frames) \in Seq(Byte)
          BY <2>3, PayloadIsBytes
      <4>2. Payload(frames) = wrote.bytes
          BY <2>4, <3>1, <4>1, ConcatEmptySeq
      <4>3. DOMAIN frames = 1..Len(frames)
          BY <2>3, LenProperties
      <4>4. QED
          BY <2>4, <3>1, <3>3, <4>2, <4>3
    <3>4. QED
        BY <3>2, <3>3
  <2>8. CASE DecodeFails
    <3>1. buf # << >> /\ (~Whole(buf) \/ buf[1] \in ReservedTypes) /\ lane' = None /\ frames' = << >>
        BY <2>8 DEF DecodeFails
    <3>2. ~wrote.whole
        BY <2>6, <3>1
    <3>3. QED
        BY <3>1, <3>2
  <2>9. QED
      BY <2>2, <2>7, <2>8
<1>2. QED
    BY <1>1, Invariance, PTL DEF Spec, DecodesExactly
=============================================================================
