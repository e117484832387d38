------------------------------ MODULE InnerFrames ------------------------------
(***************************************************************************)
(* The inner frames of the relay protocol (relay/wire.rs): a batch of      *)
(* frames is one string of bytes, each frame a type, a stream id of four   *)
(* digits, a length of three and the payload.  A byte of the id or of the  *)
(* length is a digit to the base Base; the program's base is 256.          *)
(***************************************************************************)
EXTENDS Naturals, Sequences

CONSTANTS
    Base,           \* the values of a byte
    ReservedTypes   \* WINDOW_UPDATE, PING, PONG

ASSUME BaseAssumption == Base \in Nat /\ Base > 1

Byte == 0..(Base - 1)
HeaderLen == 1 + 4 + 3
MaxPayload == Base * Base * Base - 1
StreamIds == 0..(Base * Base * Base * Base - 1)
Frame == [typ: Byte, id: StreamIds, payload: Seq(Byte)]

\* Big-endian digits, and their value.
IdBytes(id) ==
    << (((id \div Base) \div Base) \div Base) % Base, ((id \div Base) \div Base) % Base,
       (id \div Base) % Base, id % Base >>
LengthBytes(n) == << ((n \div Base) \div Base) % Base, (n \div Base) % Base, n % Base >>
IdOf(b1, b2, b3, b4) == ((b1 * Base + b2) * Base + b3) * Base + b4
LengthOf(b1, b2, b3) == (b1 * Base + b2) * Base + b3

\* Mutant: the length is cut to its three digits.
EncodableAnyLength(f) == f.typ \notin ReservedTypes

Encodable(f) == Len(f.payload) <= MaxPayload /\ f.typ \notin ReservedTypes

EncodeInner(f) ==
    <<f.typ>> \o IdBytes(f.id) \o LengthBytes(Len(f.payload)) \o f.payload

\* What one iteration of decode_inner_all takes from the front of buf.
PayloadLen(buf) == LengthOf(buf[6], buf[7], buf[8])
HasHeader(buf) == Len(buf) >= HeaderLen
Whole(buf) == HasHeader(buf) /\ Len(buf) - HeaderLen >= PayloadLen(buf)
First(buf) ==
    [typ |-> buf[1],
     id |-> IdOf(buf[2], buf[3], buf[4], buf[5]),
     payload |-> SubSeq(buf, HeaderLen + 1, HeaderLen + PayloadLen(buf))]
Rest(buf) == SubSeq(buf, HeaderLen + PayloadLen(buf) + 1, Len(buf))
=============================================================================
