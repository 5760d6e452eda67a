----------------------------- MODULE WireFields -----------------------------
(***************************************************************************)
(* The fields of the binary protocol (proto.hpp) and its frames            *)
(* (framed_tls.hpp).  A byte is a digit to the base Byte, 256 in the code, *)
(* so an u16 has two digits and wraps at Byte^2.                           *)
(***************************************************************************)
EXTENDS Integers, Sequences

CONSTANT Byte    \* 256 in the code

ASSUME ByteAssumption == Byte \in Nat \ {0, 1}

U8  == Byte
U16 == Byte * Byte
U32 == U16 * U16

-----------------------------------------------------------------------------
(* put_u8, put_u16, put_u32, put_str: most significant byte first *)

put_u8(v)  == <<v % U8>>
put_u16(v) == <<(v \div Byte) % Byte, v % Byte>>
put_u32(v) == put_u16(v \div U16) \o put_u16(v % U16)
put_str(s) == put_u16(Len(s)) \o s

\* what a field of one of these types is written as
PutScalar(t, v) == CASE t = "u8"  -> put_u8(v)  [] t = "u16" -> put_u16(v)
                     [] t = "u32" -> put_u32(v) [] t = "str" -> put_str(v)

-----------------------------------------------------------------------------
(* get_u8, get_u16, get_u32, get_str: what was read and the bytes left, or  *)
(* Underflow, the exception.                                                *)

Underflow  == [ok |-> FALSE, v |-> 0, rest |-> <<>>]
Got(v, b, n) == [ok |-> TRUE, v |-> v, rest |-> SubSeq(b, n + 1, Len(b))]

\* what memory behind the buffer holds, when a check lets it be read
At(b, i) == IF i <= Len(b) THEN b[i] ELSE 0

get_u8(b)  == IF Len(b) < 1 THEN Underflow ELSE Got(At(b, 1), b, 1)
get_u16(b) == IF Len(b) < 2 THEN Underflow ELSE Got(At(b, 1) * Byte + At(b, 2), b, 2)

\* A plausible slip: the check of get_u32 is off by one.
get_u32_lax(b) ==
  IF Len(b) < 3 THEN Underflow
  ELSE Got((At(b, 1) * Byte + At(b, 2)) * U16 + At(b, 3) * Byte + At(b, 4), b, 4)

get_u32(b) ==
  IF Len(b) < 4 THEN Underflow
  ELSE Got((At(b, 1) * Byte + At(b, 2)) * U16 + At(b, 3) * Byte + At(b, 4), b, 4)

get_str(b) ==
  LET n == get_u16(b)
  IN  IF ~n.ok \/ Len(n.rest) < n.v THEN Underflow
      ELSE Got(SubSeq(n.rest, 1, n.v), n.rest, n.v)

\* reading a field of one of these types
GetScalar(t, b) == CASE t = "u8"  -> get_u8(b)  [] t = "u16" -> get_u16(b)
                     [] t = "u32" -> get_u32(b) [] t = "str" -> get_str(b)

-----------------------------------------------------------------------------
(* Frames: the length counts the type byte.  The type stands for itself.    *)

\* A plausible slip: the length is that of the payload.
FrameWithoutType(type, payload) == put_u32(Len(payload)) \o <<type>> \o payload

\* async_write_frame, write_frame
Frame(type, payload) == put_u32(1 + Len(payload)) \o <<type>> \o payload

\* read_frame, and read_ack and read_alarm_ack of the region's client: the body of
\* the frame b begins with, and the bytes after it, whatever its length.  A frame
\* that is not complete is waited for.
ReadFrame(b) ==
  LET h == get_u32(b)
  IN  IF ~h.ok \/ Len(h.rest) < h.v THEN Underflow
      ELSE Got(SubSeq(h.rest, 1, h.v), h.rest, h.v)

\* read_header and read_body of the two servers' sessions and of the lamp: the
\* same, but a length of 0 or over max ends the reading.
ReadFrameUpTo(b, max) ==
  LET h == get_u32(b)
  IN  IF h.ok /\ (h.v < 1 \/ h.v > max) THEN Underflow ELSE ReadFrame(b)
=============================================================================
