-------------------------------- MODULE Wire --------------------------------
(***************************************************************************)
(* nanopb's streams and scalars (pb_decode.c, pb_encode.c): varints,       *)
(* zigzag, fixed-width integers and tags, on a byte of one continuation    *)
(* bit and a payload. The widths are parameters, so that a varint's last   *)
(* byte holds less than a payload, as it does with 7, 32 and 64 bits.      *)
(*                                                                         *)
(* A reader returns [ok, s, v]; the stream is returned on failure, too,    *)
(* since pb_decode_tag looks at what is left of it.                        *)
(***************************************************************************)
EXTENDS Integers, Sequences, SequencesExt

CONSTANTS Payload,   \* bits of a byte without the continuation bit, 7 in the code
          Bits32, Bits64

ASSUME WidthAssumption == Payload \in 2..7 /\ Bits32 \in Nat \ {0} /\ Bits64 = 2 * Bits32

Base == 2^Payload
Byte == 0..2*Base-1

Ok(s, v) == [ok |-> TRUE, s |-> s, v |-> v]
Fail(s) == [ok |-> FALSE, s |-> s, v |-> 0]

-----------------------------------------------------------------------------
(* Input streams: a position in a buffer, and how much may be read. A      *)
(* buffer that is shorter stands for a callback that fails.                *)

FromBuffer(bytes) == [buf |-> bytes, at |-> 0, left |-> Len(bytes)]

\* pb_read, pb_readbyte.
Read(s, n) ==
    IF s.left < n \/ s.at + n > Len(s.buf) THEN Fail(s)
    ELSE Ok([s EXCEPT !.at = @ + n, !.left = @ - n], SubSeq(s.buf, s.at + 1, s.at + n))

\* pb_decode_varint and pb_decode_varint32: a byte may start below the width.
\* Bits that do not fit are lost.
RECURSIVE VarintFrom(_, _, _, _)
VarintNext(r, bits, i, v) ==
    IF ~r.ok THEN Fail(r.s)
    ELSE IF r.v[1] >= Base
         THEN VarintFrom(r.s, bits, i + 1, (v + (r.v[1] % Base) * Base^i) % 2^bits)
         ELSE Ok(r.s, (v + r.v[1] * Base^i) % 2^bits)

VarintFrom(s, bits, i, v) ==
    IF Payload * i >= bits THEN Fail(s) ELSE VarintNext(Read(s, 1), bits, i, v)

Varint(s, bits) == VarintFrom(s, bits, 0, 0)

\* Two's complement.
ToUnsigned(v, bits) == v % 2^bits
ToSigned(v, bits) ==
    IF v % 2^bits >= 2^(bits-1) THEN (v % 2^bits) - 2^bits ELSE v % 2^bits

Zag(r) == IF ~r.ok THEN r ELSE Ok(r.s, IF r.v % 2 = 1 THEN -(r.v \div 2) - 1 ELSE r.v \div 2)

\* pb_decode_svarint.
Svarint(s) == Zag(Varint(s, Bits64))

\* pb_decode_fixed32, pb_decode_fixed64: little endian.
RECURSIVE LittleEndian(_)
LittleEndian(bytes) == IF bytes = <<>> THEN 0 ELSE Head(bytes) + 2 * Base * LittleEndian(Tail(bytes))

Valued(r) == IF r.ok THEN Ok(r.s, LittleEndian(r.v)) ELSE r
Fixed(s, bits) == Valued(Read(s, bits \div (Payload + 1)))

-----------------------------------------------------------------------------
(* Tags and fields nobody knows.                                           *)

WT_VARINT == 0
WT_64BIT == 1
WT_STRING == 2
WT_32BIT == 5

\* pb_decode_tag: the end of the stream is no error, nor is a zero.
Tag(r) == IF r.ok THEN [ok |-> r.v # 0, eof |-> r.v = 0, s |-> r.s, tag |-> r.v \div 8, wt |-> r.v % 8]
          ELSE [ok |-> FALSE, eof |-> r.s.left = 0, s |-> r.s, tag |-> 0, wt |-> 0]
DecodeTag(s) == Tag(Varint(s, Bits32))

RECURSIVE SkipVarint(_)
SkippedByte(r) == IF r.ok /\ r.v[1] >= Base THEN SkipVarint(r.s) ELSE r

SkipVarint(s) == SkippedByte(Read(s, 1))

ReadSized(r) == IF r.ok THEN Read(r.s, r.v) ELSE r

\* pb_skip_field.
SkipField(s, wt) ==
    CASE wt = WT_VARINT -> SkipVarint(s)
      [] wt = WT_64BIT -> Read(s, Bits64 \div (Payload + 1))
      [] wt = WT_32BIT -> Read(s, Bits32 \div (Payload + 1))
      [] wt = WT_STRING -> ReadSized(Varint(s, Bits32))
      [] OTHER -> Fail(s)

\* pb_make_string_substream: the part of the parent a length delimits.
Substream(r) ==
    IF ~r.ok \/ r.s.left < r.v THEN Fail(r.s)
    ELSE Ok([r.s EXCEPT !.left = @ - r.v], [r.s EXCEPT !.left = r.v])

MakeSubstream(s) == Substream(Varint(s, Bits32))

\* pb_close_string_substream: what nobody read is skipped.
Closed(parent, r) == IF r.ok THEN Ok([parent EXCEPT !.at = r.s.at], 0) ELSE Fail(parent)
CloseSubstream(parent, sub) == Closed(parent, Read(sub, sub.left))

-----------------------------------------------------------------------------
(* Writers, as the bytes they write.                                       *)

RECURSIVE VarintBytes(_)
VarintBytes(v) == IF v < Base THEN <<v>> ELSE <<(v % Base) + Base>> \o VarintBytes(v \div Base)

\* pb_encode_svarint.
SvarintBytes(v) ==
    VarintBytes(IF v < 0 THEN 2^Bits64 - 1 - ToUnsigned(2 * v, Bits64) ELSE ToUnsigned(2 * v, Bits64))

RECURSIVE FixedBytes(_, _)
FixedBytes(v, n) == IF n = 0 THEN <<>> ELSE <<v % (2 * Base)>> \o FixedBytes(v \div (2 * Base), n - 1)

TagBytes(wt, tag) == VarintBytes(8 * tag + wt)
=============================================================================
