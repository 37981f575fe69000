------------------------------ MODULE Decoder -------------------------------
(***************************************************************************)
(* pb_decode of nanopb, as it is built here: without malloc, so fields are *)
(* static or callbacks (Pods/Target Support Files/nanopb/nanopb.xcconfig). *)
(*                                                                         *)
(* A descriptor is a sequence of fields: [tag, ltype, htype, atype, width, *)
(* has, array_size, sub, default, union]. A message has a cell [n, v] for  *)
(* each field: n is has_ or the count, or 1 for the field which_ names in  *)
(* its union.                                                              *)
(***************************************************************************)
EXTENDS Wire, FiniteSets

CONSTANTS PB_MAX_REQUIRED_FIELDS,
          WordBits,     \* 32 in the code
          ShiftByWord,  \* what the build makes of allbits >> WordBits
          Width8, RawMax \* the smallest integer, and the bytes of a raw value

ASSUME RequiredAssumption ==
    /\ WordBits \in Nat \ {0} /\ PB_MAX_REQUIRED_FIELDS % WordBits = 0
    /\ ShiftByWord \in {"zero", "allbits"}

Packable == {"varint", "uvarint", "svarint", "fixed32", "fixed64"}

-----------------------------------------------------------------------------
(* Default values.                                                         *)

\* pb_field_set_to_default: callbacks stay, the contents of arrays and unions
\* are not touched.
RECURSIVE SetToDefaults(_, _), SetToDefault(_, _)
SetToDefault(f, cell) ==
    CASE f.atype = "callback" /\ f.ltype # "extension" -> cell
      [] f.ltype = "extension" ->
           [cell EXCEPT !.v = [i \in DOMAIN cell.v |->
               [cell.v[i] EXCEPT !.found = FALSE, !.cell = SetToDefault(cell.v[i].field, cell.v[i].cell)]]]
      [] f.ltype # "extension" /\ f.atype = "static" /\ f.htype \in {"repeated", "oneof"} -> [n |-> 0, v |-> <<>>]
      [] OTHER -> [n |-> 0, v |-> IF f.ltype = "submessage" THEN SetToDefaults(f.sub, cell.v) ELSE f.default]
SetToDefaults(fields, m) == [i \in DOMAIN fields |-> SetToDefault(fields[i], m[i])]

\* memset to zero: no callbacks, no extensions.
RECURSIVE Zeros(_)
Zero(f) ==
    [n |-> 0, v |-> CASE f.atype = "callback" /\ f.ltype # "extension" -> [set |-> FALSE, items |-> <<>>, later |-> <<>>]
                      [] f.atype = "static" /\ f.ltype = "submessage" /\ f.htype # "repeated" -> Zeros(f.sub)
                      [] f.ltype = "fixed_length_bytes" /\ f.htype # "repeated" -> [i \in 1..f.width |-> 0]
                      [] f.ltype \in Packable /\ f.htype # "repeated" -> 0
                      [] OTHER -> <<>>]
Zeros(fields) == [i \in DOMAIN fields |-> Zero(fields[i])]

-----------------------------------------------------------------------------
(* Values.                                                                 *)

\* pb_dec_varint: a field of at most 32 bits is cast to int32 first; the value
\* must survive the cast to the field.
Clamped(r, v, clamped) == IF v = clamped THEN Ok(r.s, clamped) ELSE Fail(r.s)
Fitted(f, r) ==
    IF ~r.ok THEN r
    ELSE CASE f.ltype = "varint" /\ f.width = Bits64 -> Ok(r.s, ToSigned(r.v, Bits64))
           [] f.ltype = "varint" /\ f.width < Bits64 ->
                Clamped(r, ToSigned(r.v, Bits32), ToSigned(r.v, f.width))
           [] f.ltype = "uvarint" -> Clamped(r, r.v, r.v % 2^f.width)
           [] f.ltype = "svarint" -> Clamped(r, r.v, ToSigned(r.v, f.width))

\* Mutant of Sized: a string may be cut short.
SizedShort(f, r) ==
    CASE ~r.ok -> r
      [] r.ok /\ f.ltype = "string" ->
           IF r.v + 1 > f.width THEN Fail(r.s) ELSE Read(r.s, IF r.v < r.s.left THEN r.v ELSE r.s.left)
      [] r.ok /\ f.ltype = "bytes" -> IF r.v > f.width THEN Fail(r.s) ELSE Read(r.s, r.v)
      [] r.ok /\ f.ltype = "fixed_length_bytes" ->
           IF r.v = 0 THEN Ok(r.s, [i \in 1..f.width |-> 0])
           ELSE IF r.v # f.width THEN Fail(r.s) ELSE Read(r.s, f.width)

\* pb_dec_bytes, pb_dec_string (room for the terminator), pb_dec_fixed_length_bytes.
Sized(f, r) ==
    CASE ~r.ok -> r
      [] r.ok /\ f.ltype = "bytes" -> IF r.v > f.width THEN Fail(r.s) ELSE Read(r.s, r.v)
      [] r.ok /\ f.ltype = "string" -> IF r.v + 1 > f.width THEN Fail(r.s) ELSE Read(r.s, r.v)
      [] r.ok /\ f.ltype = "fixed_length_bytes" ->
           IF r.v = 0 THEN Ok(r.s, [i \in 1..f.width |-> 0])
           ELSE IF r.v # f.width THEN Fail(r.s) ELSE Read(r.s, f.width)

RECURSIVE DecodeLoop(_, _, _, _)

\* pb_decode_noinit and pb_decode.
DecodeNoInit(s, fields, m) == DecodeLoop(s, fields, m, {})
Decode(s, fields, m) == DecodeNoInit(s, fields, SetToDefaults(fields, m))

\* pb_dec_submessage: array entries are initialised, others are merged into.
CloseAs(r, parent) == IF r.ok THEN (LET c == CloseSubstream(parent, r.s) IN [c EXCEPT !.v = r.v]) ELSE r
DecSubmessage(f, sub, old) ==
    IF ~sub.ok THEN sub
    ELSE CloseAs(IF f.htype = "repeated" THEN Decode(sub.v, f.sub, Zeros(f.sub))
                 ELSE DecodeNoInit(sub.v, f.sub, old), sub.s)

\* PB_DECODERS.
DecodeValue(f, s, old) ==
    CASE f.ltype \in {"varint", "uvarint"} -> Fitted(f, Varint(s, Bits64))
      [] f.ltype = "svarint" -> Fitted(f, Svarint(s))
      [] f.ltype = "fixed32" -> Fixed(s, Bits32)
      [] f.ltype = "fixed64" -> Fixed(s, Bits64)
      [] f.ltype \in {"bytes", "string", "fixed_length_bytes"} -> Sized(f, Varint(s, Bits32))
      [] f.ltype = "submessage" -> DecSubmessage(f, MakeSubstream(s), old)

-----------------------------------------------------------------------------
(* Fields.                                                                 *)

\* A packed array: items until the substream or the array ends.
RECURSIVE Unpack(_, _, _)
Unpacked(f, r, vs) == IF r.ok THEN Unpack(f, r.s, Append(vs, r.v)) ELSE r
Unpack(f, sub, vs) ==
    IF sub.left = 0 \/ Len(vs) >= f.array_size THEN Ok(sub, vs)
    ELSE Unpacked(f, DecodeValue(f, sub, 0), vs)

AllUnpacked(r, parent) == IF r.ok /\ r.s.left # 0 THEN Fail(parent) ELSE CloseAs(r, parent)

DecodePacked(f, sub, vs) == IF sub.ok THEN AllUnpacked(Unpack(f, sub.v, vs), sub.s) ELSE sub

Counted(r) == IF r.ok THEN Ok(r.s, [n |-> Len(r.v), v |-> r.v]) ELSE r
Appended(r, vs) == IF r.ok THEN Ok(r.s, Append(vs, r.v)) ELSE r
Present(r, n) == IF r.ok THEN Ok(r.s, [n |-> n, v |-> r.v]) ELSE r

\* One more item, in a field of its own.
Another(f, s, vs) ==
    IF Len(vs) >= f.array_size THEN Fail(s) ELSE Counted(Appended(DecodeValue(f, s, 0), vs))

\* decode_static_field.
DecodeStatic(f, wt, s, cell) ==
    CASE f.htype \in {"required", "optional"} -> Present(DecodeValue(f, s, cell.v), IF f.has THEN 1 ELSE 0)
      [] f.htype = "repeated" /\ wt = WT_STRING /\ f.ltype \in Packable ->
           Counted(DecodePacked(f, MakeSubstream(s), cell.v))
      [] f.htype = "repeated" /\ ~(wt = WT_STRING /\ f.ltype \in Packable) ->
           Another(f, s, cell.v)
      [] f.htype = "oneof" ->
           Present(DecodeValue(f, s, IF f.ltype = "submessage" THEN SetToDefaults(f.sub, Zeros(f.sub)) ELSE 0), 1)

\* A callback reads one varint; it is called until its stream is used up.
RECURSIVE CallAll(_, _)
Called(r, items) == IF ~r.ok THEN r ELSE IF r.s.left = 0 THEN Ok(r.s, Append(items, r.v)) ELSE CallAll(r.s, Append(items, r.v))
CallAll(s, items) == Called(Varint(s, Bits64), items)

\* read_raw_value, to give the callback a stream of its own.
RECURSIVE RawVarint(_, _)
RawByte(r, bytes) ==
    IF ~r.ok THEN r
    ELSE IF r.v[1] >= Base THEN RawVarint(r.s, bytes \o r.v) ELSE Ok(r.s, bytes \o r.v)
RawVarint(s, bytes) == IF Len(bytes) >= RawMax THEN Fail(s) ELSE RawByte(Read(s, 1), bytes)
RawValue(s, wt) == IF wt = WT_VARINT THEN RawVarint(s, <<>>)
                   ELSE IF wt \in {WT_32BIT, WT_64BIT} THEN SkipField(s, wt) ELSE Fail(s)
OwnStream(r, items) ==
    IF ~r.ok THEN r ELSE (LET c == Varint(FromBuffer(r.v), Bits64) IN IF c.ok THEN Ok(r.s, Append(items, c.v)) ELSE c)

Skipped(r, cell) == IF r.ok THEN Ok(r.s, cell) ELSE r
Collected(r, cell) == IF r.ok THEN Ok(r.s, [cell EXCEPT !.v.items = r.v]) ELSE r
CallSub(sub, items) == IF sub.ok THEN CloseAs(CallAll(sub.v, items), sub.s) ELSE sub

\* decode_callback_field.
DecodeCallback(wt, s, cell) ==
    IF ~cell.v.set THEN Skipped(SkipField(s, wt), cell)
    ELSE IF wt = WT_STRING THEN Collected(CallSub(MakeSubstream(s), cell.v.items), cell)
    ELSE Collected(OwnStream(RawValue(s, wt), cell.v.items), cell)

\* decode_field. Pointers fail: "no malloc support".
DecodeField(f, wt, s, cell) ==
    CASE f.atype = "static" -> DecodeStatic(f, wt, s, cell)
      [] f.atype = "callback" -> DecodeCallback(wt, s, cell)
      [] f.atype = "pointer" -> Fail(s)

\* decode_extension: each is asked in turn until one has moved the stream.
RECURSIVE DecodeExtensions(_, _, _, _, _)
Extended(r, exts, i, tag, wt, s) ==
    IF ~r.ok THEN r
    ELSE IF r.s.left # s.left THEN Ok(r.s, [exts EXCEPT ![i].found = TRUE, ![i].cell = r.v])
    ELSE DecodeExtensions(exts, i + 1, tag, wt, s)
DecodeExtensions(exts, i, tag, wt, s) ==
    IF i > Len(exts) THEN Ok(s, exts)
    ELSE IF exts[i].field.tag # tag THEN DecodeExtensions(exts, i + 1, tag, wt, s)
    ELSE Extended(DecodeField(exts[i].field, wt, s, exts[i].cell), exts, i, tag, wt, s)

-----------------------------------------------------------------------------
(* Messages.                                                               *)

\* pb_field_iter_find and find_extension_field: 0 where there is none.
The(S) == IF S = {} THEN 0 ELSE CHOOSE i \in S : TRUE
Find(fields, tag) == The({i \in DOMAIN fields : fields[i].tag = tag /\ fields[i].ltype # "extension"})
FindExtension(fields) == The({i \in DOMAIN fields : fields[i].ltype = "extension"})

RequiredBefore(fields, i) == Cardinality({j \in 1..i-1 : fields[j].htype = "required"})

\* The required fields seen, as words of bits: whole words, then the rest.
SawRequired(fields, seen) ==
    LET count == RequiredBefore(fields, Len(fields) + 1)
        Word(w) == {b \in 0..WordBits-1 : w * WordBits + b \in seen}
    IN  \/ count = 0
        \/ /\ \A w \in 0..(count \div WordBits)-1 : Word(w) = 0..WordBits-1
           /\ Word(count \div WordBits) =
                IF count % WordBits # 0 THEN 0..(count % WordBits)-1
                ELSE IF ShiftByWord = "zero" THEN {} ELSE 0..WordBits-1

\* A field of a union takes which_ from the others.
PutCell(fields, m, i, cell) ==
    [j \in DOMAIN m |->
        IF j = i THEN cell
        ELSE IF fields[i].htype = "oneof" /\ fields[j].htype = "oneof" /\ fields[j].union = fields[i].union
        THEN [n |-> 0, v |-> <<>>] ELSE m[j]]

AfterField(r, fields, m, i, seen) ==
    IF ~r.ok THEN r
    ELSE DecodeLoop(r.s, fields, PutCell(fields, m, i, r.v),
                    IF fields[i].htype = "required" /\ RequiredBefore(fields, i) < PB_MAX_REQUIRED_FIELDS
                    THEN seen \cup {RequiredBefore(fields, i)} ELSE seen)

AfterSkip(r, fields, m, seen) == IF r.ok THEN DecodeLoop(r.s, fields, m, seen) ELSE r
AfterExtension(r, fields, m, e, wt, seen, s) ==
    IF ~r.ok THEN r
    ELSE IF r.s.left # s.left THEN DecodeLoop(r.s, fields, [m EXCEPT ![e].v = r.v], seen)
    ELSE AfterSkip(SkipField(s, wt), fields, m, seen)

\* A tag no field has: an extension's, or skipped.
Unknown(t, fields, m, e, seen) ==
    IF e # 0 /\ t.tag >= fields[e].tag
    THEN AfterExtension(DecodeExtensions(m[e].v, 1, t.tag, t.wt, t.s), fields, m, e, t.wt, seen, t.s)
    ELSE AfterSkip(SkipField(t.s, t.wt), fields, m, seen)

Finish(s, fields, m, seen) == IF SawRequired(fields, seen) THEN Ok(s, m) ELSE Fail(s)
OnTag(t, fields, m, seen, i) ==
    CASE ~t.ok /\ t.eof -> Finish(t.s, fields, m, seen)
      [] ~t.ok /\ ~t.eof -> Fail(t.s)
      [] t.ok /\ i # 0 -> AfterField(DecodeField(fields[i], t.wt, t.s, m[i]), fields, m, i, seen)
      [] t.ok /\ i = 0 -> Unknown(t, fields, m, FindExtension(fields), seen)
AtTag(t, fields, m, seen) == OnTag(t, fields, m, seen, Find(fields, t.tag))

DecodeLoop(s, fields, m, seen) ==
    IF s.left = 0 THEN Finish(s, fields, m, seen) ELSE AtTag(DecodeTag(s), fields, m, seen)
=============================================================================
