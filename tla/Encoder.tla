------------------------------ MODULE Encoder -------------------------------
(***************************************************************************)
(* pb_encode of nanopb, for the descriptors and messages of Decoder. An    *)
(* output stream counts what is written and keeps it unless it is sizing.  *)
(***************************************************************************)
EXTENDS Decoder

Sizing == [sizing |-> TRUE, max_size |-> 0, n |-> 0, out |-> <<>>]
ToBuffer(max) == [sizing |-> FALSE, max_size |-> max, n |-> 0, out |-> <<>>]

Done(st) == [ok |-> TRUE, st |-> st]
Full(st) == [ok |-> FALSE, st |-> st]

\* pb_write.
Write(st, bytes) ==
    IF ~st.sizing /\ st.n + Len(bytes) > st.max_size THEN Full(st)
    ELSE Done([st EXCEPT !.n = @ + Len(bytes), !.out = IF st.sizing THEN @ ELSE @ \o bytes])

WriteSize(st, size) == Done([st EXCEPT !.n = @ + size])

Put(r, bytes) == IF r.ok THEN Write(r.st, bytes) ELSE r

\* pb_encode_tag_for_field.
WireType(ltype) ==
    CASE ltype \in {"varint", "uvarint", "svarint"} -> WT_VARINT
      [] ltype = "fixed32" -> WT_32BIT
      [] ltype = "fixed64" -> WT_64BIT
      [] OTHER -> WT_STRING
FieldTag(f) == TagBytes(WireType(f.ltype), f.tag)

\* pb_enc_string: up to the terminator, or the width.
CString(f, v) ==
    LET zeros == {i \in DOMAIN v : v[i] = 0}
    IN  IF zeros = {} THEN SubSeq(v, 1, IF Len(v) < f.width THEN Len(v) ELSE f.width)
        ELSE SubSeq(v, 1, (CHOOSE i \in zeros : \A j \in zeros : i <= j) - 1)

RECURSIVE EncodeFrom(_, _, _, _)
Encode(fields, m, st) == EncodeFrom(fields, m, 1, Done(st))

\* pb_encode_submessage: sized first; the second pass must be as long.
Same(r, st, size) ==
    LET joined == [st EXCEPT !.n = @ + r.st.n, !.out = @ \o r.st.out]
    IN  IF r.st.n # size \/ ~r.ok THEN Full(joined) ELSE Done(joined)

Second(f, v, r, size) ==
    IF ~r.ok THEN r
    ELSE IF r.st.sizing THEN WriteSize(r.st, size)
    ELSE IF r.st.n + size > r.st.max_size THEN Full(r.st)
    ELSE Same(Encode(f.sub, v, ToBuffer(size)), r.st, size)

First(f, v, st, sized) == IF sized.ok THEN Second(f, v, Write(st, VarintBytes(sized.st.n)), sized.st.n) ELSE Full(st)

EncodeSubmessage(f, v, st) == First(f, v, st, Encode(f.sub, v, Sizing))

\* PB_ENCODERS. Narrow signed integers are extended to 64 bits.
EncodeValue(f, v, st) ==
    CASE f.ltype = "varint" -> Write(st, VarintBytes(ToUnsigned(v, Bits64)))
      [] f.ltype = "uvarint" -> Write(st, VarintBytes(v))
      [] f.ltype = "svarint" -> Write(st, SvarintBytes(v))
      [] f.ltype = "fixed32" -> Write(st, FixedBytes(v, Bits32 \div (Payload + 1)))
      [] f.ltype = "fixed64" -> Write(st, FixedBytes(v, Bits64 \div (Payload + 1)))
      [] f.ltype = "bytes" -> IF Len(v) > f.width THEN Full(st) ELSE Put(Write(st, VarintBytes(Len(v))), v)
      [] f.ltype = "string" -> Put(Write(st, VarintBytes(Len(CString(f, v)))), CString(f, v))
      [] f.ltype = "fixed_length_bytes" -> Put(Write(st, VarintBytes(f.width)), v)
      [] f.ltype = "submessage" -> EncodeSubmessage(f, v, st)

Value(f, v, r) == IF r.ok THEN EncodeValue(f, v, r.st) ELSE r
Tagged(f, v, st) == Value(f, v, Write(st, FieldTag(f)))

\* encode_array: packed where the type allows it.
RECURSIVE EncodeItems(_, _, _, _)
EncodeItems(f, vs, i, r) ==
    IF ~r.ok \/ i > Len(vs) THEN r
    ELSE EncodeItems(f, vs, i + 1, IF f.ltype \in Packable THEN EncodeValue(f, vs[i], r.st) ELSE Tagged(f, vs[i], r.st))
PackedItems(f, vs, r, size) ==
    IF ~r.ok THEN r ELSE IF r.st.sizing THEN WriteSize(r.st, size) ELSE EncodeItems(f, vs, 1, r)
EncodePacked(f, vs, st, size) == PackedItems(f, vs, Write(st, TagBytes(WT_STRING, f.tag) \o VarintBytes(size)), size)
EncodeArray(f, vs, st) ==
    CASE vs = <<>> -> Done(st)
      [] vs # <<>> /\ Len(vs) > f.array_size -> Full(st)
      [] vs # <<>> /\ Len(vs) <= f.array_size /\ f.ltype \in Packable ->
           EncodePacked(f, vs, st, EncodeItems(f, vs, 1, Done(Sizing)).st.n)
      [] vs # <<>> /\ Len(vs) <= f.array_size /\ f.ltype \notin Packable -> EncodeItems(f, vs, 1, Done(st))

\* pb_check_proto3_default_value. Of an array only the first item's bytes are
\* looked at, of a union and an optional field only the data.
RECURSIVE IsDefault(_, _)
IsDefault(f, cell) ==
    CASE f.ltype = "extension" -> cell.v = <<>>
      [] f.ltype # "extension" /\ f.atype = "callback" -> ~cell.v.set
      [] f.atype = "static" /\ f.htype = "repeated" ->
           cell.v = <<>> \/ IsDefault([f EXCEPT !.htype = "required"], [n |-> 0, v |-> cell.v[1]])
      [] f.atype = "static" /\ f.htype = "oneof" /\ cell.n = 0 -> TRUE
      [] f.atype = "static" /\ f.htype # "repeated" /\ ~(f.htype = "oneof" /\ cell.n = 0) ->
           CASE f.ltype \in Packable -> cell.v = 0
             [] f.ltype = "string" -> CString(f, cell.v) = <<>>
             [] f.ltype = "bytes" -> cell.v = <<>>
             [] f.ltype = "fixed_length_bytes" -> f.width = 0
             [] f.ltype = "submessage" -> \A i \in DOMAIN f.sub : IsDefault(f.sub[i], cell.v[i])

\* encode_basic_field.
EncodeBasic(f, cell, st) ==
    IF f.htype = "repeated" THEN EncodeArray(f, cell.v, st)
    ELSE IF \/ f.htype = "required"
            \/ f.htype = "oneof" /\ cell.n = 1
            \/ f.htype = "optional" /\ (IF f.has THEN cell.n = 1 ELSE ~IsDefault(f, cell))
    THEN Tagged(f, cell.v, st) ELSE Done(st)

\* encode_callback_field: the callback writes a tag and a varint for each item;
\* what it writes the second time may differ.
RECURSIVE CallbackBytes(_, _)
CallbackBytes(f, items) ==
    IF items = <<>> THEN <<>>
    ELSE FieldTag(f) \o VarintBytes(Head(items)) \o CallbackBytes(f, Tail(items))
EncodeCallback(f, v, st) == Write(st, CallbackBytes(f, IF st.sizing THEN v.items ELSE v.later))

\* encode_extension_field: extensions are there if they were found.
RECURSIVE EncodeExtensions(_, _, _)
EncodeField(f, cell, st) ==
    CASE f.ltype = "extension" -> EncodeExtensions(cell.v, 1, Done(st))
      [] f.ltype # "extension" /\ f.atype = "callback" -> EncodeCallback(f, cell.v, st)
      [] f.ltype # "extension" /\ f.atype = "static" -> EncodeBasic(f, cell, st)
EncodeExtensions(exts, i, r) ==
    IF ~r.ok \/ i > Len(exts) THEN r
    ELSE EncodeExtensions(exts, i + 1, EncodeField(exts[i].field, exts[i].cell, r.st))

EncodeFrom(fields, m, i, r) ==
    IF ~r.ok \/ i > Len(fields) THEN r ELSE EncodeFrom(fields, m, i + 1, EncodeField(fields[i], m[i], r.st))
=============================================================================
