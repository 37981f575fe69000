------------------------------ MODULE Message -------------------------------
(***************************************************************************)
(* A message on its way: pb_encode or pb_encode_delimited into a buffer of *)
(* some size, a wire that may be cut short, pb_decode or                   *)
(* pb_decode_delimited by a reader whose descriptor may be older or newer  *)
(* than the sender's. What protocol buffers promise of that is stated      *)
(* without looking at bytes (Expected), and compared.                      *)
(***************************************************************************)
EXTENDS Encoder

CONSTANTS Senders,      \* descriptors and their messages: [fields, messages]
          Readers(_),   \* descriptors that may read what a sender wrote
          Framings,     \* {FALSE}: pb_encode, {TRUE}: pb_encode_delimited
          Slack,        \* buffer sizes, from the size of the encoding
          MaxSent       \* bound

VARIABLES sender, delimited, sent, out, wire, cut, reader, rx

vars == <<sender, delimited, sent, out, wire, cut, reader, rx>>

-----------------------------------------------------------------------------
(* Operations.                                                             *)

NoBytes == [ok |-> TRUE, n |-> 0, max |-> 0, size |-> 0, bytes |-> <<>>]

\* pb_encode, pb_encode_delimited; pb_get_encoded_size is the sizing pass.
Encoded(fields, m, framed, st) ==
    IF framed THEN EncodeSubmessage([sub |-> fields], m, st) ELSE Encode(fields, m, st)

Send(m, slack) ==
    /\ Len(sent) < MaxSent /\ out.ok /\ ~cut /\ reader = <<>>
    /\ \E size \in {Encoded(sender.fields, m, delimited, Sizing).st.n} :
         /\ size + slack >= 0
         /\ \E r \in {Encoded(sender.fields, m, delimited, ToBuffer(size + slack))} :
              /\ out' = [ok |-> r.ok, n |-> r.st.n, max |-> size + slack, size |-> size, bytes |-> r.st.out]
              /\ sent' = IF r.ok THEN Append(sent, m) ELSE sent
              /\ wire' = IF r.ok THEN wire \o r.st.out ELSE wire
    /\ UNCHANGED <<sender, delimited, cut, reader, rx>>

Cut(n) ==
    /\ ~delimited /\ Len(sent) = 1 /\ ~cut /\ reader = <<>>
    /\ cut' = TRUE /\ wire' = SubSeq(wire, 1, n)
    /\ UNCHANGED <<sender, delimited, sent, out, reader, rx>>

\* The caller's struct: callbacks and extensions are in place.
RECURSIVE Blank(_)
BlankCell(f) ==
    CASE f.ltype = "extension" ->
           [n |-> 0, v |-> [i \in DOMAIN f.exts |-> [field |-> f.exts[i], found |-> FALSE, cell |-> Zero(f.exts[i])]]]
      [] f.ltype # "extension" /\ f.atype = "callback" -> [n |-> 0, v |-> [set |-> TRUE, items |-> <<>>, later |-> <<>>]]
      [] f.atype = "static" /\ f.ltype = "submessage" /\ f.htype \in {"required", "optional"} ->
           [n |-> 0, v |-> Blank(f.sub)]
      [] OTHER -> Zero(f)
Blank(fields) == [i \in DOMAIN fields |-> BlankCell(fields[i])]

Received(r) == [ok |-> r.ok, s |-> r.s, got |-> IF r.ok THEN Append(rx.got, r.v) ELSE rx.got]

\* pb_decode of the whole wire.
Receive(fields) ==
    /\ ~delimited /\ sent # <<>> /\ reader = <<>>
    /\ reader' = fields
    /\ rx' = Received(Decode(FromBuffer(wire), fields, Blank(fields)))
    /\ UNCHANGED <<sender, delimited, sent, out, wire, cut>>

\* pb_decode_delimited: the next message of the stream.
Unframed(sub, fields) == IF sub.ok THEN CloseAs(Decode(sub.v, fields, Blank(fields)), sub.s) ELSE sub
DecodeDelimited(s, fields) == Unframed(MakeSubstream(s), fields)
ReceiveNext(fields) ==
    /\ delimited /\ sent # <<>> /\ reader \in {<<>>, fields}
    /\ reader # <<>> => rx.ok /\ rx.s.left > 0
    /\ reader' = fields
    /\ rx' = Received(DecodeDelimited(IF reader = <<>> THEN FromBuffer(wire) ELSE rx.s, fields))
    /\ UNCHANGED <<sender, delimited, sent, out, wire, cut>>

Untouched ==
    /\ sent = <<>> /\ out = NoBytes /\ wire = <<>> /\ cut = FALSE
    /\ reader = <<>> /\ rx = [ok |-> TRUE, s |-> FromBuffer(<<>>), got |-> <<>>]

Init == sender \in Senders /\ delimited \in Framings /\ Untouched

Next ==
    \/ \E m \in sender.messages, slack \in Slack : Send(m, slack)
    \/ \E n \in 0..Len(wire)-1 : Cut(n)
    \/ \E fields \in Readers(sender) : Receive(fields) \/ ReceiveNext(fields)

Spec == Init /\ [][Next]_vars

-----------------------------------------------------------------------------
(* What a reader is to make of some messages. A field's values on the wire *)
(* are its occurrences; the descriptors of both sides say what they mean.  *)

AllOf(seqs) == FoldRight(LAMBDA s, all : s \o all, seqs, <<>>)

\* A proto3 field is on the wire when it is not zero.
RECURSIVE NonZero(_, _)
NonZero(f, cell) ==
    CASE f.htype = "repeated" -> cell.v # <<>>
      [] f.htype # "repeated" /\ f.atype = "callback" -> cell.v.later # <<>>
      [] f.atype = "static" /\ f.htype = "oneof" -> cell.n = 1
      [] f.atype = "static" /\ f.htype \in {"required", "optional"} ->
           CASE f.ltype \in Packable -> cell.v # 0
             [] f.ltype \in {"string", "bytes"} -> cell.v # <<>>
             [] f.ltype = "fixed_length_bytes" -> TRUE
             [] f.ltype = "submessage" -> \E i \in DOMAIN f.sub : NonZero(f.sub[i], cell.v[i])

Occurrences(f, cell) ==
    CASE f.atype = "callback" -> cell.v.later
      [] f.atype = "static" /\ f.htype = "repeated" -> cell.v
      [] f.atype = "static" /\ f.htype = "required" -> <<cell.v>>
      [] f.atype = "static" /\ f.htype = "oneof" -> IF cell.n = 1 THEN <<cell.v>> ELSE <<>>
      [] f.atype = "static" /\ f.htype = "optional" ->
           IF (f.has /\ cell.n = 1) \/ (~f.has /\ NonZero(f, cell)) THEN <<cell.v>> ELSE <<>>

\* A sender's fields and extensions, by tag: the occurrences in a message.
Known(fields, tag) ==
    {i \in DOMAIN fields : fields[i].tag = tag /\ fields[i].ltype # "extension"}
Extending(m, e, tag) ==
    AllOf([j \in DOMAIN m[e].v |-> IF m[e].v[j].field.tag = tag THEN <<m[e].v[j].cell.v>> ELSE <<>>])
On(fields, m, tag) ==
    IF Known(fields, tag) # {}
    THEN LET i == The(Known(fields, tag)) IN Occurrences(fields[i], m[i])
    ELSE IF FindExtension(fields) # 0 THEN Extending(m, FindExtension(fields), tag) ELSE <<>>
OnWire(fields, ms, tag) == AllOf([k \in DOMAIN ms |-> On(fields, ms[k], tag)])

SubOf(fields, tag) == LET i == The(Known(fields, tag)) IN IF i = 0 THEN <<>> ELSE fields[i].sub

\* The last message that sets a member of the union.
UnionTags(fields, f) == {fields[i].tag : i \in {j \in DOMAIN fields : fields[j].htype = "oneof" /\ fields[j].union = f.union}}
Sets(from, fields, f, m) == {t \in UnionTags(fields, f) : On(from, m, t) # <<>>}
Standing(from, fields, f, ms) ==
    LET setting == {k \in DOMAIN ms : Sets(from, fields, f, ms[k]) # {}}
    IN  IF setting = {} \/ f.tag \notin Sets(from, fields, f, ms[Max(setting)]) THEN <<>>
        ELSE LET seen == On(from, ms[Max(setting)], f.tag) IN <<seen[Len(seen)]>>

Holds(f, v) ==
    CASE f.ltype = "varint" -> v \in -(2^(f.width-1))..2^(f.width-1)-1
      [] f.ltype = "svarint" -> v \in -(2^(f.width-1))..2^(f.width-1)-1
      [] f.ltype = "uvarint" -> v \in 0..2^f.width-1
      [] f.ltype = "string" -> Len(v) < f.width
      [] f.ltype = "bytes" -> Len(v) <= f.width
      [] f.ltype = "fixed_length_bytes" -> Len(v) = f.width
      [] OTHER -> TRUE

\* Callbacks are in place in the reader's own struct, and in submessages that
\* are part of it.
RECURSIVE Expected(_, _, _, _), Accepted(_, _, _)
Each(f, from, seen, called) ==
    [k \in DOMAIN seen |-> IF f.ltype = "submessage" THEN Expected(f.sub, from, <<seen[k]>>, called) ELSE seen[k]]
Merged(f, from, seen) ==
    IF f.ltype = "submessage" THEN <<Expected(f.sub, from, seen, TRUE)>> ELSE <<seen[Len(seen)]>>
Default(f) == IF f.ltype = "submessage" THEN Expected(f.sub, <<>>, <<>>, TRUE) ELSE f.default
ExpectedField(f, fields, from, ms, called) ==
    LET seen == OnWire(from, ms, f.tag)
    IN  CASE f.ltype = "extension" ->
               [i \in DOMAIN f.exts |->
                   LET found == OnWire(from, ms, f.exts[i].tag)
                   IN  [found |-> found # <<>>, v |-> IF found = <<>> THEN f.exts[i].default ELSE found[Len(found)]]]
          [] f.ltype # "extension" /\ f.atype = "callback" -> IF called THEN seen ELSE <<>>
          [] f.atype = "static" /\ f.htype = "repeated" -> Each(f, SubOf(from, f.tag), seen, FALSE)
          [] f.atype = "static" /\ f.htype = "oneof" ->
               Each(f, SubOf(from, f.tag), Standing(from, fields, f, ms), FALSE)
          [] f.atype = "static" /\ f.htype \in {"required", "optional"} ->
               IF seen # <<>> THEN Merged(f, SubOf(from, f.tag), seen)
               ELSE IF f.htype = "required" \/ ~f.has THEN <<Default(f)>> ELSE <<>>
Expected(fields, from, ms, called) ==
    [i \in DOMAIN fields |-> ExpectedField(fields[i], fields, from, ms, called)]

\* May the reader accept them: required fields, sizes and ranges.
Accepts(f, from, seen) ==
    /\ f.atype = "static" /\ f.htype = "required" => seen # <<>>
    /\ f.atype = "static" /\ f.htype = "repeated" => Len(seen) <= f.array_size
    /\ f.atype = "static" => \A k \in DOMAIN seen : Holds(f, seen[k])
    /\ f.atype = "static" /\ f.ltype = "submessage" =>
         \A k \in DOMAIN seen : Accepted(f.sub, SubOf(from, f.tag), <<seen[k]>>)
    /\ f.atype = "static" /\ f.ltype = "submessage" /\ f.htype \in {"required", "optional"} /\ seen # <<>> =>
         Accepted(f.sub, SubOf(from, f.tag), seen)
Accepted(fields, from, ms) ==
    \A i \in DOMAIN fields : fields[i].ltype # "extension" => Accepts(fields[i], from, OnWire(from, ms, fields[i].tag))

\* What the reader's struct says.
RECURSIVE View(_, _)
Seen(f, v) == IF f.ltype = "submessage" THEN View(f.sub, v) ELSE v
ViewOf(f, cell) ==
    CASE f.ltype = "extension" -> [i \in DOMAIN cell.v |-> [found |-> cell.v[i].found, v |-> cell.v[i].cell.v]]
      [] f.ltype # "extension" /\ f.atype = "callback" -> cell.v.items
      [] f.atype = "static" /\ f.htype = "repeated" -> [k \in DOMAIN cell.v |-> Seen(f, cell.v[k])]
      [] f.atype = "static" /\ (f.htype = "oneof" \/ (f.htype = "optional" /\ f.has)) ->
           IF cell.n = 1 THEN <<Seen(f, cell.v)>> ELSE <<>>
      [] f.atype = "static" /\ (f.htype = "required" \/ (f.htype = "optional" /\ ~f.has)) -> <<Seen(f, cell.v)>>
View(fields, m) == [i \in DOMAIN fields |-> ViewOf(fields[i], m[i])]

-----------------------------------------------------------------------------
(* Properties.                                                             *)

RECURSIVE FitsStruct(_, _)
FitsField(f, cell) ==
    f.atype = "static" =>
        /\ cell.n \in Nat
        /\ f.htype = "repeated" => Len(cell.v) <= f.array_size /\ \A k \in DOMAIN cell.v : Holds(f, cell.v[k])
        /\ f.htype = "oneof" /\ cell.n = 1 => Holds(f, cell.v)
        /\ f.htype \in {"required", "optional"} => Holds(f, cell.v)
        /\ f.htype \in {"required", "optional"} /\ f.ltype = "submessage" => FitsStruct(f.sub, cell.v)
FitsStruct(fields, m) == \A i \in DOMAIN fields : FitsField(fields[i], m[i])

\* Whatever arrives, cut or foreign, what is stored stays within the arrays,
\* strings and integers of the reader's struct.
TypeOK ==
    /\ out.n <= out.max
    /\ \A i \in DOMAIN wire : wire[i] \in Byte
    /\ \A k \in DOMAIN rx.got : FitsStruct(reader, rx.got[k])

\* A message, or several written one after another, is read as its fields, by
\* any reader: the last value, all items, submessages merged, unions replaced,
\* unknown fields skipped. It is refused when and only when the reader's
\* descriptor does not allow it.
OneMessage ==
    /\ rx.ok <=> Accepted(reader, sender.fields, sent)
    /\ rx.ok => View(reader, rx.got[1]) = Expected(reader, sender.fields, sent, TRUE)

\* Delimited messages come out of the stream one by one, as they went in, and a
\* message that is refused does not change those before it.
OneByOne ==
    /\ \A k \in DOMAIN rx.got :
          View(reader, rx.got[k]) = Expected(reader, sender.fields, <<sent[k]>>, TRUE)
    /\ rx.ok <=> Accepted(reader, sender.fields, <<sent[Len(rx.got) + IF rx.ok THEN 0 ELSE 1]>>)
    /\ rx.ok => (rx.s.left = 0 <=> Len(rx.got) = Len(sent))

\* What was sent is what is received, framed or not.
Delivered == reader # <<>> /\ ~cut => IF delimited THEN OneByOne ELSE OneMessage

\* An encoding succeeds when and only when the buffer has the size the sizing
\* pass found, which is what it then writes, unless a callback changes its mind.
RECURSIVE Steady(_, _)
SteadyField(f, cell) ==
    /\ f.atype = "callback" /\ f.ltype # "extension" => cell.v.later = cell.v.items
    /\ f.atype = "static" /\ f.ltype = "submessage" /\ f.htype \in {"required", "optional"} => Steady(f.sub, cell.v)
Steady(fields, m) == \A i \in DOMAIN fields : SteadyField(fields[i], m[i])
FitsOrFails ==
    /\ out.ok => Len(out.bytes) = out.n
    /\ (\A m \in sender.messages : Steady(sender.fields, m)) =>
         /\ out.ok <=> out.max >= out.size
         /\ out.ok => out.n = out.size

\* The whole fields of a message, up to one of them.
Ends(f, cell) ==
    CASE f.ltype = "extension" -> {[cell EXCEPT !.v = SubSeq(@, 1, j)] : j \in 0..Len(cell.v)}
      [] f.ltype # "extension" /\ f.atype = "callback" ->
           {[cell EXCEPT !.v.items = SubSeq(@, 1, j), !.v.later = SubSeq(@, 1, j)] : j \in 0..Len(cell.v.later)}
      [] f.atype = "static" /\ f.htype = "repeated" /\ f.ltype \notin Packable ->
           {[cell EXCEPT !.v = SubSeq(@, 1, j)] : j \in 0..Len(cell.v)}
      [] OTHER -> {cell}
Wholes(fields, m) ==
    {[fields |-> <<>>, m |-> <<>>]} \cup
    UNION {{[fields |-> SubSeq(fields, 1, i), m |-> Append(SubSeq(m, 1, i - 1), c)] : c \in Ends(fields[i], m[i])} : i \in DOMAIN fields}
SizeOf(p) == Encode(p.fields, p.m, Sizing).st.n

\* A message that lost its end is refused, or read as the fields that are whole.
WholeFieldsOnly ==
    cut /\ reader # <<>> /\ rx.ok =>
        \E p \in Wholes(sender.fields, sent[1]) :
            /\ SizeOf(p) <= Len(wire)
            /\ \A q \in Wholes(sender.fields, sent[1]) : SizeOf(q) <= Len(wire) => SizeOf(q) <= SizeOf(p)
            /\ View(reader, rx.got[1]) = Expected(reader, p.fields, <<p.m>>, TRUE)
=============================================================================
