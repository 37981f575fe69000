----------------------------- MODULE MCFormats ------------------------------
(***************************************************************************)
(* The formats that bytes and structs are read and written in: the log, a  *)
(* record of the manifest, a nanopb message, a nanopb struct.  They share  *)
(* nothing; a behaviour is about one of them, its subject, and the others  *)
(* stay as they begin.                                                     *)
(***************************************************************************)
EXTENDS Message

CONSTANTS kBlockSize, kHeaderSize, Sizes, InitialOffsets, Garbage,
          MaxRecords, MaxMishaps, Reuse,                            \* see LogFile
          Numbers, Levels, VarintBase, MaxSetters,                  \* see VersionEdit
          MaxFields, PointerSize, AuxSize, PB_SIZE_MAX              \* see FieldIter

VARIABLES subject,
          file, block_offset, records, damaged, crashes, failures, logReader,
          edit, setters, bytes, read,
          struct, iter, answer

logVars == <<file, block_offset, records, damaged, crashes, failures, logReader>>
editVars == <<edit, setters, bytes, read>>
structVars == <<struct, iter, answer>>
allVars == <<subject, vars, logVars, editVars, structVars>>

\* Members of every kind the macros of pb.h know, of one or two units, with
\* padding in front of some.
Member(htype, atype, size, count, union, gap, ltype) ==
    [htype |-> htype, atype |-> atype, size |-> size, count |-> count, union |-> union,
     gap |-> gap, ltype |-> ltype]
AllMembers ==
    {Member("required", "static", 2, 0, 0, 0, "varint"), Member("required", "callback", 3, 0, 0, 1, "varint"),
     Member("optional", "static", 1, 0, 0, 1, "varint"), Member("optional", "pointer", 5, 0, 0, 0, "string"),
     Member("repeated", "static", 2, 3, 0, 1, "varint"), Member("repeated", "callback", 3, 0, 0, 0, "varint"),
     Member("repeated", "pointer", 2, 0, 0, 1, "varint"),
     Member("oneof", "static", 1, 0, 1, 1, "varint"), Member("oneof", "static", 4, 0, 1, 1, "submessage"),
     Member("oneof", "pointer", 5, 0, 1, 1, "string"), Member("oneof", "static", 2, 0, 2, 0, "varint"),
     Member("optional", "callback", 2, 0, 0, 0, "extension")}

\* Names and keys with a byte that would be no whole varint.
SomeSlices == {<<2>>, <<17, 3>>}

Log == INSTANCE LogFile WITH reader <- logReader
Manifest == INSTANCE VersionEdit WITH Names <- SomeSlices, InternalKeys <- SomeSlices
Layout == INSTANCE FieldIter WITH Members <- AllMembers

-----------------------------------------------------------------------------
(* Descriptors of the kinds of messages the code tells apart, with a few   *)
(* messages each; bytes of four bits, so that every tag takes two of them.  *)

Field(tag, ltype, htype, width) ==
    [tag |-> tag, ltype |-> ltype, htype |-> htype, atype |-> "static", width |-> width, has |-> FALSE,
     array_size |-> 0, sub |-> <<>>, default |-> IF ltype \in Packable THEN 0 ELSE <<>>, union |-> 0, exts |-> <<>>]
Required(tag, ltype, width) == Field(tag, ltype, "required", width)
Optional(tag, ltype, width) == [Field(tag, ltype, "optional", width) EXCEPT !.has = TRUE]
Singular(tag, ltype, width) == Field(tag, ltype, "optional", width)
Repeated(tag, ltype, width, n) == [Field(tag, ltype, "repeated", width) EXCEPT !.array_size = n]
Oneof(u, tag, ltype, width) == [Field(tag, ltype, "oneof", width) EXCEPT !.union = u]
Callback(tag) == [Field(tag, "uvarint", "repeated", Bits64) EXCEPT !.atype = "callback"]
Of(f, sub) == [f EXCEPT !.sub = sub]
Extensions(tag, exts) == [Field(tag, "extension", "optional", 0) EXCEPT !.atype = "callback", !.exts = exts]

Absent(v) == [n |-> 0, v |-> v]
Has(v) == [n |-> 1, v |-> v]
Items(vs) == [n |-> Len(vs), v |-> vs]
Calls(vs, later) == [n |-> 0, v |-> [set |-> TRUE, items |-> vs, later |-> later]]
Same2(vs) == Calls(vs, vs)

\* Two fields, as a submessage; without its optional field; with a field more.
Pair == <<Required(1, "uvarint", 4), Optional(2, "string", 3)>>
Pairs == {<<Absent(9), Absent(<<>>)>>, <<Absent(0), Has(<<7, 7>>)>>}

Plain ==
    [fields |-> <<Required(1, "varint", 8), Of(Optional(2, "submessage", 0), Pair),
                  Repeated(3, "svarint", 8, 3), Of(Repeated(4, "submessage", 0, 2), Pair), Optional(5, "fixed64", 16)>>,
     messages |-> {<<Absent(-1), p, Items(vs), Items(ps), IF ps = <<>> THEN Absent(0) ELSE Has(300)>> :
                     p \in {Absent(<<Absent(0), Absent(<<>>)>>)} \cup {Has(q) : q \in Pairs},
                     vs \in {<<-100, 0>>, <<1, 2, 3>>}, ps \in {<<>>, <<<<Absent(3), Has(<<1>>)>>, <<Absent(0), Absent(<<>>)>>>>}}]
Union ==
    [fields |-> <<Oneof(1, 1, "varint", 8), Oneof(1, 2, "string", 4), Of(Oneof(1, 3, "submessage", 0), Pair),
                  Repeated(4, "bytes", 2, 3), Singular(5, "uvarint", 4), Of(Singular(6, "submessage", 0), <<Singular(1, "svarint", 4), Singular(2, "string", 3)>>),
                  [Singular(7, "fixed_length_bytes", 2) EXCEPT !.default = <<0, 0>>]>>,
     messages |-> {u \o <<Items(rest[1]), rest[2], Absent(rest[3]), Absent(<<1, 15>>)>> :
                     u \in {<<Has(-3), Absent(<<>>), Absent(<<>>)>>, <<Absent(0), Has(<<5, 6, 7>>), Absent(<<>>)>>,
                            <<Absent(0), Absent(<<>>), Has(<<Absent(2), Has(<<3>>)>>)>>,
                            <<Absent(0), Absent(<<>>), Absent(<<>>)>>},
                     rest \in {<<<<>>, Absent(12), <<Absent(0), Absent(<<4>>)>>>>,
                               <<<<<<0>>, <<>>, <<8, 9>>>>, Absent(0), <<Absent(-2), Absent(<<>>)>>>>,
                               <<<<<<7>>>>, Absent(0), <<Absent(0), Absent(<<>>)>>>>}}]
Calling ==
    [fields |-> <<Callback(1), Of(Required(2, "submessage", 0), <<Callback(1), Singular(3, "uvarint", 8)>>),
                  Of(Repeated(3, "submessage", 0, 2), <<Callback(1)>>)>>,
     messages |-> {<<Same2(a), Absent(<<Same2(b), Absent(Len(b) * 100)>>), Items(c)>> :
                     a \in {<<>>, <<5, 300>>}, b \in {<<>>, <<7>>, <<1, 2, 3>>},
                     c \in {<<>>, <<<<Same2(<<1>>)>>, <<Same2(<<>>)>>>>}}]
Moody ==
    [fields |-> <<Callback(1), Of(Required(2, "submessage", 0), <<Callback(1), Singular(3, "uvarint", 8)>>)>>,
     messages |-> {<<Calls(a, c), Absent(<<Calls(b, d), Absent(4)>>)>> :
                     a \in {<<5>>}, c \in {<<6>>, <<>>}, b \in {<<>>, <<7>>, <<300>>}, d \in {<<>>, <<8>>, <<8, 9>>, <<301>>}}]
Ext1 == Required(11, "svarint", 8)
Ext2 == Required(12, "string", 3)
Ext3 == [Required(14, "uvarint", 4) EXCEPT !.default = 7]
In(exts, vs) == [n |-> 0, v |-> [i \in DOMAIN exts |-> [field |-> exts[i], found |-> FALSE, cell |-> Absent(vs[i])]]]
Extended2 ==
    [fields |-> <<Required(2, "uvarint", 8), Extensions(10, <<Ext1, Ext2>>)>>,
     messages |-> {<<Absent(v), In(<<Ext1, Ext2>>, <<a, b>>)>> : v \in {0, 77}, a \in {0, -30}, b \in {<<>>, <<2, 2>>}}]

Narrow(f) == IF f.ltype \in {"varint", "svarint", "uvarint"} THEN [f EXCEPT !.width = Width8]
             ELSE IF f.ltype \in {"string", "bytes"} THEN [f EXCEPT !.width = 2] ELSE f
Short(f) == IF f.htype = "repeated" /\ f.atype = "static" THEN [f EXCEPT !.array_size = 2] ELSE f
Reversed(fields) == [i \in DOMAIN fields |-> fields[Len(fields) + 1 - i]]

\* The sender's own; older ones, that know fewer fields; a newer one; narrower
\* ones; one that has the fields in another order.
AllReaders(s) ==
    {s.fields, SubSeq(s.fields, 2, Len(s.fields)), <<s.fields[1]>>,
     Append(s.fields, Singular(20, "svarint", 8)), Append(s.fields, Required(20, "bytes", 3)),
     [i \in DOMAIN s.fields |-> Narrow(s.fields[i])], [i \in DOMAIN s.fields |-> Short(s.fields[i])],
     Reversed(s.fields)}
ExtendedReaders(s) ==
    AllReaders(s) \cup
    {<<Required(2, "uvarint", 8), Extensions(10, exts)>> : exts \in {<<Ext1>>, <<Ext2, Ext1>>, <<Ext3, Ext2>>, <<>>}} \cup
    {<<Required(2, "uvarint", 8), Optional(11, "svarint", 8)>>}
ReadersOf(s) == CASE s = Extended2 -> ExtendedReaders(s) [] s = Moody -> {s.fields} [] OTHER -> AllReaders(s)

AllSenders == {Plain, Union, Calling, Extended2, Moody}

Tight == {-1, 0}

-----------------------------------------------------------------------------
(* The behaviours.                                                         *)

\* The sender where the subject is something else.
Nobody == [fields |-> <<>>, messages |-> {}]

AllInit ==
    /\ subject \in {"log", "edit", "message", "struct"}
    /\ Log!Init /\ Manifest!EditInit
    /\ IF subject = "message" THEN Init ELSE sender = Nobody /\ delimited = FALSE /\ Untouched
    /\ IF subject = "struct" THEN Layout!Init ELSE struct = <<>> /\ Layout!Init

AllNext ==
    /\ UNCHANGED subject
    /\ \/ subject = "log" /\ Log!Next /\ UNCHANGED <<vars, editVars, structVars>>
       \/ subject = "edit" /\ Manifest!EditNext /\ UNCHANGED <<vars, logVars, structVars>>
       \/ subject = "message" /\ Next /\ UNCHANGED <<logVars, editVars, structVars>>
       \/ subject = "struct" /\ Layout!Next /\ UNCHANGED <<vars, logVars, editVars>>

AllSpec == AllInit /\ [][AllNext]_allVars

\* What was written is read back.  A log gives nothing that is no record, and
\* every acknowledged record that a crash left whole, but for those appended
\* behind a torn record or a failed append (log_reader.cc:253-267); a record of
\* the manifest gives the edit it was made from, and one that is cut
\* gives whole fields only (version_edit.cc:109-210).
WrittenIsRead == Log!OnlyWholeRecords /\ Log!AcknowledgedIsRead /\ Manifest!EditsAreRead

\* log_reader.cc:217-220 and 239-241: a writer that died in the middle of a
\* record leaves no corruption to report.
TornTailIsQuiet == Log!TornTailIsQuiet

\* What a message carries arrives whole, or the call says that it did not: it
\* fits the buffer that was sized for it, a reader that knows other fields gets
\* the ones it knows, and no part of a field passes for one (pb_encode.c,
\* pb_decode.c).  Of a message that was cut only the last is promised: one that
\* ends between two fields, or within a tag, is accepted (pb_decode.c:258-260).
MessagesAreDelivered == Delivered /\ FitsOrFails /\ WholeFieldsOnly

\* The field iterator of pb_common.c never leaves the struct it walks, and it
\* finds a field wherever it was left standing.
LayoutIsFollowed == Layout!PointsToMember /\ Layout!FindsTheField
=============================================================================
