----------------------------- MODULE FieldIter ------------------------------
(***************************************************************************)
(* pb_field_iter_t of nanopb (pb_common.c): a walk over the descriptor of a*)
(* struct. The descriptor holds distances only, which the macros of pb.h   *)
(* take from the struct's layout; the iterator adds them up.               *)
(***************************************************************************)
EXTENDS Integers, Sequences, FiniteSets, SequencesExt

CONSTANTS Members,     \* [htype, atype, size, count, union, gap, ltype]
          MaxFields,   \* bound
          PointerSize, AuxSize,
          PB_SIZE_MAX

VARIABLES struct,  \* the members of the message struct, in order
          iter,    \* pb_field_iter_t
          answer   \* of the last call

vars == <<struct, iter, answer>>

-----------------------------------------------------------------------------
(* The struct, as the compiler lays it out: a has_, _count or which_ comes *)
(* before what it belongs to, with some padding.                           *)

MemberSize(m) ==
    CASE m.atype = "pointer" -> PointerSize
      [] m.atype # "pointer" /\ m.htype = "repeated" /\ m.atype = "static" -> m.size * m.count
      [] OTHER -> m.size

HasAux(m) == m.atype # "callback" /\ (m.htype \in {"repeated", "oneof"} \/ (m.htype = "optional" /\ m.atype = "static"))
InUnion(s, i) == i > 1 /\ s[i].htype = "oneof" /\ s[i-1].htype = "oneof" /\ s[i].union = s[i-1].union

UnionOf(s, i) == {j \in DOMAIN s : s[j].htype = "oneof" /\ s[j].union = s[i].union}
Room(s, i) == IF s[i].htype = "oneof" THEN Max({MemberSize(s[j]) : j \in UnionOf(s, i)}) ELSE MemberSize(s[i])

RECURSIVE DataAt(_, _)
After(s, i) == IF i = 0 THEN 0 ELSE DataAt(s, i) + Room(s, i)
DataAt(s, i) ==
    IF InUnion(s, i) THEN DataAt(s, i - 1)
    ELSE After(s, i - 1) + s[i].gap + IF HasAux(s[i]) THEN AuxSize + s[i].gap ELSE 0
RECURSIVE AuxAt(_, _)
AuxAt(s, i) ==
    IF InUnion(s, i) THEN AuxAt(s, i - 1)
    ELSE IF HasAux(s[i]) THEN After(s, i - 1) + s[i].gap ELSE DataAt(s, i)

-----------------------------------------------------------------------------
(* The descriptor.                                                         *)

\* PB_DATAOFFSET_FIRST, _OTHER and _UNION.
DataOffset(s, i) ==
    CASE i = 1 -> DataAt(s, i)
      [] i > 1 /\ InUnion(s, i) -> PB_SIZE_MAX
      [] i > 1 /\ ~InUnion(s, i) -> DataAt(s, i) - DataAt(s, i - 1) - MemberSize(s[i-1])

\* pb_delta of has_, _count and which_.
SizeOffset(s, i) == IF HasAux(s[i]) THEN AuxAt(s, i) - DataAt(s, i) ELSE 0

-----------------------------------------------------------------------------
(* The iterator. Position Len + 1 is the terminator.                       *)

\* pb_field_iter_begin.
Begin(s) ==
    IF s = <<>> THEN [pos |-> 1, pData |-> 0, pSize |-> 0, required_field_index |-> 0]
    ELSE [pos |-> 1, pData |-> DataOffset(s, 1), pSize |-> DataOffset(s, 1) + SizeOffset(s, 1),
          required_field_index |-> 0]

\* What the previous field took.
PrevSize(m) ==
    CASE m.atype = "static" /\ m.htype = "repeated" -> m.size * m.count
      [] m.atype = "pointer" -> PointerSize
      [] OTHER -> m.size

\* Mutant of StaysInUnion: any two fields of unions share their place.
StaysInUnionAny(s, i) == s[i].htype = "oneof" /\ s[i+1].htype = "oneof"

StaysInUnion(s, i) == s[i].htype = "oneof" /\ s[i+1].htype = "oneof" /\ DataOffset(s, i + 1) = PB_SIZE_MAX

\* pb_field_iter_next; FALSE when it has wrapped.
Advance(s, it, data) ==
    [pos |-> it.pos + 1, pData |-> data, pSize |-> data + SizeOffset(s, it.pos + 1),
     required_field_index |-> it.required_field_index + IF s[it.pos].htype = "required" THEN 1 ELSE 0]

Wrapped(s, it) == Begin(s)

Next1(s, it) ==
    CASE s = <<>> -> [it |-> it, more |-> FALSE]
      [] s # <<>> /\ it.pos = Len(s) -> [it |-> Wrapped(s, it), more |-> FALSE]
      [] s # <<>> /\ it.pos < Len(s) /\ StaysInUnion(s, it.pos) ->
           [it |-> [it EXCEPT !.pos = @ + 1], more |-> TRUE]
      [] s # <<>> /\ it.pos < Len(s) /\ ~StaysInUnion(s, it.pos) ->
           [it |-> Advance(s, it, it.pData + PrevSize(s[it.pos]) + DataOffset(s, it.pos + 1)), more |-> TRUE]

\* pb_field_iter_find: around the descriptor, back to where it started.
Matches(s, it, i) == it.pos = i /\ s # <<>> /\ s[it.pos].ltype # "extension"

RECURSIVE FindFrom(_, _, _, _)
FindNext(s, it, i, start) == IF it.pos = start THEN [it |-> it, found |-> FALSE] ELSE FindFrom(s, it, i, start)
FindFrom(s, it, i, start) ==
    IF Matches(s, it, i) THEN [it |-> it, found |-> TRUE] ELSE FindNext(s, Next1(s, it).it, i, start)
Find(s, it, i) == FindFrom(s, it, i, it.pos)

\* find_extension_field.
RECURSIVE ExtensionFrom(_, _, _)
ExtensionNext(s, it, start) == IF it.pos = start THEN [it |-> it, found |-> FALSE] ELSE ExtensionFrom(s, it, start)
ExtensionFrom(s, it, start) ==
    IF s # <<>> /\ s[it.pos].ltype = "extension" THEN [it |-> it, found |-> TRUE]
    ELSE ExtensionNext(s, Next1(s, it).it, start)
FindExtension(s, it) == ExtensionFrom(s, it, it.pos)

\* The end of pb_decode_noinit: how many fields are required.
RECURSIVE CountFrom(_, _)
Counted(s, it, r) ==
    IF r.more THEN CountFrom(s, r.it)
    ELSE [it |-> r.it, count |-> it.required_field_index
                                   + IF s # <<>> /\ s[it.pos].htype = "required" THEN 1 ELSE 0]
CountFrom(s, it) == Counted(s, it, Next1(s, it))

-----------------------------------------------------------------------------
(* Callers: encoders go through the fields once, decoders jump by tag.     *)

CallNext ==
    \E r \in {Next1(struct, iter)} :
        iter' = r.it /\ answer' = [call |-> "next", arg |-> iter.pos, result |-> r.more]
CallFind(i) ==
    \E r \in {Find(struct, iter, i)} :
        iter' = r.it /\ answer' = [call |-> "find", arg |-> i, result |-> r.found]
CallFindExtension ==
    \E r \in {FindExtension(struct, iter)} :
        iter' = r.it /\ answer' = [call |-> "extension", arg |-> 0, result |-> r.found]
CallCount ==
    \E r \in {CountFrom(struct, iter)} :
        iter' = r.it /\ answer' = [call |-> "count", arg |-> r.count, result |-> TRUE]

\* One union's members are next to each other.
WellFormed(s) ==
    \A i, j \in DOMAIN s :
        i < j /\ s[i].htype = "oneof" /\ s[j].htype = "oneof" /\ s[i].union = s[j].union =>
            \A k \in i..j : s[k].htype = "oneof" /\ s[k].union = s[i].union

Init ==
    /\ struct \in UNION {[1..n -> Members] : n \in 0..MaxFields} /\ WellFormed(struct)
    /\ iter = Begin(struct) /\ answer = [call |-> "begin", arg |-> 0, result |-> struct # <<>>]

Next ==
    /\ CallNext \/ (\E i \in 1..Len(struct)+1 : CallFind(i)) \/ CallFindExtension \/ CallCount
    /\ UNCHANGED struct

Spec == Init /\ [][Next]_vars

-----------------------------------------------------------------------------
(* Properties.                                                             *)

\* The iterator stays in the descriptor, and its count below the fields'.
TypeOK == iter.pos \in 1..Len(struct)+1 /\ iter.required_field_index \in 0..Len(struct)

\* Wherever the iterator has been, around the descriptor or from the middle of
\* it, it points to the member of the struct and to its has_, _count or which_.
PointsToMember ==
    struct # <<>> =>
        /\ iter.pData = DataAt(struct, iter.pos)
        /\ iter.pSize = AuxAt(struct, iter.pos)

\* A find ends at the field when there is one, and where it started otherwise;
\* the required fields before it are counted whichever way it got there.
FindsTheField ==
    /\ answer.call = "find" =>
         (answer.result <=> answer.arg \in DOMAIN struct /\ struct[answer.arg].ltype # "extension")
           /\ (answer.result => iter.pos = answer.arg)
    /\ answer.call = "extension" =>
         (answer.result <=> \E i \in DOMAIN struct : struct[i].ltype = "extension")
    /\ struct # <<>> =>
         iter.required_field_index = Cardinality({i \in 1..iter.pos-1 : struct[i].htype = "required"})
    /\ answer.call = "count" => answer.arg = Cardinality({i \in DOMAIN struct : struct[i].htype = "required"})
=============================================================================
