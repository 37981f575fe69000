---------------------------- MODULE VersionEdit -----------------------------
(***************************************************************************)
(* A record of LevelDB's manifest: a VersionEdit is filled by its setters, *)
(* written by EncodeTo and read back by DecodeFrom into an edit that       *)
(* VersionSet::Recover has just made.                                      *)
(*                                                                         *)
(* The bytes are modelled: a varint holds one digit below VarintBase (128  *)
(* in the code) per byte and marks all but the last, so that a record may  *)
(* end between two fields, between the parts of one, or inside a number.   *)
(* A name and an internal key are sequences of bytes.                      *)
(***************************************************************************)
EXTENDS Integers, FiniteSets, SequencesExt

CONSTANTS Names,       \* comparator names
          Numbers,     \* numbers of files and logs, sequence numbers
          Levels,      \* levels the callers name, all below kNumLevels
          InternalKeys,
          VarintBase,  \* what a byte of a varint counts up to
          MaxSetters   \* bound: calls of the setters

VARIABLES edit,     \* the writer's VersionEdit
          setters,  \* setters called on it
          bytes,    \* what EncodeTo appended and the reader is given
          read      \* what DecodeFrom returned: a status and an edit

editVars == <<edit, setters, bytes, read>>

kNumLevels == 7
Tag == [comparator |-> 1, log_number |-> 2, next_file_number |-> 3, last_sequence |-> 4,
        compact_pointers |-> 5, deleted_files |-> 6, new_files |-> 7, prev_log_number |-> 9]

\* A field with a has_ flag is a sequence that is empty while the flag is false.
Cleared == [comparator |-> <<>>, log_number |-> <<>>, prev_log_number |-> <<>>,
            next_file_number |-> <<>>, last_sequence |-> <<>>,
            compact_pointers |-> <<>>, deleted_files |-> {}, new_files |-> <<>>]
NotRead == [status |-> "none", edit |-> Cleared]

\* What follows the tag of each field.
Operands(field) ==
    CASE field = "comparator" -> <<"slice">>
      [] field = "compact_pointers" -> <<"level", "slice">>
      [] field = "deleted_files" -> <<"level", "number">>
      [] field = "new_files" -> <<"level", "number", "number", "slice", "slice">>
      [] OTHER -> <<"number">>

-----------------------------------------------------------------------------
(* Encoding. *)

RECURSIVE PutVarint(_)
PutVarint(v) ==
    IF v < VarintBase THEN <<v>>
    ELSE <<(v % VarintBase) + VarintBase>> \o PutVarint(v \div VarintBase)

PutLengthPrefixedSlice(s) == PutVarint(Len(s)) \o s
PutOperand(kind, v) == IF kind = "slice" THEN PutLengthPrefixedSlice(v) ELSE PutVarint(v)

RECURSIVE PutOperands(_, _)
PutOperands(kinds, values) ==
    IF kinds = <<>> THEN <<>>
    ELSE PutOperand(Head(kinds), Head(values)) \o PutOperands(Tail(kinds), Tail(values))

DeletedInOrder(e) ==
    SetToSortSeq(e.deleted_files,
                 LAMBDA a, b : a[1] < b[1] \/ (a[1] = b[1] /\ a[2] < b[2]))

\* The fields in the order they are written in, each with its operands.
Items(e) ==
    LET Scalar(field) == [i \in DOMAIN e[field] |-> <<field, <<e[field][i]>>>>]
        Each(field, list) == [i \in DOMAIN list |-> <<field, list[i]>>]
    IN  Scalar("comparator") \o Scalar("log_number") \o Scalar("prev_log_number")
        \o Scalar("next_file_number") \o Scalar("last_sequence")
        \o Each("compact_pointers", e.compact_pointers)
        \o Each("deleted_files", DeletedInOrder(e))
        \o Each("new_files", e.new_files)

EncodeTo(e) ==
    FlattenSeq([i \in DOMAIN Items(e) |->
        LET item == Items(e)[i]
        IN  PutVarint(Tag[item[1]]) \o PutOperands(Operands(item[1]), item[2])])

-----------------------------------------------------------------------------
(* Decoding.  A getter says whether it succeeded, what it read and what is *)
(* left; one that fails leaves its input alone.                            *)

Failed(input) == [ok |-> FALSE, v |-> 0, rest |-> input]

GetVarint(input) ==
    LET ends == {i \in DOMAIN input : input[i] < VarintBase}
        last == CHOOSE i \in ends : \A j \in ends : i <= j
        Value[i \in 1..(last + 1)] ==
            IF i > last THEN 0 ELSE (input[i] % VarintBase) + VarintBase * Value[i + 1]
    IN  IF ends = {} THEN Failed(input)
        ELSE [ok |-> TRUE, v |-> Value[1], rest |-> SubSeq(input, last + 1, Len(input))]

GetLevel(input) ==
    LET level == GetVarint(input)
    IN  IF level.ok /\ level.v < kNumLevels THEN level ELSE Failed(input)

GetLengthPrefixedSlice(input) ==
    LET len == GetVarint(input)
    IN  IF len.ok /\ Len(len.rest) >= len.v
        THEN [ok |-> TRUE, v |-> SubSeq(len.rest, 1, len.v),
              rest |-> SubSeq(len.rest, len.v + 1, Len(len.rest))]
        ELSE Failed(input)

GetOperand(kind, input) ==
    CASE kind = "slice" -> GetLengthPrefixedSlice(input)
      [] kind = "level" -> GetLevel(input)
      [] OTHER -> GetVarint(input)

RECURSIVE GetOperands(_, _)
GetOperands(kinds, input) ==
    IF kinds = <<>> THEN [ok |-> TRUE, v |-> <<>>, rest |-> input]
    ELSE LET first == GetOperand(Head(kinds), input)
             others == GetOperands(Tail(kinds), first.rest)
         IN  IF first.ok /\ others.ok
             THEN [ok |-> TRUE, v |-> <<first.v>> \o others.v, rest |-> others.rest]
             ELSE Failed(input)

\* A field that has been read, put into the edit.
Put(e, field, values) ==
    CASE field \in {"compact_pointers", "new_files"} -> [e EXCEPT ![field] = Append(@, values)]
      [] field = "deleted_files" -> [e EXCEPT ![field] = @ \cup {values}]
      [] OTHER -> [e EXCEPT ![field] = values]

RECURSIVE Decode(_, _)
Decode(e, input) ==
    LET tag == GetVarint(input)
        fields == {field \in DOMAIN Tag : Tag[field] = tag.v}
        field == CHOOSE f \in fields : TRUE
        values == GetOperands(Operands(field), tag.rest)
    IN  CASE ~tag.ok -> [status |-> IF input = <<>> THEN "ok" ELSE "invalid tag", edit |-> e]
          [] tag.ok /\ fields = {} -> [status |-> "unknown tag", edit |-> e]
          [] tag.ok /\ fields # {} /\ ~values.ok -> [status |-> field, edit |-> e]
          [] OTHER -> Decode(Put(e, field, values.v), values.rest)

DecodeFrom(src) == Decode(Cleared, src)

-----------------------------------------------------------------------------
(* The writer and the reader. *)

EditInit == edit = Cleared /\ setters = 0 /\ bytes = <<>> /\ read = NotRead

Set(field, values) ==
    /\ bytes = <<>> /\ setters < MaxSetters
    /\ edit' = Put(edit, field, values)
    /\ setters' = setters + 1
    /\ UNCHANGED <<bytes, read>>

SetComparatorName == \E name \in Names : Set("comparator", <<name>>)
SetNumber ==
    \E field \in {"log_number", "prev_log_number", "next_file_number", "last_sequence"},
       num \in Numbers : Set(field, <<num>>)
SetCompactPointer == \E level \in Levels, key \in InternalKeys : Set("compact_pointers", <<level, key>>)
DeleteFile == \E level \in Levels, file \in Numbers : Set("deleted_files", <<level, file>>)
AddFile ==
    \E level \in Levels, file, file_size \in Numbers, smallest, largest \in InternalKeys :
        Set("new_files", <<level, file, file_size, smallest, largest>>)

Encode ==
    /\ bytes = <<>> /\ edit # Cleared
    /\ bytes' = EncodeTo(edit)
    /\ UNCHANGED <<edit, setters, read>>

\* The reader is given the record, or what a cut leaves of it.
Read ==
    /\ bytes # <<>> /\ read = NotRead
    /\ \E n \in 1..Len(bytes) :
        /\ bytes' = SubSeq(bytes, 1, n)
        /\ read' = DecodeFrom(bytes')
    /\ UNCHANGED <<edit, setters>>

EditNext ==
    \/ SetComparatorName \/ SetNumber \/ SetCompactPointer \/ DeleteFile \/ AddFile
    \/ Encode \/ Read

-----------------------------------------------------------------------------
\* A record that is read whole gives the edit that was written.  One that was
\* cut gives the first fields of that edit and nothing else, and it is called
\* good only when the cut fell between two fields: half a file is never added
\* or deleted.
EditsAreRead ==
    read # NotRead =>
        /\ bytes = EncodeTo(edit) => read = [status |-> "ok", edit |-> edit]
        /\ IsPrefix(Items(read.edit), Items(edit))
        /\ (read.status = "ok") <=> (bytes = EncodeTo(read.edit))
=============================================================================
