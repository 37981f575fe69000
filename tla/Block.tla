-------------------------------- MODULE Block --------------------------------
(***************************************************************************)
(* A block of a table: BlockBuilder's prefix compression with restart      *)
(* points (table/block_builder.cc) and the iterator that undoes it         *)
(* (table/block.cc).                                                       *)
(*                                                                         *)
(* A key is a string of letters. Every entry has at least three bytes, so  *)
(* offsets are only compared: an entry's offset is its number, and values  *)
(* are left out. A broken entry is one DecodeEntry cannot decode.          *)
(***************************************************************************)
EXTENDS Integers, Sequences, FiniteSets, SequencesExt

CONSTANTS None,
          Letters,             \* 1..n
          MaxLength,           \* bound: letters of a key
          Intervals,           \* block_restart_interval
          Damage               \* bound: entries that are broken

VARIABLES added,               \* the keys given to the builder
          entries,             \* the block: [shared, delta] of each entry,
          restarts,            \* the offsets of the restart points,
          broken,              \* and the entries that do not decode
          iter,                \* the iterator's members
          call                 \* history: the last call

vars == <<added, entries, restarts, broken, iter, call>>

Strings == UNION {[1..n -> Letters] : n \in 1..MaxLength}

\* The comparator's order, as a number: a string before its extensions.
Base == 1 + Cardinality(Letters)
RECURSIVE Rank(_, _)
Rank(s, n) ==
    IF n = 0 THEN 0
    ELSE Rank(s, n-1) * Base + (IF n <= Len(s) THEN s[n] ELSE 0)
Order(s) == Rank(s, MaxLength)

-----------------------------------------------------------------------------
(* BlockBuilder.                                                           *)

EmptyBuilder == [buffer |-> <<>>, restarts |-> <<1>>, counter |-> 0, last |-> <<>>]

\* How much sharing to do with the previous string.
Shared(s, t) == Len(LongestCommonPrefix({s, t}))

Restarting(b, interval) == b.counter >= interval

Add(b, key, interval) ==
    LET shared == IF Restarting(b, interval) THEN 0 ELSE Shared(b.last, key) IN
    [buffer |-> Append(b.buffer, [shared |-> shared,
                                  delta |-> SubSeq(key, shared + 1, Len(key))]),
     restarts |-> IF Restarting(b, interval)
                  THEN Append(b.restarts, Len(b.buffer) + 1) ELSE b.restarts,
     counter |-> IF Restarting(b, interval) THEN 1 ELSE b.counter + 1,
     last |-> key]

\* The builder after a table's keys were added in order.
RECURSIVE Built(_, _)
Built(keys, interval) ==
    IF keys = {} THEN EmptyBuilder
    ELSE LET key == CHOOSE k \in keys : \A j \in keys : Order(j) <= Order(k)
         IN Add(Built(keys \ {key}, interval), key, interval)

-----------------------------------------------------------------------------
(* Block::Iter: value_'s end is kept as the offset it gives to the next    *)
(* entry.                                                                  *)

EndOffset == Len(entries) + 1       \* restarts_
NumRestarts == Len(restarts)
GetRestartPoint(index) == restarts[index]

Start == [current |-> EndOffset, index |-> NumRestarts + 1, key |-> <<>>,
          next |-> EndOffset, ok |-> TRUE]

IterValid(it) == it.current < EndOffset

NextEntryOffset(it) == it.next

SeekToRestartPoint(it, index) ==
    [it EXCEPT !.key = <<>>, !.index = index, !.next = GetRestartPoint(index)]

Ended(it) == [it EXCEPT !.current = EndOffset, !.index = NumRestarts + 1]

\* Mutant of CorruptionError: the iterator ends as if the block did.
Mut_CorruptionError(it) ==
    [Ended(it) EXCEPT !.key = <<>>, !.next = EndOffset]

CorruptionError(it) ==
    [Ended(it) EXCEPT !.ok = FALSE, !.key = <<>>, !.next = EndOffset]

\* restart_index_ follows to the last restart point before the entry.
IndexOf(index, offset) ==
    CHOOSE i \in index..NumRestarts :
        /\ i = NumRestarts \/ GetRestartPoint(i + 1) >= offset
        /\ \A j \in index+1..i : GetRestartPoint(j) < offset

\* Its result is whether the iterator is valid.
ParseNextKey(it) ==
    LET offset == NextEntryOffset(it) IN
    IF offset >= EndOffset THEN Ended(it)
    ELSE IF offset \in broken \/ Len(it.key) < entries[offset].shared THEN CorruptionError(it)
    ELSE [it EXCEPT !.current = offset,
                    !.key = SubSeq(it.key, 1, entries[offset].shared) \o entries[offset].delta,
                    !.next = offset + 1,
                    !.index = IndexOf(it.index, offset)]

\* Prev: parse on while the entry ends before the original one.
RECURSIVE ParseUpTo(_, _)
ParseUpTo(it, offset) ==
    IF IterValid(it) /\ NextEntryOffset(it) < offset
    THEN ParseUpTo(ParseNextKey(it), offset) ELSE it

\* The last restart point before the entry, 0 when there is none.
RestartBefore(it) ==
    LET before == {i \in 1..it.index : GetRestartPoint(i) < it.current}
    IN IF before = {} THEN 0 ELSE CHOOSE i \in before : \A j \in before : j <= i

IterPrev(it) ==
    IF RestartBefore(it) = 0 THEN Ended(it)
    ELSE ParseUpTo(ParseNextKey(SeekToRestartPoint(it, RestartBefore(it))), it.current)

\* Seek: the binary search of the restart points, 0 when it meets a broken one.
RECURSIVE Search(_, _, _)
Search(target, left, right) ==
    IF left >= right THEN left
    ELSE LET mid == (left + right + 1) \div 2
             at == GetRestartPoint(mid)
         IN IF at \in broken \/ entries[at].shared # 0 THEN 0
            ELSE IF Order(entries[at].delta) < Order(target) THEN Search(target, mid, right)
            ELSE Search(target, left, mid - 1)

\* Then the linear search for the first key >= target.
RECURSIVE ParseUntil(_, _)
ParseUntil(it, target) ==
    IF IterValid(it) /\ Order(it.key) < Order(target)
    THEN ParseUntil(ParseNextKey(it), target) ELSE it

IterSeek(it, target) ==
    LET point == Search(target, 1, NumRestarts) IN
    IF point = 0 THEN CorruptionError(it)
    ELSE ParseUntil(ParseNextKey(SeekToRestartPoint(it, point)), target)

\* SeekToLast: from the last restart point to the last entry.
IterLast(it) == ParseUpTo(ParseNextKey(SeekToRestartPoint(it, NumRestarts)), EndOffset)

-----------------------------------------------------------------------------
Init ==
    /\ added \in SUBSET Strings
    /\ \E interval \in Intervals :
        LET built == Built(added, interval) IN
        entries = built.buffer /\ restarts = built.restarts
    /\ broken \in {b \in SUBSET (1..Cardinality(added)) : Cardinality(b) <= Damage}
    /\ iter = Start
    /\ call = <<"none">>

Move(name, it) ==
    /\ iter' = it
    /\ call' = name
    /\ UNCHANGED <<added, entries, restarts, broken>>

SeekToFirst == Move(<<"SeekToFirst">>, ParseNextKey(SeekToRestartPoint(iter, 1)))

SeekToLast == Move(<<"SeekToLast">>, IterLast(iter))

Seek(target) == Move(<<"Seek", Order(target)>>, IterSeek(iter, target))

Next == IterValid(iter) /\ Move(<<"Next">>, ParseNextKey(iter))

Prev == IterValid(iter) /\ Move(<<"Prev">>, IterPrev(iter))

Step == SeekToFirst \/ SeekToLast \/ Next \/ Prev \/ \E target \in Strings : Seek(target)

Spec == Init /\ [][Step]_vars

-----------------------------------------------------------------------------
(* The block and its iterator keep their types.                            *)
TypeOK ==
    /\ added \subseteq Strings
    /\ Len(entries) = Cardinality(added) /\ broken \subseteq 1..Len(entries)
    /\ iter.current \in 1..EndOffset /\ iter.next \in 1..EndOffset
    /\ iter.index \in 1..NumRestarts+1 /\ iter.ok \in BOOLEAN
    /\ IterValid(iter) => iter.key \in Strings

Position == IF IterValid(iter) THEN Order(iter.key) ELSE None
Contents == {Order(s) : s \in added}
Yields == INSTANCE Cursor WITH
    Targets <- {Order(s) : s \in Strings}, contents <- Contents, at <- Position

\* A block gives back the keys that were added, in order and whole, from
\* every position and in both directions (block.cc as a whole).
IsCursor == Yields!Init /\ [][broken = {} => Yields!Move]_(Yields!vars)

\* An entry that does not decode is never passed over in silence: a move ends
\* where it would in the whole block, or the iterator stops and says why.
Told(key) == Position' = key \/ (Position' = None /\ ~iter'.ok)
NothingHidden ==
    [][CASE call'[1] = "SeekToFirst" -> Told(Yields!Least(Contents))
         [] call'[1] = "SeekToLast" -> Told(Yields!Greatest(Contents))
         [] call'[1] = "Seek" -> Told(Yields!FirstFrom(Contents, call'[2]))
         [] call'[1] = "Next" -> Told(Yields!After(Contents, Position))
         [] call'[1] = "Prev" -> Told(Yields!Before(Contents, Position))
         [] call'[1] = "none" -> TRUE]_vars
=============================================================================
