-------------------------- MODULE TwoLevelIterator --------------------------
(***************************************************************************)
(* TwoLevelIterator (table/two_level_iterator.cc): an index iterator and   *)
(* the iterator of the block, or of the table, the index is at.  The index *)
(* is Version::LevelFileNumIterator (db/version_set.cc), or the iterator   *)
(* of a table's index block, which moves alike.                            *)
(*                                                                         *)
(* A block is a set of keys, at most its index key and past the index key  *)
(* before.  A bad one is known only when block_function_ reads it: it is   *)
(* an error iterator (BlockReader in table/table.cc, TableCache).          *)
(***************************************************************************)
EXTENDS Ordered, Sequences, FiniteSets

CONSTANTS Keys,
          MaxBlocks,      \* bound: blocks of the index
          Bad             \* whether blocks may be unreadable

VARIABLES separators,     \* the index keys, in order
          contents,       \* all the keys
          bad,            \* the unreadable blocks
          iter,           \* the iterator's members
          call            \* history: the last call

vars == <<separators, contents, bad, iter, call>>

Blocks == 1..Len(separators)
BlockKeys(b) ==
    {k \in contents : /\ k <= separators[b]
                      /\ b > 1 => separators[b-1] < k}

-----------------------------------------------------------------------------
(* LevelFileNumIterator: index_, past the last file when invalid.          *)

EndIndex == Len(separators) + 1
IndexValid(it) == it.index < EndIndex

\* FindFile: binary search for the first whose largest key is >= target.
FindFile(target) ==
    LET f[left \in 1..EndIndex, right \in 1..EndIndex] ==
          IF left >= right THEN right
          ELSE LET mid == (left + right) \div 2 IN
               IF separators[mid] < target THEN f[mid + 1, right] ELSE f[left, mid]
    IN f[1, EndIndex]

IndexFirst(it) == [it EXCEPT !.index = 1]
IndexLast(it) == [it EXCEPT !.index = IF Blocks = {} THEN 1 ELSE Len(separators)]
IndexSeek(it, target) == [it EXCEPT !.index = FindFile(target)]
IndexNext(it) == [it EXCEPT !.index = it.index + 1]
IndexPrev(it) == [it EXCEPT !.index = IF it.index = 1 THEN EndIndex ELSE it.index - 1]

-----------------------------------------------------------------------------
(* data_iter_: the block it was made for, where it is, and whether its     *)
(* status is ok; made for block 0 when it is NULL.                         *)

Null == [block |-> 0, at |-> None, ok |-> TRUE]

BlockFunction(b) == [block |-> b, at |-> None, ok |-> b \notin bad]

Move(data, to(_)) ==
    IF data.block = 0 \/ ~data.ok THEN data
    ELSE [data EXCEPT !.at = to(BlockKeys(data.block))]

DataValid(it) == it.data.at # None

\* The old iterator's error is kept.
SetDataIterator(it, data) ==
    [it EXCEPT !.data = data, !.ok = it.ok /\ it.data.ok]

\* The iterator of the block the index is at; kept when it is that already.
InitDataBlock(it) ==
    IF ~IndexValid(it) THEN SetDataIterator(it, Null)
    ELSE IF it.data.block = it.index THEN it
    ELSE SetDataIterator(it, BlockFunction(it.index))

DataFirst(it) == [it EXCEPT !.data = Move(it.data, Least)]
DataLast(it) == [it EXCEPT !.data = Move(it.data, Greatest)]

RECURSIVE SkipForward(_)
SkipForward(it) ==
    IF DataValid(it) THEN it
    ELSE IF ~IndexValid(it) THEN SetDataIterator(it, Null)
    ELSE SkipForward(DataFirst(InitDataBlock(IndexNext(it))))

RECURSIVE SkipBackward(_)
SkipBackward(it) ==
    IF DataValid(it) THEN it
    ELSE IF ~IndexValid(it) THEN SetDataIterator(it, Null)
    ELSE SkipBackward(DataLast(InitDataBlock(IndexPrev(it))))

-----------------------------------------------------------------------------
Init ==
    /\ contents \in SUBSET Keys
    /\ separators \in {s \in UNION {[1..n -> Keys] : n \in 0..MaxBlocks} :
                         \A i, j \in DOMAIN s : i < j => s[i] < s[j]}
    /\ \A k \in contents : \E b \in Blocks : k <= separators[b]
    /\ bad \in IF Bad THEN SUBSET Blocks ELSE {{}}
    /\ iter = [index |-> EndIndex, data |-> Null, ok |-> TRUE]
    /\ call = <<"none">>

Moved(name, it) ==
    /\ iter' = it
    /\ call' = name
    /\ UNCHANGED <<separators, contents, bad>>

SeekToFirst == Moved(<<"SeekToFirst">>, SkipForward(DataFirst(InitDataBlock(IndexFirst(iter)))))

SeekToLast == Moved(<<"SeekToLast">>, SkipBackward(DataLast(InitDataBlock(IndexLast(iter)))))

Seek(target) ==
    LET it == InitDataBlock(IndexSeek(iter, target))
        to(S) == FirstFrom(S, target)
    IN Moved(<<"Seek", target>>, SkipForward([it EXCEPT !.data = Move(it.data, to)]))

Next ==
    LET to(S) == After(S, iter.data.at) IN
    /\ DataValid(iter)
    /\ Moved(<<"Next">>, SkipForward([iter EXCEPT !.data = Move(iter.data, to)]))

Prev ==
    LET to(S) == Before(S, iter.data.at) IN
    /\ DataValid(iter)
    /\ Moved(<<"Prev">>, SkipBackward([iter EXCEPT !.data = Move(iter.data, to)]))

Step == SeekToFirst \/ SeekToLast \/ Next \/ Prev \/ \E target \in Keys : Seek(target)

Spec == Init /\ [][Step]_vars

-----------------------------------------------------------------------------
\* status(): an error now, or one met before.
StatusOk == iter.data.ok /\ iter.ok

(* The iterator's members keep their types, and the data iterator is at a  *)
(* key of the block the index is at.                                       *)
TypeOK ==
    /\ iter.index \in 1..EndIndex /\ iter.ok \in BOOLEAN
    /\ iter.data.block \in Blocks \cup {0}
    /\ DataValid(iter) => iter.data.block = iter.index
                          /\ iter.data.at \in BlockKeys(iter.index)

\* Its user sees one iterator over the readable blocks: empty blocks and
\* unreadable ones make no gap and no turn (two_level_iterator.cc as a whole).
Readable == UNION {BlockKeys(b) : b \in Blocks \ bad}
Yields == INSTANCE Cursor WITH
    Targets <- Keys, contents <- Readable, at <- iter.data.at
IsCursor == Yields!Spec

\* A key that a move passes over because its block is unreadable is not
\* passed over in silence: status() is an error from then on (SaveError).
Reached(key) == iter'.data.at = key \/ ~StatusOk'
NothingHidden ==
    [][/\ ~StatusOk => ~StatusOk'
       /\ CASE call'[1] = "SeekToFirst" -> Reached(Least(contents))
            [] call'[1] = "SeekToLast" -> Reached(Greatest(contents))
            [] call'[1] = "Seek" -> Reached(FirstFrom(contents, call'[2]))
            [] call'[1] = "Next" -> Reached(After(contents, iter.data.at))
            [] call'[1] = "Prev" -> Reached(Before(contents, iter.data.at))
            [] call'[1] = "none" -> TRUE]_vars

=============================================================================
