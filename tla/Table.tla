-------------------------------- MODULE Table --------------------------------
(***************************************************************************)
(* A table on its way to disk and back: TableBuilder                       *)
(* (table/table_builder.cc), the file with its handles and footer          *)
(* (table/format.cc), and Table with its index, its filter and its point   *)
(* lookups (table/table.cc).                                               *)
(*                                                                         *)
(* A block is the keys it holds, and its size what they were added with;   *)
(* how it is laid out inside is module Block's, how it is iterated over    *)
(* module TwoLevelIterator's. The block cache is left out: a read that     *)
(* succeeds stands for a hit as well. Compression changes sizes only.      *)
(***************************************************************************)
EXTENDS Comparator, FilterBlock

CONSTANTS Users, SeqNumbers,   \* of the internal keys
          EntrySizes,          \* what an entry may add to its block
          block_size,
          TrailerSize,         \* kBlockTrailerSize
          MaxEntries,          \* bound: keys of the table
          Faults               \* whether the file may fail

VARIABLES filtered,            \* whether the options have a filter policy
          rep,                 \* the builder's members
          file,                \* the blocks written whole, by offset
          footer,              \* the handles in the footer, or none
          table,               \* an open Table's members, or none
          answer,              \* the last InternalGet
          added                \* history: the keys given to the builder

vars == <<filtered, rep, file, footer, table, answer, added>>

Absent == [none |-> TRUE]
IKeys == {IKey(u, s) : u \in Users, s \in SeqNumbers}

\* What one file operation may do.
Outcomes == IF Faults THEN BOOLEAN ELSE {TRUE}

-----------------------------------------------------------------------------
(* TableBuilder.                                                           *)

NewBuilder(withFilter) ==
    [block |-> <<>>, size |-> 0,            \* data_block
     index |-> <<>>,                        \* index_block: [key, handle]
     pending |-> FALSE, handle |-> 0,       \* pending_index_entry, its offset
     last |-> Absent, offset |-> 0, ok |-> TRUE, closed |-> FALSE,
     filter |-> IF withFilter THEN StartBlock(NoKeys, 0) ELSE Absent]

\* WriteRawBlock: the contents and then the trailer; an error stops the builder
\* before the offset moves.
WriteRawBlock(r, size, ok) ==
    IF ok THEN [r EXCEPT !.offset = @ + size + TrailerSize] ELSE [r EXCEPT !.ok = FALSE]

\* The block is in the file when both were written.
Written(r, data, ok) ==
    IF ok THEN [o \in DOMAIN file \cup {r.offset} |->
                  IF o = r.offset THEN data ELSE file[o]]
    ELSE file

IndexEntry(r, key) ==
    [r EXCEPT !.index = Append(@, [key |-> key, handle |-> r.handle]), !.pending = FALSE]

\* Add up to the flush: the index entry for the block before is only made now.
Added(r, key, size) ==
    LET q == IF r.pending THEN IndexEntry(r, IFindShortestSeparator(r.last, key)) ELSE r
    IN [q EXCEPT !.filter = IF filtered THEN AddKey(@, key.user) ELSE @,
                 !.last = key,
                 !.block = Append(@, key),
                 !.size = @ + size]

StartFilter(r) ==
    IF filtered THEN [r EXCEPT !.filter = StartBlock(@, r.offset)] ELSE r

\* Flush of a block that is not empty: write it, then Flush the file.
Flushed(r, wrote, flushed) ==
    LET w == WriteRawBlock([r EXCEPT !.handle = r.offset, !.block = <<>>, !.size = 0],
                           r.size, wrote)
    IN StartFilter(IF w.ok THEN [w EXCEPT !.pending = TRUE, !.ok = flushed] ELSE w)

\* Whether Flush has anything to do.
Flushes(r) == r.ok /\ r.block # <<>>

\* In order; the caller's loop does not look at the status between keys.
Add(key, size) ==
    /\ ~rep.closed /\ Len(added) < MaxEntries
    /\ rep.last # Absent => ICompare(rep.last, key) < 0
    /\ \E wrote, flushed \in Outcomes :
        LET r == IF rep.ok THEN Added(rep, key, size) ELSE rep
            full == rep.ok /\ r.size >= block_size
        IN /\ rep' = IF full THEN Flushed(r, wrote, flushed) ELSE r
           /\ file' = IF full THEN Written(r, r.block, wrote) ELSE file
    /\ added' = Append(added, key)
    /\ UNCHANGED <<filtered, footer, table, answer>>

\* Finish's own blocks and the footer go behind the data, each only if all
\* before it was written.
MetaOffset(r) == IF filtered THEN r.offset + 1 + TrailerSize ELSE r.offset
LastIndex(r) == IF r.pending THEN IndexEntry(r, IFindShortSuccessor(r.last)) ELSE r

\* Mutant of FooterOf: the file is given its footer whatever was written.
Mut_FooterOf(r, ok) ==
    IF ok THEN [index |-> LastIndex(r).index,
                meta |-> MetaOffset(r),
                filter |-> IF filtered THEN FinishFilter(r.filter) ELSE Absent]
    ELSE Absent

FooterOf(r, ok) ==
    IF r.ok /\ ok THEN [index |-> LastIndex(r).index,
                        meta |-> MetaOffset(r),
                        filter |-> IF filtered THEN FinishFilter(r.filter) ELSE Absent]
    ELSE Absent

Finish ==
    /\ ~rep.closed
    /\ \E wrote, flushed, rest \in Outcomes :
        LET r == IF Flushes(rep) THEN Flushed(rep, wrote, flushed) ELSE rep IN
        /\ file' = IF Flushes(rep) THEN Written(rep, rep.block, wrote) ELSE file
        /\ footer' = FooterOf(r, rest)
        /\ rep' = [(IF r.ok THEN LastIndex(r) ELSE r) EXCEPT !.closed = TRUE, !.ok = r.ok /\ rest]
    /\ UNCHANGED <<filtered, table, answer, added>>

\* BuildTable and compactions give up on a table whose input has an error.
Abandon ==
    /\ ~rep.closed
    /\ rep' = [rep EXCEPT !.closed = TRUE]
    /\ UNCHANGED <<filtered, file, footer, table, answer, added>>

-----------------------------------------------------------------------------
(* Table: ReadBlock succeeds or fails, for an I/O error, a short read, a   *)
(* checksum or a type that is not known.                                   *)

\* Open needs the footer and the index; without the meta block or the filter
\* the table works unfiltered.
Open ==
    /\ rep.closed /\ table = Absent
    /\ \E footerRead, indexRead, metaRead, filterRead \in Outcomes :
        table' = IF footer # Absent /\ footerRead /\ indexRead
                 THEN [index |-> footer.index, meta |-> footer.meta,
                       filter |-> IF filtered /\ metaRead /\ filterRead
                                  THEN footer.filter ELSE Absent]
                 ELSE table
    /\ UNCHANGED <<filtered, rep, file, footer, answer, added>>

\* Where the index's Seek stands: the first entry at or past the key.
IndexAt(key) ==
    {i \in DOMAIN table.index :
        /\ ICompare(table.index[i].key, key) >= 0
        /\ \A j \in 1..i-1 : ICompare(table.index[j].key, key) < 0}

\* The block's Seek: the first key at or past the one looked for.
BlockSeek(block, key) ==
    {block[i] : i \in {i \in DOMAIN block :
        /\ ICompare(block[i], key) >= 0
        /\ \A j \in 1..i-1 : ICompare(block[j], key) < 0}}

MayMatch(handle, key) ==
    table.filter # Absent => KeyMayMatch(table.filter, handle, key.user)

\* What the saver is called with, and the status.
InternalGet(key, read) ==
    IF IndexAt(key) = {} THEN [key |-> key, saved |-> {}, ok |-> TRUE]
    ELSE LET handle == table.index[CHOOSE i \in IndexAt(key) : TRUE].handle IN
         IF ~MayMatch(handle, key) THEN [key |-> key, saved |-> {}, ok |-> TRUE]
         ELSE IF ~read THEN [key |-> key, saved |-> {}, ok |-> FALSE]
         ELSE [key |-> key, saved |-> BlockSeek(file[handle], key), ok |-> TRUE]

Lookup(key) ==
    /\ table # Absent
    /\ \E read \in Outcomes : answer' = InternalGet(key, read)
    /\ UNCHANGED <<filtered, rep, file, footer, table, added>>

ApproximateOffsetOf(key) ==
    IF IndexAt(key) = {} THEN table.meta
    ELSE table.index[CHOOSE i \in IndexAt(key) : TRUE].handle

-----------------------------------------------------------------------------
Init ==
    /\ filtered \in BOOLEAN
    /\ rep = NewBuilder(filtered)
    /\ file = <<>>
    /\ footer = Absent
    /\ table = Absent
    /\ answer = Absent
    /\ added = <<>>

Next ==
    \/ \E key \in IKeys, size \in EntrySizes : Add(key, size)
    \/ Finish \/ Abandon \/ Open
    \/ \E key \in IKeys : Lookup(key)

Spec == Init /\ [][Next]_vars

-----------------------------------------------------------------------------
(* The builder, the file and the answers keep their types.                 *)
TypeOK ==
    /\ rep.ok \in BOOLEAN /\ rep.closed \in BOOLEAN /\ rep.pending \in BOOLEAN
    /\ rep.offset \in Nat /\ rep.size \in Nat
    /\ \A o \in DOMAIN file : o \in Nat /\ file[o] # <<>>
    /\ rep.closed \/ (table = Absent /\ footer = Absent)
    /\ answer # Absent => answer.key \in IKeys /\ answer.saved \subseteq IKeys

\* The invariant of table_builder.cc:41, and what it is for: the keys of the
\* blocks written, then those of the block under way, are the keys added, and
\* the index lacks exactly the pending block.
KeysAccounted ==
    rep.ok =>
        /\ rep.pending => rep.block = <<>>
        /\ Len(rep.index) + (IF rep.pending THEN 1 ELSE 0) = Cardinality(DOMAIN file)
        /\ ~rep.closed =>
            {added[i] : i \in DOMAIN added} =
                {rep.block[i] : i \in DOMAIN rep.block} \cup
                UNION {{file[o][i] : i \in DOMAIN file[o]} : o \in DOMAIN file}

\* A lookup finds the newest entry of its user key at its sequence number, or
\* tells of an error: no separator, no filter, no unread block loses a key.
\* (What else the saver may be called with is an entry of another user key.)
Wanted(key) ==
    {added[i] : i \in {i \in DOMAIN added :
        /\ added[i].user = key.user /\ added[i].seq <= key.seq
        /\ \A j \in DOMAIN added :
            added[j].user = key.user /\ added[j].seq <= key.seq => added[j].seq <= added[i].seq}}
GetFindsNewest ==
    answer # Absent /\ answer.ok =>
        {k \in answer.saved : k.user = answer.key.user} = Wanted(answer.key)

\* A table one of whose writes failed is not taken for a table by a later
\* Open: it has no footer (table_builder.cc:229-252).
OpenedIsWhole ==
    table # Absent =>
        /\ rep.ok
        /\ \A i \in DOMAIN added : \E o \in DOMAIN file : \E j \in DOMAIN file[o] :
            file[o][j] = added[i]

\* Offsets approximate the order of keys: they never decrease, and the data
\* lies before the meta block (table.cc:276-279).
OffsetsOrdered ==
    table # Absent =>
        \A j, k \in IKeys :
            /\ ICompare(j, k) < 0 => ApproximateOffsetOf(j) <= ApproximateOffsetOf(k)
            /\ ApproximateOffsetOf(k) <= table.meta

\* The assertion of filter_block.cc:24: a block never starts in a stretch
\* whose filter is already made.
FilterNotBehind ==
    filtered /\ ~rep.closed => Len(rep.filter.offsets) <= rep.offset \div FilterBase
=============================================================================
