----------------------------- MODULE FilterBlock -----------------------------
(***************************************************************************)
(* The filter of a table: FilterBlockBuilder and FilterBlockReader         *)
(* (table/filter_block.cc) over the Bloom filter (util/bloom.cc), scaled   *)
(* down.  One filter covers the blocks that start in one stretch of the    *)
(* file, FilterBase long; the reader finds it by the block's offset alone. *)
(***************************************************************************)
EXTENDS Integers, Sequences, FiniteSets

CONSTANTS FilterBase,         \* kFilterBase, 2048 in the code
          HashSize,           \* 2^32 in the code
          Rotation,           \* what the hash is rotated by, as a factor: 2^15
          BitsPerKey, Probes, \* bits_per_key_, k_
          MinBits,            \* 64 in the code
          BloomHash           \* of each user key, below HashSize

-----------------------------------------------------------------------------
(* BloomFilterPolicy, under InternalFilterPolicy: of user keys.            *)

\* Rotate right by 17 bits, that is left by 15.
Delta(h) == (h \div (HashSize \div Rotation)) + ((h * Rotation) % HashSize)

BitPos(key, j, bits) ==
    ((BloomHash[key] + j * Delta(BloomHash[key])) % HashSize) % bits

Bits(n) == IF n * BitsPerKey < MinBits THEN MinBits ELSE 8 * ((n * BitsPerKey + 7) \div 8)

\* The filter of some keys; n counts duplicates as well.
CreateFilter(keys, n) ==
    [bits |-> Bits(n),
     set |-> {BitPos(key, j, Bits(n)) : key \in keys, j \in 0..Probes-1}]

\* A filter of another size than the one it is asked about is read by its own.
FilterMatches(key, filter) ==
    \A j \in 0..Probes-1 : BitPos(key, j, filter.bits) \in filter.set

-----------------------------------------------------------------------------
(* FilterBlockBuilder: the keys of the filter under way, the filters made, *)
(* and for each stretch of the file where its filter starts.               *)

NoKeys == [keys |-> <<>>, result |-> <<>>, offsets |-> <<>>]

GenerateFilter(f) ==
    IF f.keys = <<>> THEN [f EXCEPT !.offsets = Append(@, Len(f.result))]
    ELSE [keys |-> <<>>,
          result |-> Append(f.result,
                            CreateFilter({f.keys[i] : i \in DOMAIN f.keys}, Len(f.keys))),
          offsets |-> Append(f.offsets, Len(f.result))]

RECURSIVE GenerateUpTo(_, _)
GenerateUpTo(f, index) ==
    IF index > Len(f.offsets) THEN GenerateUpTo(GenerateFilter(f), index) ELSE f

\* Mutant of StartBlock: at most one filter is made.
Mut_StartBlock(f, block_offset) ==
    IF block_offset \div FilterBase > Len(f.offsets) THEN GenerateFilter(f) ELSE f

StartBlock(f, block_offset) == GenerateUpTo(f, block_offset \div FilterBase)

AddKey(f, user) == [f EXCEPT !.keys = Append(@, user)]

FinishFilter(f) == IF f.keys # <<>> THEN GenerateFilter(f) ELSE f

-----------------------------------------------------------------------------
(* FilterBlockReader.                                                      *)

\* The limit of the last filter is the offset of the array behind it.
FilterStart(f, index) == f.offsets[index + 1]
FilterLimit(f, index) ==
    IF index + 2 <= Len(f.offsets) THEN f.offsets[index + 2] ELSE Len(f.result)

\* No filter matches nothing; a block past the last filter may match.
KeyMayMatch(f, block_offset, user) ==
    LET index == block_offset \div FilterBase IN
    index < Len(f.offsets) =>
        /\ FilterStart(f, index) < FilterLimit(f, index)
        /\ FilterMatches(user, f.result[FilterStart(f, index) + 1])
=============================================================================
