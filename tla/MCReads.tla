------------------------------ MODULE MCReads -------------------------------
(***************************************************************************)
(* What a read goes through: the memtable, the cache of open tables, a     *)
(* table's index, filter and blocks, and the iterators over them, one on   *)
(* top of the other.  Each is checked over what the one below promises; a  *)
(* behaviour is about one of them, its subject, and the others stay as     *)
(* they begin.                                                             *)
(***************************************************************************)
EXTENDS Merger, TableCache

VARIABLES subject,
          added, entries, restarts, broken, blockIter, blockCall,      \* Block
          separators, contents, bad, twoIter, twoCall,                 \* TwoLevelIterator
          log, sequence, userIter, userCall,                           \* DBIter
          filtered, rep, file, footer, table, answer, keysAdded,       \* Table
          next, heights, insert, search, node, listCall,               \* SkipList
          batch, inserter, kind, last_sequence, got, written           \* MemTable

blockVars == <<added, entries, restarts, broken, blockIter, blockCall>>
twoVars == <<separators, contents, bad, twoIter, twoCall>>
userVars == <<log, sequence, userIter, userCall>>
tableVars == <<filtered, rep, file, footer, table, answer, keysAdded>>
memVars == <<next, heights, insert, search, node, listCall,
             batch, inserter, kind, last_sequence, got, written>>
allVars == <<subject, vars, blockVars, twoVars, userVars, tableVars, memVars, cacheVars>>

Blocks == INSTANCE Block WITH
    Letters <- {1, 2}, MaxLength <- 2, Intervals <- {1, 2, 3}, Damage <- 1,
    iter <- blockIter, call <- blockCall

TwoLevel == INSTANCE TwoLevelIterator WITH
    MaxBlocks <- 3, Bad <- TRUE, iter <- twoIter, call <- twoCall

\* Three keys of a user, or two and entries that do not parse.
OfUser == INSTANCE DBIter WITH
    Keys <- {1, 2, 3}, MaxWrites <- 4, Kinds <- {"value", "deletion"},
    iter <- userIter, call <- userCall
Corrupt == INSTANCE DBIter WITH
    Keys <- {1, 2}, MaxWrites <- 4, Kinds <- {"value", "deletion", "corrupt"},
    iter <- userIter, call <- userCall

ThreeUsers == {<<0>>, <<1, 1>>, <<3>>}
\* Two keys share the low bits of their hashes.
Hashes == [u \in ThreeUsers |-> IF u = <<0>> THEN 5 ELSE IF u = <<1, 1>> THEN 69 ELSE 200]

TableFile == INSTANCE Table WITH
    MaxByte <- 3, kMaxSequenceNumber <- 9, Users <- ThreeUsers, SeqNumbers <- {1, 2},
    EntrySizes <- {1, 10}, block_size <- 2, TrailerSize <- 1, MaxEntries <- 3, Faults <- TRUE,
    FilterBase <- 4, HashSize <- 256, Rotation <- 8, BitsPerKey <- 4, Probes <- 2,
    MinBits <- 8, BloomHash <- Hashes, added <- keysAdded

\* Two users, three records; the nodes are the numbers of their internal keys.
Nodes == {4, 5, 6, 8, 9, 10}
Getting == INSTANCE MemTable WITH
    kMaxHeight <- 1, Users <- {1, 2}, MaxWrites <- 3, MaxGroup <- 2, Kinds <- {"value", "deletion"},
    call <- listCall, answer <- got
Iterating == INSTANCE MemTable WITH
    kMaxHeight <- 2, Users <- {1, 2}, MaxWrites <- 3, MaxGroup <- 1, Kinds <- {"value"},
    call <- listCall, answer <- got

Subjects == {"merger", "block", "two levels", "user", "corrupt", "table",
             "getting", "iterating", "cache"}

AllInit ==
    /\ subject \in Subjects
    /\ IF subject = "merger" THEN Init ELSE Init /\ Union = {}
    /\ IF subject = "block" THEN Blocks!Init
       ELSE /\ added = {} /\ entries = <<>> /\ restarts = <<1>> /\ broken = {}
            /\ blockIter = Blocks!Start /\ blockCall = <<"none">>
    /\ IF subject = "two levels" THEN TwoLevel!Init
       ELSE /\ contents = {} /\ separators = <<>> /\ bad = {}
            /\ twoIter = [index |-> 1, data |-> TwoLevel!Null, ok |-> TRUE] /\ twoCall = <<"none">>
    /\ CASE subject = "user" -> OfUser!Init
         [] subject = "corrupt" -> Corrupt!Init /\ Len(log) <= 3
         [] OTHER -> /\ log = <<>> /\ sequence = 0
                     /\ userIter = OfUser!Start /\ userCall = <<"none">>
    /\ TableFile!Init /\ (filtered => subject = "table")
    /\ IF subject = "getting" THEN Getting!Init ELSE Iterating!Init
    /\ CacheInit /\ (capacity # 0 => subject = "cache")

AllNext ==
    /\ UNCHANGED subject
    /\ \/ /\ subject = "merger" /\ Move
          /\ UNCHANGED <<blockVars, twoVars, userVars, tableVars, memVars, cacheVars>>
       \/ /\ subject = "block" /\ Blocks!Step
          /\ UNCHANGED <<vars, twoVars, userVars, tableVars, memVars, cacheVars>>
       \/ /\ subject = "two levels" /\ TwoLevel!Step
          /\ UNCHANGED <<vars, blockVars, userVars, tableVars, memVars, cacheVars>>
       \/ /\ \/ subject = "user" /\ OfUser!Step
             \/ subject = "corrupt" /\ Corrupt!Step
          /\ UNCHANGED <<vars, blockVars, twoVars, tableVars, memVars, cacheVars>>
       \/ /\ subject = "table" /\ TableFile!Next
          /\ UNCHANGED <<vars, blockVars, twoVars, userVars, memVars, cacheVars>>
       \/ /\ \/ subject = "getting" /\ (Getting!Writes \/ Getting!Gets)
             \/ subject = "iterating" /\ (Iterating!Writes \/ Iterating!Iterates)
          /\ UNCHANGED <<vars, blockVars, twoVars, userVars, tableVars, cacheVars>>
       \/ /\ subject = "cache" /\ CacheNext
          /\ UNCHANGED <<vars, blockVars, twoVars, userVars, tableVars, memVars>>

AllSpec == AllInit /\ [][AllNext]_allVars

-----------------------------------------------------------------------------
\* Every iterator keeps the promise of Cursor over its own source: a block's,
\* the two-level one's over the readable blocks, the memtable's under its
\* writer, and the user's over the keys that have a value at its snapshot.
AllAreCursors ==
    /\ Blocks!IsCursor /\ TwoLevel!IsCursor /\ Iterating!IsCursor
    /\ OfUser!Yields!Spec

\* What an iterator cannot read it does not hide: a broken entry of a block,
\* an unreadable block, a key that does not parse end up in its status.
NothingHidden == Blocks!NothingHidden /\ TwoLevel!NothingHidden /\ Corrupt!CorruptionTold

\* A lookup answers with the newest entry of its key at its sequence number:
\* in the memtable, while the writer is at work; in a table, through filter,
\* index and block; and as the value the user's iterator shows.
ReadsFindNewest ==
    /\ Getting!GetFindsNewest
    /\ TableFile!GetFindsNewest
    /\ subject = "user" => OfUser!ValueIsNewest
    /\ subject = "corrupt" => Corrupt!ValueIsNewest

\* A table that opens holds every key it was given, whatever failed while it
\* was written.
TablesAreWhole ==
    TableFile!KeysAccounted /\ TableFile!OpenedIsWhole /\ TableFile!FilterNotBehind
        /\ TableFile!OffsetsOrdered
=============================================================================
