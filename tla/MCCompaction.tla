---------------------------- MODULE MCCompaction ----------------------------
(* Compaction with four levels whose limits are a few entries. *)
EXTENDS Compaction

Limits == <<1, 1, 2, 3>>

\* Tables of one entry move down by size, by seeks and by trivial moves; the
\* versions of a key stay in one table, under snapshots; CompactRange is called
\* on whatever was flushed; and nothing bounds the compactions.
SomeUses ==
    { [keys |-> {1, 2}, target |-> 1, trigger |-> 1, writes |-> 4, snapshots |-> 0,
       merges |-> 3, manual |-> FALSE, seeks |-> TRUE, yields |-> TRUE],
      [keys |-> {1}, target |-> 10, trigger |-> 1, writes |-> 4, snapshots |-> 2,
       merges |-> 2, manual |-> FALSE, seeks |-> FALSE, yields |-> TRUE],
      [keys |-> {1, 2}, target |-> 1, trigger |-> 4, writes |-> 4, snapshots |-> 0,
       merges |-> 2, manual |-> TRUE, seeks |-> FALSE, yields |-> FALSE],
      [keys |-> {1}, target |-> 1, trigger |-> 1, writes |-> 3, snapshots |-> 0,
       merges |-> 20, manual |-> FALSE, seeks |-> TRUE, yields |-> TRUE] }

\* A snapshot over tables of one entry.
SplitKey ==
    { [keys |-> {1, 2}, target |-> 1, trigger |-> 1, writes |-> 4, snapshots |-> 1,
       merges |-> 3, manual |-> FALSE, seeks |-> FALSE, yields |-> TRUE] }
=============================================================================
