----------------------------- MODULE MCDBFiles -----------------------------
(* DBFiles on a few writes, memtables, compactions and crashes. *)
EXTENDS DBFiles

Budget(writes, kills, cuts, failures, switches, merges, iterators) ==
    [writes |-> writes, kills |-> kills, cuts |-> cuts, failures |-> failures,
     switches |-> switches, merges |-> merges, iterators |-> iterators]

\* The machine dies; the process does, next to an iterator; the MANIFEST of a
\* flush fails, or that of a merge, and the process dies; the machine dies twice
\* while a database is created and written to.
SomeBudgets ==
    { Budget(2, 0, 1, 0, 1, 1, 0), Budget(2, 1, 0, 0, 1, 1, 1),
      Budget(2, 1, 0, 1, 2, 0, 0), Budget(1, 2, 0, 1, 0, 1, 0),
      Budget(1, 0, 2, 0, 0, 0, 0) }

\* The machine dies once, on an empty directory or one with a database.
OneCut == {Budget(1, 0, 1, 0, 0, 0, 0)}
=============================================================================
