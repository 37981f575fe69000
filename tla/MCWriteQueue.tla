---------------------------- MODULE MCWriteQueue ----------------------------
(* WriteQueue with three threads and batches of one or two operations. *)
EXTENDS WriteQueue, TLC

CONSTANTS a, b, c

Async == [ops |-> 1, sync |-> FALSE, null |-> FALSE]
Synced == [ops |-> 1, sync |-> TRUE, null |-> FALSE]
Big == [ops |-> 2, sync |-> FALSE, null |-> FALSE]
Compact == [ops |-> 0, sync |-> FALSE, null |-> TRUE]

Writes == {Async, Synced, Big}
AsyncAndRange == {Async, Compact}

Symmetry == Permutations(Threads)
=============================================================================
