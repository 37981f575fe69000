------------------------------- MODULE Ordered -------------------------------
(* Positions in a finite ordered set, as every iterator of LevelDB has them *)
(* (include/leveldb/iterator.h): a key of the set, or nowhere.              *)
EXTENDS Integers

CONSTANT None      \* an iterator that is not Valid()

Least(S) == IF S = {} THEN None ELSE CHOOSE x \in S : \A y \in S : x <= y
Greatest(S) == IF S = {} THEN None ELSE CHOOSE x \in S : \A y \in S : y <= x

\* What Seek, Next and Prev move to.
FirstFrom(S, k) == Least({x \in S : k <= x})
After(S, k) == Least({x \in S : k < x})
Before(S, k) == Greatest({x \in S : x < k})
=============================================================================
