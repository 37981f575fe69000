----------------------------- MODULE Comparator -----------------------------
(***************************************************************************)
(* The order of keys: the bytewise order of user keys (util/comparator.cc) *)
(* and the order of internal keys over it (db/dbformat.cc), with the keys  *)
(* a table's index may use in place of the keys between its blocks.        *)
(***************************************************************************)
EXTENDS Integers, Sequences, SequencesExt

CONSTANTS MaxByte,        \* 0xff in the code
          kMaxSequenceNumber

\* memcmp, and the shorter first when one is a prefix of the other.
RECURSIVE Compare(_, _)
Compare(a, b) ==
    IF a = <<>> \/ b = <<>> THEN Len(a) - Len(b)
    ELSE IF Head(a) # Head(b) THEN Head(a) - Head(b)
    ELSE Compare(Tail(a), Tail(b))

\* The first byte that differs is raised, if that stays short of the limit's.
FindShortestSeparator(start, limit) ==
    LET diff == 1 + Len(LongestCommonPrefix({start, limit})) IN
    IF diff > Len(start) \/ diff > Len(limit) THEN start
    ELSE IF start[diff] < MaxByte /\ start[diff] + 1 < limit[diff]
         THEN Append(SubSeq(start, 1, diff - 1), start[diff] + 1)
         ELSE start

\* The first byte that can be raised is, and ends the key.
FindShortSuccessor(key) ==
    LET raisable == {i \in DOMAIN key : key[i] # MaxByte} IN
    IF raisable = {} THEN key
    ELSE LET i == CHOOSE i \in raisable : \A j \in raisable : i <= j
         IN Append(SubSeq(key, 1, i - 1), key[i] + 1)

-----------------------------------------------------------------------------
(* Internal keys: by user key, and the newest first.                       *)

IKey(user, seq) == [user |-> user, seq |-> seq]

ICompare(a, b) ==
    IF Compare(a.user, b.user) # 0 THEN Compare(a.user, b.user) ELSE b.seq - a.seq

\* A user key that became shorter, and larger, comes before all its entries.
Shortened(key, user) ==
    IF Len(user) < Len(key.user) /\ Compare(key.user, user) < 0
    THEN IKey(user, kMaxSequenceNumber) ELSE key

IFindShortestSeparator(start, limit) ==
    Shortened(start, FindShortestSeparator(start.user, limit.user))

IFindShortSuccessor(key) == Shortened(key, FindShortSuccessor(key.user))
=============================================================================
