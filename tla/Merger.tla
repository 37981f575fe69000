------------------------------- MODULE Merger -------------------------------
(***************************************************************************)
(* MergingIterator (table/merger.cc): one ordered view of several sources, *)
(* the memtables, the tables of level 0 and the deeper levels.  Each child *)
(* is an iterator that keeps the promise of Cursor over its own keys.      *)
(***************************************************************************)
EXTENDS Ordered, FiniteSets

CONSTANTS Keys, N,
          Duplicates       \* whether two children may hold the same key

ASSUME MergerAssumption ==
    /\ Keys \subseteq Int /\ None \notin Int
    /\ N \in Nat
    /\ Duplicates \in BOOLEAN
\* What a child holds is finite: each part of it has a first and a last key.
ASSUME FiniteAssumption ==
    \A S \in SUBSET Keys : S # {} =>
        /\ \E x \in S : \A y \in S : x <= y
        /\ \E x \in S : \A y \in S : y <= x

Children == 1..N

VARIABLES held,        \* the keys of each child
          child,       \* where each child is
          current,     \* the child whose key is the iterator's, 0 for none
          forward,     \* direction_
          call         \* history: the last call

vars == <<held, child, current, forward, call>>

Disjoint == \A c, d \in Children : c # d => held[c] \cap held[d] = {}

Valid == current # 0
Key == child[current]

On(pos) == {c \in Children : pos[c] # None}

\* FindSmallest: the lowest child of the smallest key.
IsSmallest(pos, c) ==
    \A d \in On(pos) : pos[c] < pos[d] \/ (pos[c] = pos[d] /\ c <= d)
FindSmallest(pos) ==
    IF On(pos) = {} THEN 0 ELSE CHOOSE c \in On(pos) : IsSmallest(pos, c)

\* FindLargest: the highest child of the largest key.
IsLargest(pos, c) ==
    \A d \in On(pos) : pos[d] < pos[c] \/ (pos[c] = pos[d] /\ d <= c)
FindLargest(pos) ==
    IF On(pos) = {} THEN 0 ELSE CHOOSE c \in On(pos) : IsLargest(pos, c)

Init ==
    /\ held \in [Children -> SUBSET Keys]
    /\ Duplicates \/ Disjoint
    /\ child = [c \in Children |-> None]
    /\ current = 0
    /\ forward = TRUE
    /\ call = <<"none">>

SeekToFirst ==
    /\ call' = <<"SeekToFirst">>
    /\ child' = [c \in Children |-> Least(held[c])]
    /\ current' = FindSmallest(child')
    /\ forward' = TRUE
    /\ UNCHANGED held

SeekToLast ==
    /\ call' = <<"SeekToLast">>
    /\ child' = [c \in Children |-> Greatest(held[c])]
    /\ current' = FindLargest(child')
    /\ forward' = FALSE
    /\ UNCHANGED held

Seek(target) ==
    /\ call' = <<"Seek", target>>
    /\ child' = [c \in Children |-> FirstFrom(held[c], target)]
    /\ current' = FindSmallest(child')
    /\ forward' = TRUE
    /\ UNCHANGED held

\* Mutant: the other children are left where the walk backward put them.
Mut_TurnForward == child

\* Next turns the other children round: to the first key >= key(), and past
\* it when it is key().
PastKey(c) ==
    IF FirstFrom(held[c], Key) = Key THEN After(held[c], Key) ELSE FirstFrom(held[c], Key)

TurnForward ==
    IF forward THEN child
    ELSE [c \in Children |-> IF c = current THEN child[c] ELSE PastKey(c)]

Next ==
    /\ call' = <<"Next">>
    /\ Valid
    /\ child' = [TurnForward EXCEPT ![current] = After(held[current], Key)]
    /\ current' = FindSmallest(child')
    /\ forward' = TRUE
    /\ UNCHANGED held

\* Mutant: a child without a key >= key() is left off its end.
Mut_ShortOfKey(c) ==
    IF FirstFrom(held[c], Key) # None
    THEN Before(held[c], FirstFrom(held[c], Key))
    ELSE None

\* Prev steps them back from the first key >= key(), or to their last one.
ShortOfKey(c) ==
    IF FirstFrom(held[c], Key) # None
    THEN Before(held[c], FirstFrom(held[c], Key))
    ELSE Greatest(held[c])

TurnBackward ==
    IF ~forward THEN child
    ELSE [c \in Children |-> IF c = current THEN child[c] ELSE ShortOfKey(c)]

Prev ==
    /\ call' = <<"Prev">>
    /\ Valid
    /\ child' = [TurnBackward EXCEPT ![current] = Before(held[current], Key)]
    /\ current' = FindLargest(child')
    /\ forward' = FALSE
    /\ UNCHANGED held

Move == SeekToFirst \/ SeekToLast \/ Next \/ Prev \/ \E target \in Keys : Seek(target)

Spec == Init /\ [][Move]_vars

-----------------------------------------------------------------------------
(* The iterator's state keeps its type.                                    *)
TypeOK ==
    /\ held \in [Children -> SUBSET Keys]
    /\ child \in [Children -> Keys \cup {None}]
    /\ current \in Children \cup {0}
    /\ forward \in BOOLEAN

\* Every child's position is a key of its own.
AtOwnKey == \A c \in Children : child[c] \in held[c] \cup {None}

\* The comment of merger.cc:62-66 and 88-92: while the iterator moves
\* forward, every other child is at its first key past key(); while it moves
\* backward, at its last key before it.  Next and Prev rely on it.
Lined ==
    \A c \in Children \ {current} :
        Valid => child[c] = IF forward THEN After(held[c], Key) ELSE Before(held[c], Key)

\* When the iterator has run off an end, so has every child.
AllOff == ~Valid => On(child) = {}

Inv == TypeOK /\ Disjoint /\ AtOwnKey /\ Lined /\ AllOff /\ (Valid => child[current] # None)

-----------------------------------------------------------------------------
\* What its users see: an iterator over the union of the children's keys.
Union == UNION {held[c] : c \in Children}
Merged == INSTANCE Cursor WITH
    Targets <- Keys, contents <- Union, at <- IF Valid THEN Key ELSE None

\* merger.cc as a whole: the merged iterator keeps the promise every iterator
\* makes, whichever way its user turns.
IsCursor == Merged!Spec

(* merger.h:17-18, "The result does no duplicate suppression.  I.e., if a  *)
(* particular key is present in K child iterators, it will be yielded K    *)
(* times": a Next that turns round at a key yields again the copies of it  *)
(* that the walk backward has yielded before this one.                     *)
Copies(pos, k) == Cardinality({c \in Children : pos[c] = k})
Holders(k) == Cardinality({c \in Children : k \in held[c]})
EveryCopy ==
    [][~forward /\ Next => Copies(child', Key) = Holders(Key) - Copies(child, Key)]_vars
=============================================================================
