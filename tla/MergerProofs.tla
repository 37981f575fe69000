---------------------------- MODULE MergerProofs ----------------------------
(***************************************************************************)
(* The merging iterator is an iterator: for any number of children over    *)
(* any keys, as long as no key is held twice.                              *)
(*                                                                         *)
(* Every call leaves each child at the first key it holds in some upward   *)
(* closed part of the key order (what lies from the target on, or past the *)
(* current key), or at the last one in a downward closed part.  Lemmas     *)
(* Forward and Backward say what FindSmallest and FindLargest make of such *)
(* positions; each action is then an instance of one of them.              *)
(***************************************************************************)
EXTENDS Merger, TLAPS

LEMMA LeastIn ==
    ASSUME NEW S \in SUBSET Keys, S # {}
    PROVE  Least(S) \in S /\ \A y \in S : Least(S) <= y
BY FiniteAssumption DEF Least

LEMMA GreatestIn ==
    ASSUME NEW S \in SUBSET Keys, S # {}
    PROVE  Greatest(S) \in S /\ \A y \in S : y <= Greatest(S)
BY FiniteAssumption DEF Greatest

LEMMA LeastNone ==
    ASSUME NEW S \in SUBSET Keys
    PROVE  Least(S) = None <=> S = {}
BY LeastIn, MergerAssumption DEF Least

LEMMA GreatestNone ==
    ASSUME NEW S \in SUBSET Keys
    PROVE  Greatest(S) = None <=> S = {}
BY GreatestIn, MergerAssumption DEF Greatest

LEMMA LeastIs ==
    ASSUME NEW S \in SUBSET Keys, NEW x \in S, \A y \in S : x <= y
    PROVE  Least(S) = x
<1>1. Least(S) \in S /\ Least(S) <= x
  BY LeastIn
<1>2. x <= Least(S)
  BY <1>1
<1>3. Least(S) \in Int /\ x \in Int
  BY <1>1, MergerAssumption
<1> QED
  BY <1>1, <1>2, <1>3

LEMMA GreatestIs ==
    ASSUME NEW S \in SUBSET Keys, NEW x \in S, \A y \in S : y <= x
    PROVE  Greatest(S) = x
<1>1. Greatest(S) \in S /\ x <= Greatest(S)
  BY GreatestIn
<1>2. Greatest(S) <= x
  BY <1>1
<1>3. Greatest(S) \in Int /\ x \in Int
  BY <1>1, MergerAssumption
<1> QED
  BY <1>1, <1>2, <1>3

-----------------------------------------------------------------------------
(* What is at the children when each is at the first, or the last, of its  *)
(* keys in a part U of the order.                                          *)

Sources == held \in [Children -> SUBSET Keys] /\ Disjoint

\* Where the iterator is, and that the other children are past it (short of it).
Stands(pos, cur, U) ==
    /\ pos \in [Children -> Keys \cup {None}]
    /\ cur \in Children \cup {0}
    /\ \A c \in Children : pos[c] \in held[c] \cup {None}
    /\ cur = 0 => On(pos) = {}
    /\ cur # 0 => pos[cur] # None

LEMMA Zero == 0 \notin Children
BY MergerAssumption DEF Children

LEMMA UnionKeys == Sources => Union \in SUBSET Keys
BY DEF Sources, Union

LEMMA FindSmallestIn ==
    ASSUME Sources, NEW pos \in [Children -> Keys \cup {None}],
           \A c \in Children : pos[c] \in held[c] \cup {None},
           On(pos) # {}
    PROVE  /\ FindSmallest(pos) \in On(pos)
           /\ \A d \in On(pos) : pos[FindSmallest(pos)] <= pos[d]
<1> DEFINE At == {pos[c] : c \in On(pos)}
<1>1. At \in SUBSET Keys /\ At # {}
  BY DEF On
<1>2. PICK c \in On(pos) : pos[c] = Least(At)
  <2>1. Least(At) \in At
    BY <1>1, LeastIn
  <2> QED
    BY <2>1
<1>3. \A d \in On(pos) : pos[c] <= pos[d]
  BY <1>1, <1>2, LeastIn
<1>4. \A d \in On(pos) : pos[d] = pos[c] => d = c
  BY DEF On, Sources, Disjoint
<1>5. \A d \in On(pos) : pos[d] \in Int
  BY MergerAssumption DEF On
<1>6. c \in Int
  BY MergerAssumption DEF On, Children
<1>7. IsSmallest(pos, c)
  BY <1>2, <1>3, <1>4, <1>5, <1>6 DEF IsSmallest
<1>8. FindSmallest(pos) \in On(pos) /\ IsSmallest(pos, FindSmallest(pos))
  BY <1>2, <1>7 DEF FindSmallest
<1> QED
  BY <1>5, <1>8 DEF IsSmallest

LEMMA FindLargestIn ==
    ASSUME Sources, NEW pos \in [Children -> Keys \cup {None}],
           \A c \in Children : pos[c] \in held[c] \cup {None},
           On(pos) # {}
    PROVE  /\ FindLargest(pos) \in On(pos)
           /\ \A d \in On(pos) : pos[d] <= pos[FindLargest(pos)]
<1> DEFINE At == {pos[c] : c \in On(pos)}
<1>1. At \in SUBSET Keys /\ At # {}
  BY DEF On
<1>2. PICK c \in On(pos) : pos[c] = Greatest(At)
  <2>1. Greatest(At) \in At
    BY <1>1, GreatestIn
  <2> QED
    BY <2>1
<1>3. \A d \in On(pos) : pos[d] <= pos[c]
  BY <1>1, <1>2, GreatestIn
<1>4. \A d \in On(pos) : pos[d] = pos[c] => d = c
  BY DEF On, Sources, Disjoint
<1>5. \A d \in On(pos) : pos[d] \in Int
  BY MergerAssumption DEF On
<1>6. c \in Int
  BY MergerAssumption DEF On, Children
<1>7. IsLargest(pos, c)
  BY <1>2, <1>3, <1>4, <1>5, <1>6 DEF IsLargest
<1>8. FindLargest(pos) \in On(pos) /\ IsLargest(pos, FindLargest(pos))
  BY <1>2, <1>7 DEF FindLargest
<1> QED
  BY <1>5, <1>8 DEF IsLargest

LEMMA Forward ==
    ASSUME Sources, NEW U \in SUBSET Keys,
           \A x \in U, y \in Keys : x <= y => y \in U,
           NEW pos, pos = [c \in Children |-> Least(held[c] \cap U)],
           NEW cur, cur = FindSmallest(pos)
    PROVE  /\ Stands(pos, cur, U)
           /\ (IF cur # 0 THEN pos[cur] ELSE None) = Least(Union \cap U)
           /\ cur # 0 => \A c \in Children \ {cur} : pos[c] = After(held[c], pos[cur])
<1>1. \A c \in Children : held[c] \cap U \in SUBSET Keys
  BY DEF Sources
<1>2. \A c \in Children : pos[c] \in (held[c] \cap U) \cup {None}
  BY <1>1, LeastIn DEF Least
<1>3. pos \in [Children -> Keys \cup {None}]
  BY <1>1, <1>2
<1>4. \A c \in Children : held[c] \cap U = {} <=> c \notin On(pos)
  BY <1>1, LeastNone DEF On
<1>5. CASE On(pos) = {}
  <2>1. cur = 0
    BY <1>5 DEF FindSmallest
  <2>2. Union \cap U = {}
    BY <1>4, <1>5 DEF Union
  <2> QED
    BY <2>1, <2>2, <1>2, <1>3, <1>5 DEF Stands, Least
<1>6. CASE On(pos) # {}
  <2>1. /\ cur \in On(pos)
        /\ \A d \in On(pos) : pos[cur] <= pos[d]
    BY <1>2, <1>3, <1>6, FindSmallestIn
  <2>2. cur \in Children /\ cur # 0 /\ pos[cur] \in held[cur] \cap U /\ pos[cur] \in Keys
    BY <2>1, <1>2, <1>1, Zero DEF On
  <2>3. \A d \in Children, y \in U : y \in held[d] => pos[cur] <= y
    <3> TAKE d \in Children, y \in U
    <3> HAVE y \in held[d]
    <3>1. pos[d] \in Keys /\ pos[d] <= y /\ d \in On(pos)
      BY <1>1, <1>4, LeastIn DEF On
    <3>2. pos[cur] <= pos[d]
      BY <3>1, <2>1
    <3>3. pos[cur] \in Int /\ pos[d] \in Int /\ y \in Int
      BY <3>1, <2>2, MergerAssumption
    <3> QED
      BY <3>1, <3>2, <3>3
  <2>4. Least(Union \cap U) = pos[cur]
    <3>1. pos[cur] \in Union \cap U
      BY <2>2 DEF Union
    <3>2. \A y \in Union \cap U : pos[cur] <= y
      BY <2>3 DEF Union
    <3> QED
      BY <3>1, <3>2, LeastIs
  <2>5. \A c \in Children \ {cur} : pos[c] = After(held[c], pos[cur])
    <3> TAKE c \in Children \ {cur}
    <3>1. \A x \in held[c] : pos[cur] < x <=> x \in U
      <4> TAKE x \in held[c]
      <4>1. x \in Keys /\ x # pos[cur]
        BY <2>2 DEF Sources, Disjoint
      <4>2. x \in U => pos[cur] <= x
        BY <2>3
      <4>3. pos[cur] <= x => x \in U
        BY <2>2, <4>1
      <4>4. x \in Int /\ pos[cur] \in Int
        BY <4>1, <2>2, MergerAssumption
      <4> QED
        BY <4>1, <4>2, <4>3, <4>4
    <3>2. held[c] \cap U = {x \in held[c] : pos[cur] < x}
      BY <3>1
    <3> QED
      BY <3>2 DEF After
  <2> QED
    BY <2>1, <2>2, <2>4, <2>5, <1>2, <1>3 DEF Stands, On
<1> QED
  BY <1>5, <1>6

LEMMA Backward ==
    ASSUME Sources, NEW U \in SUBSET Keys,
           \A x \in U, y \in Keys : y <= x => y \in U,
           NEW pos, pos = [c \in Children |-> Greatest(held[c] \cap U)],
           NEW cur, cur = FindLargest(pos)
    PROVE  /\ Stands(pos, cur, U)
           /\ (IF cur # 0 THEN pos[cur] ELSE None) = Greatest(Union \cap U)
           /\ cur # 0 => \A c \in Children \ {cur} : pos[c] = Before(held[c], pos[cur])
<1>1. \A c \in Children : held[c] \cap U \in SUBSET Keys
  BY DEF Sources
<1>2. \A c \in Children : pos[c] \in (held[c] \cap U) \cup {None}
  BY <1>1, GreatestIn DEF Greatest
<1>3. pos \in [Children -> Keys \cup {None}]
  BY <1>1, <1>2
<1>4. \A c \in Children : held[c] \cap U = {} <=> c \notin On(pos)
  BY <1>1, GreatestNone DEF On
<1>5. CASE On(pos) = {}
  <2>1. cur = 0
    BY <1>5 DEF FindLargest
  <2>2. Union \cap U = {}
    BY <1>4, <1>5 DEF Union
  <2> QED
    BY <2>1, <2>2, <1>2, <1>3, <1>5 DEF Stands, Greatest
<1>6. CASE On(pos) # {}
  <2>1. /\ cur \in On(pos)
        /\ \A d \in On(pos) : pos[d] <= pos[cur]
    BY <1>2, <1>3, <1>6, FindLargestIn
  <2>2. cur \in Children /\ cur # 0 /\ pos[cur] \in held[cur] \cap U /\ pos[cur] \in Keys
    BY <2>1, <1>2, <1>1, Zero DEF On
  <2>3. \A d \in Children, y \in U : y \in held[d] => y <= pos[cur]
    <3> TAKE d \in Children, y \in U
    <3> HAVE y \in held[d]
    <3>1. pos[d] \in Keys /\ y <= pos[d] /\ d \in On(pos)
      BY <1>1, <1>4, GreatestIn DEF On
    <3>2. pos[d] <= pos[cur]
      BY <3>1, <2>1
    <3>3. pos[cur] \in Int /\ pos[d] \in Int /\ y \in Int
      BY <3>1, <2>2, MergerAssumption
    <3> QED
      BY <3>1, <3>2, <3>3
  <2>4. Greatest(Union \cap U) = pos[cur]
    <3>1. pos[cur] \in Union \cap U
      BY <2>2 DEF Union
    <3>2. \A y \in Union \cap U : y <= pos[cur]
      BY <2>3 DEF Union
    <3> QED
      BY <3>1, <3>2, GreatestIs
  <2>5. \A c \in Children \ {cur} : pos[c] = Before(held[c], pos[cur])
    <3> TAKE c \in Children \ {cur}
    <3>1. \A x \in held[c] : x < pos[cur] <=> x \in U
      <4> TAKE x \in held[c]
      <4>1. x \in Keys /\ x # pos[cur]
        BY <2>2 DEF Sources, Disjoint
      <4>2. x \in U => x <= pos[cur]
        BY <2>3
      <4>3. x <= pos[cur] => x \in U
        BY <2>2, <4>1
      <4>4. x \in Int /\ pos[cur] \in Int
        BY <4>1, <2>2, MergerAssumption
      <4> QED
        BY <4>1, <4>2, <4>3, <4>4
    <3>2. held[c] \cap U = {x \in held[c] : x < pos[cur]}
      BY <3>1
    <3> QED
      BY <3>2 DEF Before
  <2> QED
    BY <2>1, <2>2, <2>4, <2>5, <1>2, <1>3 DEF Stands, On
<1> QED
  BY <1>5, <1>6

-----------------------------------------------------------------------------
(* The positions each action leaves are such parts of the order.           *)

AtFirst(U) == child' = [c \in Children |-> Least(held[c] \cap U)]
AtLast(U) == child' = [c \in Children |-> Greatest(held[c] \cap U)]

LEMMA ForwardStep ==
    ASSUME Inv, UNCHANGED held, forward' = TRUE,
           NEW U \in SUBSET Keys,
           \A x \in U, y \in Keys : x <= y => y \in U,
           AtFirst(U), current' = FindSmallest(child')
    PROVE  /\ Inv'
           /\ Union' = Union
           /\ (IF Valid' THEN Key' ELSE None) = Least(Union \cap U)
<1>1. Sources
  BY DEF Inv, Sources, TypeOK
<1> DEFINE pos == [c \in Children |-> Least(held[c] \cap U)]
           cur == FindSmallest(pos)
<1>2. child' = pos /\ current' = cur
  BY DEF AtFirst
<1> HIDE DEF cur
<1>3. /\ Stands(pos, cur, U)
      /\ (IF cur # 0 THEN pos[cur] ELSE None) = Least(Union \cap U)
      /\ cur # 0 => \A c \in Children \ {cur} : pos[c] = After(held[c], pos[cur])
  BY <1>1, Forward DEF cur
<1> HIDE DEF pos
<1>4. Stands(child', current', U)
  BY <1>2, <1>3
<1>5. TypeOK' /\ AtOwnKey' /\ AllOff' /\ (Valid' => child[current]' # None)
  BY <1>1, <1>4 DEF Stands, Sources, TypeOK, AtOwnKey, AllOff, Valid, On
<1>6. Lined'
  BY <1>2, <1>3 DEF Lined, Valid, Key
<1>7. Disjoint' /\ Union' = Union
  BY DEF Inv, Disjoint, Union
<1>8. (IF Valid' THEN Key' ELSE None) = Least(Union \cap U)
  BY <1>2, <1>3 DEF Valid, Key
<1> QED
  BY <1>5, <1>6, <1>7, <1>8 DEF Inv

LEMMA BackwardStep ==
    ASSUME Inv, UNCHANGED held, forward' = FALSE,
           NEW U \in SUBSET Keys,
           \A x \in U, y \in Keys : y <= x => y \in U,
           AtLast(U), current' = FindLargest(child')
    PROVE  /\ Inv'
           /\ Union' = Union
           /\ (IF Valid' THEN Key' ELSE None) = Greatest(Union \cap U)
<1>1. Sources
  BY DEF Inv, Sources, TypeOK
<1> DEFINE pos == [c \in Children |-> Greatest(held[c] \cap U)]
           cur == FindLargest(pos)
<1>2. child' = pos /\ current' = cur
  BY DEF AtLast
<1> HIDE DEF cur
<1>3. /\ Stands(pos, cur, U)
      /\ (IF cur # 0 THEN pos[cur] ELSE None) = Greatest(Union \cap U)
      /\ cur # 0 => \A c \in Children \ {cur} : pos[c] = Before(held[c], pos[cur])
  BY <1>1, Backward DEF cur
<1> HIDE DEF pos
<1>4. Stands(child', current', U)
  BY <1>2, <1>3
<1>5. TypeOK' /\ AtOwnKey' /\ AllOff' /\ (Valid' => child[current]' # None)
  BY <1>1, <1>4 DEF Stands, Sources, TypeOK, AtOwnKey, AllOff, Valid, On
<1>6. Lined'
  BY <1>2, <1>3 DEF Lined, Valid, Key
<1>7. Disjoint' /\ Union' = Union
  BY DEF Inv, Disjoint, Union
<1>8. (IF Valid' THEN Key' ELSE None) = Greatest(Union \cap U)
  BY <1>2, <1>3 DEF Valid, Key
<1> QED
  BY <1>5, <1>6, <1>7, <1>8 DEF Inv

\* Turning round leaves every other child where the walk in that direction
\* would have: this is where a duplicate would be lost.
LEMMA Past ==
    ASSUME Inv, Valid, NEW c \in Children
    PROVE  PastKey(c) = After(held[c], Key)
<1>1. held[c] \in SUBSET Keys /\ Key \in Keys /\ Keys \subseteq Int
  BY MergerAssumption DEF Inv, TypeOK, Valid, Key
<1> DEFINE F == {x \in held[c] : Key <= x}
           G == {x \in held[c] : Key < x}
<1>2. CASE Key \in held[c]
  <2>1. Key \in F /\ \A y \in F : Key <= y
    BY <1>1, <1>2
  <2>2. Least(F) = Key
    BY <1>1, <2>1, LeastIs
  <2> QED
    BY <2>2 DEF PastKey, FirstFrom
<1>3. CASE Key \notin held[c]
  <2>1. F = G
    BY <1>1, <1>3
  <2>2. Least(F) # Key
    <3>1. F \in SUBSET Keys
      BY <1>1
    <3>2. Least(F) \in F \/ Least(F) = None
      BY <3>1, LeastIn DEF Least
    <3> QED
      BY <3>2, <1>1, <1>3, MergerAssumption
  <2> QED
    BY <2>1, <2>2 DEF PastKey, FirstFrom, After
<1> QED
  BY <1>2, <1>3

LEMMA Short ==
    ASSUME Inv, Valid, NEW c \in Children
    PROVE  ShortOfKey(c) = Before(held[c], Key)
<1>1. held[c] \in SUBSET Keys /\ Key \in Keys /\ Keys \subseteq Int
  BY MergerAssumption DEF Inv, TypeOK, Valid, Key
<1> DEFINE F == {x \in held[c] : Key <= x}
           f == Least(F)
           B == {x \in held[c] : x < Key}
<1>2. CASE F = {}
  <2>1. B = held[c]
    <3>1. \A x \in held[c] : x \in Int /\ ~(Key <= x)
      BY <1>1, <1>2
    <3> QED
      BY <1>1, <3>1
  <2>2. FirstFrom(held[c], Key) = None
    BY <1>2 DEF FirstFrom, Least
  <2> QED
    BY <2>1, <2>2 DEF ShortOfKey, Before
<1>3. CASE F # {}
  <2>1. f \in F /\ \A y \in F : f <= y
    BY <1>1, <1>3, LeastIn
  <2>2. f \in Int /\ Key <= f /\ f # None
    BY <1>1, <2>1, MergerAssumption
  <2>3. \A x \in held[c] : x < f <=> x < Key
    <3> TAKE x \in held[c]
    <3>1. x \in Int /\ Key \in Int
      BY <1>1
    <3>2. Key <= x => f <= x
      BY <2>1
    <3> QED
      BY <3>1, <3>2, <2>2
  <2>4. {x \in held[c] : x < f} = B
    BY <2>3
  <2> HIDE DEF f, B
  <2>5. FirstFrom(held[c], Key) = f
    BY DEF f, FirstFrom
  <2>6. Before(held[c], f) = Before(held[c], Key)
    BY <2>4 DEF Before, B
  <2> QED
    BY <2>2, <2>5, <2>6 DEF ShortOfKey
<1> QED
  BY <1>2, <1>3

-----------------------------------------------------------------------------
(* Each call keeps the invariant and does what the same call of Cursor does. *)

LEMMA SameEnds == \A S : Merged!Least(S) = Least(S) /\ Merged!Greatest(S) = Greatest(S)
BY Zenon DEF Merged!Least, Least, Merged!Greatest, Greatest

LEMMA FirstStep ==
    ASSUME Inv, SeekToFirst
    PROVE  Inv' /\ Merged!SeekToFirst /\ UNCHANGED Union
<1>1. \A c \in Children : held[c] \cap Keys = held[c]
  BY DEF Inv, TypeOK
<1>2. AtFirst(Keys)
  BY <1>1 DEF SeekToFirst, AtFirst
<1>3. Union \cap Keys = Union
  BY <1>1 DEF Union
<1>4. /\ Inv'
      /\ Union' = Union
      /\ (IF Valid' THEN Key' ELSE None) = Least(Union \cap Keys)
  BY <1>2, ForwardStep DEF SeekToFirst
<1>10. call' = <<"SeekToFirst">>
  BY DEF SeekToFirst
<1> QED
  BY <1>10, <1>3, <1>4, SameEnds DEF Merged!SeekToFirst

LEMMA LastStep ==
    ASSUME Inv, SeekToLast
    PROVE  Inv' /\ Merged!SeekToLast /\ UNCHANGED Union
<1>1. \A c \in Children : held[c] \cap Keys = held[c]
  BY DEF Inv, TypeOK
<1>2. AtLast(Keys)
  BY <1>1 DEF SeekToLast, AtLast
<1>3. Union \cap Keys = Union
  BY <1>1 DEF Union
<1>4. /\ Inv'
      /\ Union' = Union
      /\ (IF Valid' THEN Key' ELSE None) = Greatest(Union \cap Keys)
  BY <1>2, BackwardStep DEF SeekToLast
<1>10. call' = <<"SeekToLast">>
  BY DEF SeekToLast
<1> QED
  BY <1>10, <1>3, <1>4, SameEnds DEF Merged!SeekToLast

LEMMA SeekStep ==
    ASSUME Inv, NEW target \in Keys, Seek(target)
    PROVE  Inv' /\ Merged!Seek(target) /\ UNCHANGED Union
<1> DEFINE U == {x \in Keys : target <= x}
<1>1. \A c \in Children : held[c] \cap U = {x \in held[c] : target <= x}
  BY DEF Inv, TypeOK
<1>2. AtFirst(U)
  BY <1>1 DEF Seek, AtFirst, FirstFrom
<1>3. Union \cap U = {x \in Union : target <= x}
  BY DEF Union, Inv, TypeOK
<1>4. \A x \in U, y \in Keys : x <= y => y \in U
  BY MergerAssumption
<1>5. /\ Inv'
      /\ Union' = Union
      /\ (IF Valid' THEN Key' ELSE None) = Least(Union \cap U)
  <2> HIDE DEF U
  <2>1. U \in SUBSET Keys
    BY DEF U
  <2> QED
    BY <1>2, <1>4, <2>1, ForwardStep DEF Seek
<1>10. call' = <<"Seek", target>>
  BY DEF Seek
<1> QED
  BY <1>10, <1>3, <1>5, SameEnds DEF Merged!Seek, Merged!FirstFrom

LEMMA NextStep ==
    ASSUME Inv, Next
    PROVE  Inv' /\ Merged!Next /\ UNCHANGED Union
<1> DEFINE U == {x \in Keys : Key < x}
<1>1. Valid /\ Key \in Keys /\ current \in Children
  BY DEF Next, Inv, TypeOK, Valid, Key
<1>2. \A c \in Children : held[c] \cap U = {x \in held[c] : Key < x}
  BY DEF Inv, TypeOK
<1>3. \A c \in Children \ {current} : TurnForward[c] = After(held[c], Key)
  BY <1>1, Past DEF Inv, Lined, TurnForward
<1>4. child' = [c \in Children |-> After(held[c], Key)]
  <2>1. DOMAIN TurnForward = Children /\ TurnForward = [c \in Children |-> TurnForward[c]]
    BY DEF TurnForward, Inv, TypeOK
  <2> QED
    BY <1>1, <1>3, <2>1 DEF Next
<1>5. AtFirst(U)
  BY <1>2, <1>4 DEF AtFirst, After
<1>6. Union \cap U = {x \in Union : Key < x}
  BY DEF Union, Inv, TypeOK
<1>7. \A x \in U, y \in Keys : x <= y => y \in U
  BY <1>1, MergerAssumption
<1>8. /\ Inv'
      /\ Union' = Union
      /\ (IF Valid' THEN Key' ELSE None) = Least(Union \cap U)
  <2> HIDE DEF U
  <2>1. U \in SUBSET Keys
    BY DEF U
  <2> QED
    BY <1>5, <1>7, <2>1, ForwardStep DEF Next
<1>9. Key # None
  BY <1>1, MergerAssumption
<1>10. call' = <<"Next">>
  BY DEF Next
<1> QED
  BY <1>10, <1>1, <1>6, <1>8, <1>9, SameEnds DEF Merged!Next, Merged!Valid, Merged!After

LEMMA PrevStep ==
    ASSUME Inv, Prev
    PROVE  Inv' /\ Merged!Prev /\ UNCHANGED Union
<1> DEFINE U == {x \in Keys : x < Key}
<1>1. Valid /\ Key \in Keys /\ current \in Children
  BY DEF Prev, Inv, TypeOK, Valid, Key
<1>2. \A c \in Children : held[c] \cap U = {x \in held[c] : x < Key}
  BY DEF Inv, TypeOK
<1>3. \A c \in Children \ {current} : TurnBackward[c] = Before(held[c], Key)
  BY <1>1, Short DEF Inv, Lined, TurnBackward
<1>4. child' = [c \in Children |-> Before(held[c], Key)]
  <2>1. DOMAIN TurnBackward = Children /\ TurnBackward = [c \in Children |-> TurnBackward[c]]
    BY DEF TurnBackward, Inv, TypeOK
  <2> QED
    BY <1>1, <1>3, <2>1 DEF Prev
<1>5. AtLast(U)
  BY <1>2, <1>4 DEF AtLast, Before
<1>6. Union \cap U = {x \in Union : x < Key}
  BY DEF Union, Inv, TypeOK
<1>7. \A x \in U, y \in Keys : y <= x => y \in U
  BY <1>1, MergerAssumption
<1>8. /\ Inv'
      /\ Union' = Union
      /\ (IF Valid' THEN Key' ELSE None) = Greatest(Union \cap U)
  <2> HIDE DEF U
  <2>1. U \in SUBSET Keys
    BY DEF U
  <2> QED
    BY <1>5, <1>7, <2>1, BackwardStep DEF Prev
<1>9. Key # None
  BY <1>1, MergerAssumption
<1>10. call' = <<"Prev">>
  BY DEF Prev
<1> QED
  BY <1>10, <1>1, <1>6, <1>8, <1>9, SameEnds DEF Merged!Prev, Merged!Valid, Merged!Before

LEMMA InitInv == ~Duplicates /\ Init => Inv /\ Merged!Init
BY MergerAssumption DEF Init, Inv, TypeOK, AtOwnKey, Lined, AllOff, Valid, On, Children, Merged!Init

LEMMA StepInv == Inv /\ [Move]_vars => Inv' /\ [Merged!Move]_(Merged!vars)
<1> SUFFICES ASSUME Inv, [Move]_vars
             PROVE  Inv' /\ [Merged!Move]_(Merged!vars)
  OBVIOUS
<1>1. CASE SeekToFirst
  BY <1>1, FirstStep DEF Merged!Move
<1>2. CASE SeekToLast
  BY <1>2, LastStep DEF Merged!Move
<1>3. CASE Next
  BY <1>3, NextStep DEF Merged!Move
<1>4. CASE Prev
  BY <1>4, PrevStep DEF Merged!Move
<1>5. CASE \E target \in Keys : Seek(target)
  BY <1>5, SeekStep DEF Merged!Move
<1>6. CASE UNCHANGED vars
  BY <1>6 DEF vars, Inv, TypeOK, Disjoint, AtOwnKey, Lined, AllOff, Valid, Key, On, Union,
              Merged!vars
<1> QED
  BY <1>1, <1>2, <1>3, <1>4, <1>5, <1>6 DEF Move

-----------------------------------------------------------------------------
\* Whatever the user calls, in whatever order, every child stands where
\* Next and Prev take it to stand (merger.cc:62-66, 88-92).
THEOREM AlwaysLined == ~Duplicates /\ Spec => []Inv
BY InitInv, StepInv, PTL DEF Spec

\* The merged iterator is an iterator over the keys of all its children.
THEOREM MergerIsCursor == ~Duplicates /\ Spec => IsCursor
BY InitInv, StepInv, PTL DEF Spec, IsCursor, Merged!Spec
=============================================================================
