-------------------------- MODULE CompactionProofs --------------------------
(***************************************************************************)
(* The levels, for any keys, any number of levels, writes and snapshots,   *)
(* and any limits on sizes: the tables of a level do not overlap, entries  *)
(* never hop across levels, and a Get finds the latest value.              *)
(***************************************************************************)
EXTENDS Compaction, FiniteSetTheorems, SequenceTheorems, WellFoundedInduction, TLAPS

-----------------------------------------------------------------------------
(* Types, and the levels as sets of tables: a version is determined by     *)
(* them.                                                                   *)

Update == [key : Keys, seq : Nat \ {0}, del : BOOLEAN]

Table == {f \in [number : Nat, entries : Seq(Update)] :
            /\ f.entries # <<>>
            /\ \A i, j \in 1..Len(f.entries) : i < j => Less(f.entries[i], f.entries[j])}

Lo(f) == Smallest(f).key
Hi(f) == Largest(f).key
EntriesOf(fs) == UNION {ToSet(f.entries) : f \in fs}
Newer(upper, lower) == \A a \in upper, b \in lower : a.key = b.key => a.seq > b.seq

Sets(v) == [l \in 1..kNumLevels |-> ToSet(v[l])]
All(T) == EntriesOf(UNION {T[l] : l \in 1..kNumLevels})

\* The sets of tables after an edit.
After(T, del, add) ==
    [l \in 1..kNumLevels |-> {f \in T[l] : <<l - 1, f.number>> \notin del}
                                \cup {a[2] : a \in {b \in add : b[1] = l - 1}}]

-----------------------------------------------------------------------------
(* The inductive invariant.                                                *)

Listed(v) ==
    /\ v \in [1..kNumLevels -> Seq(Table)]
    /\ \A l \in 1..kNumLevels : \A i, j \in 1..Len(v[l]) : i < j => BySmallestKey(v[l][i], v[l][j])

\* No user key is in the ranges of two tables of a level but the first, and what
\* is searched first is newer.
Apart(f, g) == Hi(f) < Lo(g) \/ Hi(g) < Lo(f)

Fine(T, recent, old) ==
    /\ T \in [1..kNumLevels -> SUBSET Table]
    /\ \A l \in 1..kNumLevels : IsFiniteSet(T[l]) /\ EntriesOf(T[l]) \subseteq old
    /\ \A l, m \in 1..kNumLevels : \A f \in T[l], g \in T[m] : f.number = g.number => l = m /\ f = g
    /\ \A l \in 2..kNumLevels : \A f, g \in T[l] : f = g \/ Apart(f, g)
    /\ \A l \in 1..kNumLevels : Newer(recent, EntriesOf(T[l]))
    /\ \A l, m \in 1..kNumLevels : l < m => Newer(EntriesOf(T[l]), EntriesOf(T[m]))
    /\ \A f, g \in T[1] : f.number > g.number => Newer(ToSet(f.entries), ToSet(g.entries))

\* What a reader at s or later may see of the entries is what was written.
Shows(es, old, s) ==
    \A k \in Keys, t \in s..MaxWrites : Value(Newest(es, k, t)) = Value(Newest(old, k, t))

Recent == mem \cup imm
Good(T) == Fine(T, Recent, written) /\ Shows(Recent \cup All(T), written, SmallestSnapshot)

NumberedBelow(T, n) == \A l \in 1..kNumLevels : \A f \in T[l] : f.number < n

\* Each user key of a range is in the range of some table.
Covered(b, e, fs) == \A k \in b..e : \E g \in fs : Lo(g) <= k /\ k <= Hi(g)

\* The compaction under way: its inputs are still there, and installing it leads
\* to a version that is right. No table that is flushed in the meantime gets into
\* the range of an output.
Merging ==
    LET outputs == {a[2] : a \in merge.add}
        next == After(Sets(files), merge.del, merge.add)
    IN  \E l \in 1..kNumLevels-1 :
          \E inputs0 \in SUBSET ToSet(files[l]), inputs1 \in SUBSET ToSet(files[l+1]) :
            /\ merge.del = {<<l - 1, f.number>> : f \in inputs0} \cup {<<l, f.number>> : f \in inputs1}
            /\ merge.add = {<<l, f>> : f \in outputs}
            /\ \/ \A f \in outputs : Covered(Lo(f), Hi(f), inputs0 \cup inputs1)
               \/ ~use.yields /\ imm = {}
            /\ Good(next) /\ NumberedBelow(next, next_file_number)

Counted ==
    /\ use \in Uses /\ last_sequence \in 0..MaxWrites /\ next_file_number \in Nat
    /\ snapshots \in Seq(0..last_sequence)
    /\ \A i, j \in 1..Len(snapshots) : i <= j => snapshots[i] <= snapshots[j]
    /\ written \subseteq Update /\ IsFiniteSet(written)
    /\ \A e \in written : e.seq <= last_sequence
    /\ \A d, e \in written : d.seq = e.seq => d = e
    /\ Recent \subseteq written /\ Newer(mem, imm)

\* The table that is out of seeks is one of the current version.
Charged ==
    file_to_compact # None =>
        /\ file_to_compact.level \in 0..kNumLevels-2
        /\ \E f \in ToSet(files[file_to_compact.level + 1]) : f.number = file_to_compact.number

LevelsInv ==
    /\ Counted /\ Charged /\ Listed(files)
    /\ Good(Sets(files)) /\ NumberedBelow(Sets(files), next_file_number)
    /\ merge # None => Merging
-----------------------------------------------------------------------------
(* Sets in order.                                                          *)

StrictOrder(S, R) ==
    /\ \A x \in S : <<x, x>> \notin R
    /\ \A x, y, z \in S : <<x, y>> \in R /\ <<y, z>> \in R => <<x, z>> \in R
    /\ \A x, y \in S : x = y \/ <<x, y>> \in R \/ <<y, x>> \in R

RankOf(S, R) == [x \in S |-> Cardinality({y \in S : <<y, x>> \in R})]
AtRank(S, rank) == [i \in 1..Cardinality(S) |-> CHOOSE x \in S : rank[x] = i - 1]

\* What comes earlier has fewer elements before it.
LEMMA RanksGrow ==
    ASSUME NEW S, IsFiniteSet(S), NEW R, StrictOrder(S, R)
    PROVE  /\ RankOf(S, R) \in [S -> 0..Cardinality(S) - 1]
           /\ \A x, y \in S : <<x, y>> \in R <=> RankOf(S, R)[x] < RankOf(S, R)[y]
<1> DEFINE before(x) == {y \in S : <<y, x>> \in R}
           rank == RankOf(S, R)
<1>1. \A x \in S : rank[x] = Cardinality(before(x))
  BY DEF RankOf
<1>2. \A x \in S : IsFiniteSet(before(x)) /\ Cardinality(before(x)) \in Nat
  BY FS_Subset, FS_CardinalityType
<1>3. Cardinality(S) \in Nat
  BY FS_CardinalityType
<1>4. ASSUME NEW x \in S
      PROVE  Cardinality(before(x)) < Cardinality(S)
  <2>1. before(x) \subseteq S /\ x \in S \ before(x)
    BY DEF StrictOrder
  <2>2. IsFiniteSet(S \ {x}) /\ Cardinality(S \ {x}) = Cardinality(S) - 1
    BY FS_RemoveElement
  <2>3. before(x) \in SUBSET (S \ {x})
    BY <2>1
  <2> HIDE DEF before
  <2>4. Cardinality(before(x)) <= Cardinality(S \ {x})
    BY <2>2, <2>3, FS_Subset
  <2> QED
    BY <2>2, <2>4, <1>2, <1>3
<1>5. ASSUME NEW x \in S, NEW y \in S, <<x, y>> \in R
      PROVE  Cardinality(before(x)) < Cardinality(before(y))
  <2>1. before(x) \subseteq before(y) /\ x \in before(y) /\ x \notin before(x)
    BY <1>5 DEF StrictOrder
  <2>2. IsFiniteSet(before(y)) /\ IsFiniteSet(before(y) \ {x})
        /\ Cardinality(before(y) \ {x}) = Cardinality(before(y)) - 1
    <3> HIDE DEF before
    <3> QED
      BY <1>2, <2>1, FS_RemoveElement
  <2>3. before(x) \in SUBSET (before(y) \ {x})
    BY <2>1
  <2> HIDE DEF before
  <2>4. Cardinality(before(x)) <= Cardinality(before(y) \ {x})
    BY <2>2, <2>3, FS_Subset
  <2> QED
    BY <2>2, <2>4, <1>2
<1>6. rank \in [S -> 0..Cardinality(S) - 1]
  <2>1. rank = [x \in S |-> rank[x]]
    BY DEF RankOf
  <2>2. \A x \in S : rank[x] \in 0..Cardinality(S) - 1
    <3> HIDE DEF before, rank
    <3> QED
      BY <1>1, <1>2, <1>3, <1>4
  <2> HIDE DEF rank
  <2> QED
    BY <2>1, <2>2
<1>7. \A x, y \in S : <<x, y>> \in R <=> rank[x] < rank[y]
  <2> SUFFICES ASSUME NEW x \in S, NEW y \in S, rank[x] < rank[y]
               PROVE  <<x, y>> \in R
    BY <1>1, <1>5
  <2>1. x # y /\ <<y, x>> \notin R
    <3> HIDE DEF before, rank
    <3> QED
      BY <1>1, <1>2, <1>5
  <2> QED
    BY <2>1 DEF StrictOrder
<1> QED
  BY <1>6, <1>7

\* So the elements at the ranks are the set in order.
LEMMA RanksList ==
    ASSUME NEW S, IsFiniteSet(S), NEW R, StrictOrder(S, R), NEW s, s = AtRank(S, RankOf(S, R))
    PROVE  /\ s \in Seq(S) /\ Len(s) = Cardinality(S) /\ ToSet(s) = S
           /\ \A i, j \in 1..Len(s) : i < j => <<s[i], s[j]>> \in R
           /\ \A i, j \in 1..Len(s) : i < j => s[i] # s[j]
<1> DEFINE n == Cardinality(S)
           rank == RankOf(S, R)
<1>1. n \in Nat
  BY FS_CardinalityType
<1>2. rank \in [S -> 0..n-1] /\ \A x, y \in S : <<x, y>> \in R <=> rank[x] < rank[y]
  BY RanksGrow
<1> HIDE DEF rank
<1>3. rank \in Injection(S, 0..n-1)
  <2>1. \A x, y \in S : rank[x] = rank[y] => x = y
    <3> SUFFICES ASSUME NEW x \in S, NEW y \in S, rank[x] = rank[y], x # y PROVE FALSE
      OBVIOUS
    <3>1. rank[x] \in 0..n-1 /\ rank[y] \in 0..n-1
      BY <1>2
    <3>2. ~(rank[x] < rank[y]) /\ ~(rank[y] < rank[x])
      BY <3>1, <1>1
    <3> QED
      BY <3>2, <1>2 DEF StrictOrder
  <2> QED
    BY <1>2, <2>1 DEF Injection, IsInjective
<1>4. \A i \in 0..n-1 : \E x \in S : rank[x] = i
  <2> SUFFICES ASSUME NEW i \in 0..n-1, \A x \in S : rank[x] # i PROVE FALSE
    OBVIOUS
  <2> DEFINE T == (0..n-1) \ {i}
  <2>1. rank \in Injection(S, T)
    BY <1>2, <1>3 DEF Injection, IsInjective
  <2>2. IsFiniteSet(0..n-1) /\ Cardinality(0..n-1) = n
    BY <1>1, FS_Interval
  <2>3. IsFiniteSet(T) /\ Cardinality(T) = n - 1
    BY <2>2, FS_RemoveElement
  <2> HIDE DEF T
  <2>4. n <= n - 1
    BY <2>1, <2>3, FS_Injection
  <2> QED
    BY <2>4, <1>1
<1>5. s = [i \in 1..n |-> CHOOSE x \in S : rank[x] = i - 1]
  BY DEF AtRank, rank
<1>6. \A i \in 1..n : s[i] \in S /\ rank[s[i]] = i - 1
  <2> SUFFICES ASSUME NEW i \in 1..n PROVE s[i] \in S /\ rank[s[i]] = i - 1
    OBVIOUS
  <2>1. i - 1 \in 0..n-1
    BY <1>1
  <2>2. s[i] = CHOOSE x \in S : rank[x] = i - 1
    BY <1>5
  <2>3. \E x \in S : rank[x] = i - 1
    BY <2>1, <1>4
  <2> QED
    BY <2>2, <2>3
<1>7. s \in Seq(S) /\ Len(s) = n /\ DOMAIN s = 1..n
  BY <1>1, <1>5, <1>6
<1>8. ToSet(s) = S
  <2>1. \A x \in S : \E i \in 1..n : s[i] = x
    <3> SUFFICES ASSUME NEW x \in S PROVE \E i \in 1..n : s[i] = x
      OBVIOUS
    <3>1. rank[x] \in 0..n-1 /\ rank[x] + 1 \in 1..n
      BY <1>1, <1>2
    <3>2. s[rank[x] + 1] \in S /\ rank[s[rank[x] + 1]] = rank[x]
      BY <3>1, <1>6, <1>1
    <3> QED
      BY <3>1, <3>2, <1>3 DEF Injection, IsInjective
  <2> QED
    BY <2>1, <1>6, <1>7 DEF ToSet
<1>9. \A i, j \in 1..n : i < j => <<s[i], s[j]>> \in R
  BY <1>2, <1>6, <1>1
<1>10. \A i, j \in 1..n : i < j => s[i] # s[j]
  BY <1>9, <1>6 DEF StrictOrder
<1> HIDE DEF n
<1> QED
  BY <1>7, <1>8, <1>9, <1>10 DEF n
-----------------------------------------------------------------------------
(* The two orders: of entries, and of the tables of a version.             *)

\* Entries with different sequence numbers.
Told(es) ==
    /\ es \subseteq Update /\ \A e \in es : e.seq <= MaxWrites
    /\ \A d, e \in es : d.seq = e.seq => d = e

LEMMA KeysAreNumbers == Keys \subseteq Nat /\ \A e \in Update : e.key \in Nat /\ e.seq \in Nat
  BY LevelsAssumption DEF Update

LEMMA LessIsOrder ==
    /\ \A a \in Update : ~Less(a, a)
    /\ \A a, b, c \in Update : Less(a, b) /\ Less(b, c) => Less(a, c)
    /\ \A a, b \in Update : Less(a, b) => ~Less(b, a)
    /\ \A a, b \in Update : Less(a, b) => a.key <= b.key
    /\ \A es : Told(es) => \A a, b \in es : a = b \/ Less(a, b) \/ Less(b, a)
  BY KeysAreNumbers DEF Less, Told

LEMMA UpdatesInOrder ==
    ASSUME NEW es, Told(es), IsFiniteSet(es)
    PROVE  /\ InOrder(es, Less) \in Seq(es) /\ Len(InOrder(es, Less)) = Cardinality(es)
           /\ ToSet(InOrder(es, Less)) = es
           /\ \A i, j \in 1..Len(InOrder(es, Less)) :
                 i < j => Less(InOrder(es, Less)[i], InOrder(es, Less)[j])
<1> DEFINE R == {p \in es \X es : Less(p[1], p[2])}
<1>1. \A a, b \in es : <<a, b>> \in R <=> Less(a, b)
  OBVIOUS
<1>2. StrictOrder(es, R)
  <2> HIDE DEF R
  <2> QED
    BY <1>1, LessIsOrder DEF StrictOrder, Told
<1>3. \A x \in es : {y \in es : Less(y, x)} = {y \in es : <<y, x>> \in R}
  <2> HIDE DEF R
  <2> QED
    BY <1>1
<1>4. [x \in es |-> Cardinality({y \in es : Less(y, x)})] = RankOf(es, R)
  <2> HIDE DEF R
  <2> QED
    BY <1>3 DEF RankOf
<1> HIDE DEF R
<1>5. InOrder(es, Less) = AtRank(es, RankOf(es, R))
  BY <1>4 DEF InOrder, AtRank
<1>6. \A i \in 1..Len(InOrder(es, Less)) : InOrder(es, Less)[i] \in es
  BY <1>2, <1>5, RanksList
<1> QED
  BY <1>1, <1>2, <1>5, <1>6, RanksList

\* A table has an entry, and its keys are those between its smallest and largest.
LEMMA Ends ==
    ASSUME NEW f \in Table
    PROVE  /\ f \in [number : Nat, entries : Seq(Update)]
           /\ Len(f.entries) \in Nat \ {0} /\ ToSet(f.entries) \subseteq Update
           /\ Smallest(f) \in ToSet(f.entries) /\ Largest(f) \in ToSet(f.entries)
           /\ Lo(f) \in Nat /\ Hi(f) \in Nat /\ Lo(f) <= Hi(f)
           /\ \A e \in ToSet(f.entries) : Lo(f) <= e.key /\ e.key <= Hi(f)
           /\ \A e \in ToSet(f.entries) : e = Largest(f) \/ Less(e, Largest(f))
<1> DEFINE s == f.entries
<1>1. f \in [number : Nat, entries : Seq(Update)] /\ s # <<>>
      /\ \A i, j \in 1..Len(s) : i < j => Less(s[i], s[j])
  BY DEF Table
<1>2. s \in Seq(Update) /\ Len(s) \in Nat /\ Len(s) # 0
  BY <1>1
<1> HIDE DEF s
<1>3. DOMAIN s = 1..Len(s) /\ \A i \in 1..Len(s) : s[i] \in Update
  BY <1>2
<1>4. 1 \in 1..Len(s) /\ Len(s) \in 1..Len(s)
  BY <1>2
<1>5. \A i \in 1..Len(s) : i = Len(s) \/ i < Len(s)
  BY <1>2
<1>6. \A i \in 1..Len(s) : i = 1 \/ 1 < i
  OBVIOUS
<1>7. ToSet(s) = {s[i] : i \in 1..Len(s)}
  BY <1>3 DEF ToSet
<1>8. \A i \in 1..Len(s) : s[1].key <= s[i].key /\ s[i].key <= s[Len(s)].key
  BY <1>1, <1>3, <1>4, <1>5, <1>6, LessIsOrder, KeysAreNumbers DEF s
<1>9. \A i \in 1..Len(s) : s[i] = s[Len(s)] \/ Less(s[i], s[Len(s)])
  BY <1>1, <1>4, <1>5 DEF s
<1>10. Smallest(f) = s[1] /\ Largest(f) = s[Len(s)]
  BY DEF Smallest, Largest, s
<1>11. s[1] \in Update /\ s[Len(s)] \in Update
  BY <1>3, <1>4
<1> QED
  BY <1>1, <1>2, <1>3, <1>4, <1>7, <1>8, <1>9, <1>10, <1>11, KeysAreNumbers DEF Lo, Hi, s

\* Tables with different numbers and told entries.
Distinct(fs) == \A f, g \in fs : f.number = g.number => f = g

LEMMA TableOrder ==
    ASSUME NEW fs \in SUBSET Table, Told(EntriesOf(fs)), Distinct(fs)
    PROVE  /\ \A f \in fs : ~BySmallestKey(f, f)
           /\ \A f, g, h \in fs : BySmallestKey(f, g) /\ BySmallestKey(g, h) => BySmallestKey(f, h)
           /\ \A f, g \in fs : f = g \/ BySmallestKey(f, g) \/ BySmallestKey(g, f)
<1>1. \A f \in fs : Smallest(f) \in EntriesOf(fs) /\ Smallest(f) \in Update /\ f.number \in Nat
  BY Ends DEF EntriesOf
<1>2. \A f \in fs : ~BySmallestKey(f, f)
  BY <1>1, LessIsOrder DEF BySmallestKey
<1>3. ASSUME NEW f \in fs, NEW g \in fs, NEW h \in fs, BySmallestKey(f, g), BySmallestKey(g, h)
      PROVE  BySmallestKey(f, h)
  <2>1. /\ Smallest(f) \in Update /\ Smallest(g) \in Update /\ Smallest(h) \in Update
        /\ f.number \in Nat /\ g.number \in Nat /\ h.number \in Nat
    BY <1>1
  <2>2. Less(Smallest(f), Smallest(g)) /\ Less(Smallest(g), Smallest(h))
          => Less(Smallest(f), Smallest(h))
    BY <2>1, LessIsOrder
  <2> QED
    BY <1>3, <2>1, <2>2 DEF BySmallestKey
<1>4. ASSUME NEW f \in fs, NEW g \in fs
      PROVE  f = g \/ BySmallestKey(f, g) \/ BySmallestKey(g, f)
  <2>1. \/ Smallest(f) = Smallest(g) \/ Less(Smallest(f), Smallest(g))
        \/ Less(Smallest(g), Smallest(f))
    BY <1>1, LessIsOrder
  <2>2. f = g \/ f.number < g.number \/ g.number < f.number
    BY <1>1 DEF Distinct
  <2> QED
    BY <2>1, <2>2 DEF BySmallestKey
<1> QED
  BY <1>2, <1>3, <1>4

LEMMA TablesInOrder ==
    ASSUME NEW fs \in SUBSET Table, Told(EntriesOf(fs)), Distinct(fs), IsFiniteSet(fs)
    PROVE  /\ InOrder(fs, BySmallestKey) \in Seq(fs)
           /\ Len(InOrder(fs, BySmallestKey)) = Cardinality(fs)
           /\ ToSet(InOrder(fs, BySmallestKey)) = fs
           /\ \A i, j \in 1..Len(InOrder(fs, BySmallestKey)) :
                 i < j => BySmallestKey(InOrder(fs, BySmallestKey)[i], InOrder(fs, BySmallestKey)[j])
<1> DEFINE R == {p \in fs \X fs : BySmallestKey(p[1], p[2])}
<1>1. \A f, g \in fs : <<f, g>> \in R <=> BySmallestKey(f, g)
  OBVIOUS
<1>2. StrictOrder(fs, R)
  <2> HIDE DEF R
  <2> QED
    BY <1>1, TableOrder DEF StrictOrder
<1>3. \A x \in fs : {y \in fs : BySmallestKey(y, x)} = {y \in fs : <<y, x>> \in R}
  <2> HIDE DEF R
  <2> QED
    BY <1>1
<1>4. [x \in fs |-> Cardinality({y \in fs : BySmallestKey(y, x)})] = RankOf(fs, R)
  <2> HIDE DEF R
  <2> QED
    BY <1>3 DEF RankOf
<1> HIDE DEF R
<1>5. InOrder(fs, BySmallestKey) = AtRank(fs, RankOf(fs, R))
  BY <1>4 DEF InOrder, AtRank
<1>6. \A i \in 1..Len(InOrder(fs, BySmallestKey)) : InOrder(fs, BySmallestKey)[i] \in fs
  BY <1>2, <1>5, RanksList
<1> QED
  BY <1>1, <1>2, <1>5, <1>6, RanksList
-----------------------------------------------------------------------------
(* Induction, with a set for the predicate, and functions defined by       *)
(* recursion.                                                              *)

\* Of numbers that are not all there, one is the first.
LEMMA Induction ==
    ASSUME NEW I, 0 \in I, \A n \in Nat : n \in I => n + 1 \in I
    PROVE  Nat \subseteq I
<1> SUFFICES ASSUME Nat \ I # {}
             PROVE  FALSE
  OBVIOUS
<1>1. PICK b \in Nat \ I : \A c \in Nat \ I : <<c, b>> \notin OpToRel(<, Nat)
  BY NatLessThanWellFounded, WFMin
<1>2. b \in Nat /\ b \notin I /\ b # 0
  BY <1>1
<1> DEFINE c == b - 1
<1>3. c \in Nat /\ c < b /\ c + 1 = b
  BY <1>2
<1> HIDE DEF c
<1>4. <<c, b>> \in OpToRel(<, Nat)
  BY <1>2, <1>3 DEF OpToRel
<1>5. c \in I
  BY <1>1, <1>3, <1>4
<1> QED
  BY <1>2, <1>3, <1>5

\* A function defined by recursion on the numbers to n exists.
Follows(f, S, n, base, step) ==
    /\ f \in [0..n -> S] /\ f[0] = base
    /\ \A i \in 1..n : f[i] = step[<<i, f[i-1]>>]

LEMMA Recursion ==
    ASSUME NEW n \in Nat, NEW S, NEW base \in S, NEW step \in [(1..n) \X S -> S]
    PROVE  \E f : Follows(f, S, n, base, step)
<1> DEFINE Exists(m) == \E f : Follows(f, S, m, base, step)
           I == {m \in Nat : m <= n => Exists(m)}
<1>1. 0 \in I
  <2> DEFINE f == [i \in 0..0 |-> base]
  <2>1. f \in [0..0 -> S] /\ f[0] = base /\ 1..0 = {}
    OBVIOUS
  <2> HIDE DEF f
  <2>2. Exists(0)
    BY <2>1 DEF Follows
  <2> HIDE DEF Exists
  <2> QED
    BY <2>2
<1>2. ASSUME NEW m \in Nat, m \in I
      PROVE  m + 1 \in I
  <2> SUFFICES ASSUME m + 1 <= n
               PROVE  Exists(m + 1)
    <3> HIDE DEF Exists
    <3> QED
      OBVIOUS
  <2>1. Exists(m)
    <3> HIDE DEF Exists
    <3> QED
      BY <1>2
  <2>2. PICK f : Follows(f, S, m, base, step)
    BY <2>1
  <2> DEFINE new == step[<<m + 1, f[m]>>]
             g == [i \in 0..m + 1 |-> IF i = m + 1 THEN new ELSE f[i]]
  <2>3. new \in S
    <3>1. f[m] \in S /\ m + 1 \in 1..n
      BY <2>2 DEF Follows
    <3> QED
      BY <3>1
  <2>4. \A i \in 0..m + 1 : i # m + 1 => i \in 0..m
    OBVIOUS
  <2>5. g \in [0..m + 1 -> S]
    <3> HIDE DEF new
    <3> QED
      BY <2>2, <2>3, <2>4 DEF Follows
  <2>6. g[m + 1] = new /\ \A i \in 0..m : g[i] = f[i]
    OBVIOUS
  <2> HIDE DEF g
  <2>7. Follows(g, S, m + 1, base, step)
    <3>1. g[0] = base
      BY <2>2, <2>6 DEF Follows
    <3> SUFFICES ASSUME NEW i \in 1..m + 1
                 PROVE  g[i] = step[<<i, g[i-1]>>]
      BY <2>5, <3>1 DEF Follows
    <3>2. CASE i = m + 1
      <4>1. i - 1 = m /\ g[m] = f[m] /\ m \in 0..m
        BY <2>6, <3>2
      <4> QED
        BY <2>6, <3>2, <4>1
    <3>3. CASE i # m + 1
      <4>1. i \in 1..m /\ i \in 0..m /\ i - 1 \in 0..m
        BY <3>3
      <4> QED
        BY <2>2, <2>6, <4>1 DEF Follows
    <3> QED
      BY <3>2, <3>3
  <2> QED
    BY <2>7
<1>3. n \in I
  <2> HIDE DEF I
  <2> QED
    BY <1>1, <1>2, Induction
<1>4. Exists(n)
  <2> HIDE DEF Exists
  <2> QED
    BY <1>3
<1> QED
  BY <1>4

-----------------------------------------------------------------------------
(* Binary search.                                                          *)

Halves(fs, target) ==
    CHOOSE f : f = [i \in 0..Len(fs) |-> IF i = 0 THEN [left |-> 0, right |-> Len(fs)]
                                         ELSE Halved(fs, target, f[i-1])]

\* What is still to be searched: what is before it is too small, what is behind
\* it is not.
Half(n) == [left : 0..n, right : 0..n]
Narrowed(fs, target, s) ==
    /\ s \in Half(Len(fs)) /\ s.left <= s.right
    /\ \A i \in 1..Len(fs) : /\ i <= s.left => Less(Largest(fs[i]), target)
                             /\ i > s.right => ~Less(Largest(fs[i]), target)

LEMMA HalvedIsHalf ==
    ASSUME NEW fs \in Seq(Table), NEW target, NEW s \in Half(Len(fs))
    PROVE  Halved(fs, target, s) \in Half(Len(fs))
<1> DEFINE mid == (s.left + s.right) \div 2
           n == Len(fs)
<1>1. n \in Nat /\ s.left \in 0..n /\ s.right \in 0..n
  BY DEF Half
<1>2. s.left < s.right => mid \in s.left..s.right - 1
  BY <1>1
<1> HIDE DEF mid
<1>3. s.left < s.right => mid \in 0..n /\ mid + 1 \in 0..n
  BY <1>1, <1>2
<1>4. [s EXCEPT !.left = mid + 1] = [left |-> mid + 1, right |-> s.right]
      /\ [s EXCEPT !.right = mid] = [left |-> s.left, right |-> mid]
  BY DEF Half
<1>5. Halved(fs, target, s) =
        IF s.left >= s.right THEN s
        ELSE IF Less(Largest(fs[mid + 1]), target) THEN [s EXCEPT !.left = mid + 1]
        ELSE [s EXCEPT !.right = mid]
  BY DEF Halved, mid
<1> QED
  BY <1>1, <1>3, <1>4, <1>5 DEF Half

LEMMA HalvedNarrows ==
    ASSUME NEW fs \in Seq(Table), NEW target, NEW s, Narrowed(fs, target, s),
           \A i, j \in 1..Len(fs) :
              i <= j /\ Less(Largest(fs[j]), target) => Less(Largest(fs[i]), target)
    PROVE  LET t == Halved(fs, target, s)
           IN  /\ Narrowed(fs, target, t)
               /\ t.right - t.left <= s.right - s.left
               /\ s.left < s.right => t.right - t.left < s.right - s.left
<1> DEFINE mid == (s.left + s.right) \div 2
           n == Len(fs)
           t == Halved(fs, target, s)
<1>1. n \in Nat /\ s \in Half(n) /\ s.left \in 0..n /\ s.right \in 0..n /\ s.left <= s.right
  BY DEF Half, Narrowed
<1>2. s.left < s.right => mid \in s.left..s.right - 1
  BY <1>1
<1> HIDE DEF mid
<1>3. [s EXCEPT !.left = mid + 1] = [left |-> mid + 1, right |-> s.right]
      /\ [s EXCEPT !.right = mid] = [left |-> s.left, right |-> mid]
  BY <1>1 DEF Half
<1>4. t = IF s.left >= s.right THEN s
          ELSE IF Less(Largest(fs[mid + 1]), target) THEN [s EXCEPT !.left = mid + 1]
          ELSE [s EXCEPT !.right = mid]
  BY DEF Halved, mid
<1>5. t \in Half(n)
  BY <1>1, HalvedIsHalf
<1> HIDE DEF t
<1>6. CASE s.left >= s.right
  BY <1>1, <1>4, <1>6 DEF t
<1>7. CASE s.left < s.right /\ Less(Largest(fs[mid + 1]), target)
  <2>1. t.left = mid + 1 /\ t.right = s.right /\ mid + 1 \in 1..n
    BY <1>1, <1>2, <1>3, <1>4, <1>7
  <2>2. \A i \in 1..n : i <= mid + 1 => Less(Largest(fs[i]), target)
    BY <1>7, <2>1
  <2>3. Narrowed(fs, target, t)
    BY <1>1, <1>2, <1>5, <1>7, <2>1, <2>2 DEF Narrowed
  <2> QED
    BY <1>1, <1>2, <1>7, <2>1, <2>3 DEF t
<1>8. CASE s.left < s.right /\ ~Less(Largest(fs[mid + 1]), target)
  <2>1. t.left = s.left /\ t.right = mid /\ mid + 1 \in 1..n /\ mid \in 0..n
    BY <1>1, <1>2, <1>3, <1>4, <1>8
  <2>2. \A i \in 1..n : i > mid => ~Less(Largest(fs[i]), target)
    BY <1>8, <2>1
  <2>3. Narrowed(fs, target, t)
    BY <1>1, <1>2, <1>5, <1>8, <2>1, <2>2 DEF Narrowed
  <2> QED
    BY <1>1, <1>2, <1>8, <2>1, <2>3 DEF t
<1> QED
  BY <1>1, <1>6, <1>7, <1>8

LEMMA HalvesStepwise ==
    ASSUME NEW fs \in Seq(Table), NEW target
    PROVE  /\ Halves(fs, target)[0] = [left |-> 0, right |-> Len(fs)]
           /\ \A i \in 1..Len(fs) : Halves(fs, target)[i] = Halved(fs, target, Halves(fs, target)[i-1])
<1> DEFINE n == Len(fs)
           base == [left |-> 0, right |-> n]
           step == [x \in (1..n) \X Half(n) |-> Halved(fs, target, x[2])]
<1>1. n \in Nat /\ base \in Half(n)
  BY DEF Half
<1>2. step \in [(1..n) \X Half(n) -> Half(n)]
      /\ \A i \in 1..n, s \in Half(n) : step[<<i, s>>] = Halved(fs, target, s)
  BY HalvedIsHalf
<1> HIDE DEF step
<1>3. PICK f : Follows(f, Half(n), n, base, step)
  <2> HIDE DEF base, n
  <2> QED
    BY <1>1, <1>2, Recursion
<1>4. f \in [0..n -> Half(n)] /\ f[0] = base /\ \A i \in 1..n : f[i] = Halved(fs, target, f[i-1])
  <2>1. \A i \in 1..n : i - 1 \in 0..n
    BY <1>1
  <2> HIDE DEF base
  <2> QED
    BY <1>2, <1>3, <2>1 DEF Follows
<1>5. f = [i \in 0..n |-> IF i = 0 THEN base ELSE Halved(fs, target, f[i-1])]
  <2> HIDE DEF base
  <2> QED
    BY <1>1, <1>4
<1>6. Halves(fs, target) = [i \in 0..n |-> IF i = 0 THEN base
                                          ELSE Halved(fs, target, Halves(fs, target)[i-1])]
  BY <1>5 DEF Halves
<1> HIDE DEF base, n
<1>7. 0 \in 0..n /\ \A i \in 1..n : i \in 0..n /\ i # 0
  BY <1>1
<1>8. Halves(fs, target)[0] = base
  BY <1>6, <1>7
<1>9. \A i \in 1..n : Halves(fs, target)[i] = Halved(fs, target, Halves(fs, target)[i-1])
  BY <1>6, <1>7
<1> QED
  BY <1>8, <1>9 DEF base, n

\* FindFile is the first table whose largest key is not before the target.
LEMMA FindFileIsFirst ==
    ASSUME NEW fs \in Seq(Table), NEW target,
           \A i, j \in 1..Len(fs) :
              i <= j /\ Less(Largest(fs[j]), target) => Less(Largest(fs[i]), target)
    PROVE  /\ FindFile(fs, target) \in 1..Len(fs) + 1
           /\ \A i \in 1..Len(fs) : i < FindFile(fs, target) <=> Less(Largest(fs[i]), target)
<1> DEFINE n == Len(fs)
           h == Halves(fs, target)
           I == {i \in Nat : i <= n => /\ Narrowed(fs, target, h[i])
                                       /\ h[i].right - h[i].left <= n - i}
<1>1. n \in Nat /\ h[0] = [left |-> 0, right |-> n]
      /\ \A i \in 1..n : h[i] = Halved(fs, target, h[i-1])
  BY HalvesStepwise
<1>2. FindFile(fs, target) = h[n].right + 1
  BY DEF FindFile, Halves
<1> HIDE DEF h
<1>3. 0 \in I
  BY <1>1 DEF Narrowed, Half
<1>4. ASSUME NEW i \in Nat, i \in I
      PROVE  i + 1 \in I
  <2> SUFFICES ASSUME i + 1 <= n
               PROVE  Narrowed(fs, target, h[i+1]) /\ h[i+1].right - h[i+1].left <= n - (i + 1)
    OBVIOUS
  <2>1. Narrowed(fs, target, h[i]) /\ h[i].right - h[i].left <= n - i
    BY <1>1, <1>4
  <2>2. h[i+1] = Halved(fs, target, h[i])
    BY <1>1
  <2>3. Narrowed(fs, target, h[i+1]) /\ h[i+1].right - h[i+1].left <= h[i].right - h[i].left
        /\ (h[i].left < h[i].right => h[i+1].right - h[i+1].left < h[i].right - h[i].left)
    BY <2>1, <2>2, HalvedNarrows
  <2>4. /\ h[i].left \in 0..n /\ h[i].right \in 0..n
        /\ h[i+1].left \in 0..n /\ h[i+1].right \in 0..n /\ h[i].left <= h[i].right
    BY <2>1, <2>3 DEF Narrowed, Half
  <2>5. PICK a, b, c, d : a = h[i].left /\ b = h[i].right /\ c = h[i+1].left /\ d = h[i+1].right
    OBVIOUS
  <2>6. /\ a \in Nat /\ b \in Nat /\ c \in Nat /\ d \in Nat /\ n \in Nat /\ a <= b
        /\ b - a <= n - i /\ d - c <= b - a /\ (a < b => d - c < b - a) /\ i + 1 <= n
    BY <1>1, <2>1, <2>3, <2>4, <2>5
  <2>7. d - c <= n - (i + 1)
    <3> HIDE DEF n
    <3>1. CASE a < b
      BY <2>6, <3>1
    <3>2. CASE a = b
      BY <2>6, <3>2
    <3> QED
      BY <2>6, <3>1, <3>2
  <2> QED
    BY <2>3, <2>5, <2>7
<1>5. n \in I
  <2> HIDE DEF I
  <2> QED
    BY <1>1, <1>3, <1>4, Induction
<1>6. Narrowed(fs, target, h[n]) /\ h[n].right - h[n].left <= 0
  BY <1>1, <1>5
<1>7. h[n].left \in 0..n /\ h[n].right \in 0..n /\ h[n].left = h[n].right
  BY <1>1, <1>6 DEF Narrowed, Half
<1>8. \A i \in 1..n : (i <= h[n].right => Less(Largest(fs[i]), target))
                      /\ (i > h[n].right => ~Less(Largest(fs[i]), target))
  BY <1>6, <1>7 DEF Narrowed
<1> HIDE DEF n
<1>9. FindFile(fs, target) \in 1..n + 1
  BY <1>1, <1>2, <1>7
<1>10. \A i \in 1..n : i < FindFile(fs, target) <=> i <= h[n].right
  BY <1>1, <1>2, <1>7
<1>11. \A i \in 1..n : i < FindFile(fs, target) <=> Less(Largest(fs[i]), target)
  BY <1>1, <1>7, <1>8, <1>10
<1> QED
  BY <1>9, <1>11 DEF n
-----------------------------------------------------------------------------
(* Finite sets of numbers and of elements of a sequence.                   *)

LEMMA ListIsFinite ==
    ASSUME NEW S, NEW s \in Seq(S)
    PROVE  /\ IsFiniteSet(ToSet(s)) /\ Cardinality(ToSet(s)) <= Len(s)
           /\ ToSet(s) = {s[i] : i \in 1..Len(s)} /\ ToSet(s) \subseteq S
<1>1. Len(s) \in Nat /\ DOMAIN s = 1..Len(s)
  OBVIOUS
<1>2. ToSet(s) = {s[i] : i \in 1..Len(s)}
  BY <1>1 DEF ToSet
<1>3. s \in Surjection(1..Len(s), ToSet(s))
  <2>1. s \in [1..Len(s) -> ToSet(s)]
    BY <1>1, <1>2
  <2> QED
    BY <1>2, <2>1 DEF Surjection
<1>4. IsFiniteSet(1..Len(s)) /\ Cardinality(1..Len(s)) = Len(s)
  <2>1. PICK n \in Nat : n = Len(s)
    BY <1>1
  <2>2. 1 \in Int /\ n \in Int
    OBVIOUS
  <2>3. IsFiniteSet(1..n) /\ Cardinality(1..n) = IF 1 > n THEN 0 ELSE n - 1 + 1
    BY <2>2, FS_Interval
  <2>4. Cardinality(1..n) = n
    BY <2>3
  <2> QED
    BY <2>1, <2>3, <2>4
<1> QED
  BY <1>2, <1>3, <1>4, FS_Surjection

LEMMA MinMax ==
    ASSUME NEW S \in SUBSET Nat, IsFiniteSet(S), S # {}
    PROVE  /\ Min(S) \in S /\ \A x \in S : Min(S) <= x
           /\ Max(S) \in S /\ \A x \in S : x <= Max(S)
<1> DEFINE R == {p \in S \X S : p[1] < p[2]}
<1>1. StrictOrder(S, R)
  BY DEF StrictOrder
<1>2. PICK s : s = AtRank(S, RankOf(S, R))
  OBVIOUS
<1>3. /\ s \in Seq(S) /\ Len(s) = Cardinality(S) /\ ToSet(s) = S
      /\ \A i, j \in 1..Len(s) : i < j => s[i] < s[j]
  <2>1. \A x, y : <<x, y>> \in R => x < y
    OBVIOUS
  <2> HIDE DEF R
  <2>2. /\ s \in Seq(S) /\ Len(s) = Cardinality(S) /\ ToSet(s) = S
        /\ \A i, j \in 1..Len(s) : i < j => <<s[i], s[j]>> \in R
    BY <1>1, <1>2, RanksList
  <2> QED
    BY <2>1, <2>2
<1>4. Len(s) \in Nat \ {0}
  BY <1>3, FS_EmptySet, FS_CardinalityType
<1>5. \A x \in S : \E i \in 1..Len(s) : x = s[i]
  BY <1>3, ListIsFinite
<1>6. 1 \in 1..Len(s) /\ Len(s) \in 1..Len(s)
  BY <1>4
<1>7. s[1] \in S /\ s[Len(s)] \in S
  BY <1>3, <1>6
<1>8. \A i \in 1..Len(s) : (i = 1 \/ 1 < i) /\ (i = Len(s) \/ i < Len(s))
  BY <1>4
<1>9. \A x \in S : s[1] <= x /\ x <= s[Len(s)]
  <2> SUFFICES ASSUME NEW i \in 1..Len(s)
               PROVE  s[1] <= s[i] /\ s[i] <= s[Len(s)]
    BY <1>5
  <2>1. s[i] \in Nat /\ s[1] \in Nat /\ s[Len(s)] \in Nat
    <3>1. \A j \in 1..Len(s) : s[j] \in S
      BY <1>3
    <3> QED
      BY <1>6, <3>1
  <2>2. (i = 1 \/ s[1] < s[i]) /\ (i = Len(s) \/ s[i] < s[Len(s)])
    BY <1>3, <1>6, <1>8
  <2> QED
    BY <2>1, <2>2
<1> QED
  BY <1>7, <1>9 DEF Min, Max

\* The set of a function's values on a finite set.
LEMMA ImageIsFinite ==
    ASSUME NEW S, IsFiniteSet(S), NEW f, DOMAIN f = S, f = [x \in S |-> f[x]]
    PROVE  IsFiniteSet({f[x] : x \in S})
<1> DEFINE T == {f[x] : x \in S}
<1>1. f \in [S -> T] /\ \A t \in T : \E x \in S : f[x] = t
  OBVIOUS
<1>2. f \in Surjection(S, T)
  BY <1>1 DEF Surjection
<1> QED
  BY <1>2, FS_Surjection

-----------------------------------------------------------------------------
(* A level, and ranges of user keys.                                       *)

Level(fs) ==
    /\ fs \in Seq(Table) /\ Told(EntriesOf(ToSet(fs))) /\ Distinct(ToSet(fs))
    /\ \A i, j \in 1..Len(fs) : i < j => BySmallestKey(fs[i], fs[j])
Disjoint(fs) == \A f, g \in ToSet(fs) : f = g \/ Apart(f, g)

Span == {r \in [begin : Nat, end : Nat] : r.begin <= r.end}
Inside(f, r) == r.begin <= Lo(f) /\ Hi(f) <= r.end

LEMMA LevelParts ==
    ASSUME NEW fs, Level(fs)
    PROVE  /\ ToSet(fs) \in SUBSET Table /\ IsFiniteSet(ToSet(fs))
           /\ ToSet(fs) = {fs[i] : i \in 1..Len(fs)} /\ Cardinality(ToSet(fs)) <= Len(fs)
           /\ Len(fs) \in Nat /\ \A i \in 1..Len(fs) : fs[i] \in Table
BY ListIsFinite DEF Level

\* In a level without overlaps, the tables are in the order of all of their keys.
LEMMA DisjointRises ==
    ASSUME NEW fs, Level(fs), Disjoint(fs)
    PROVE  \A i, j \in 1..Len(fs) : i < j => Hi(fs[i]) < Lo(fs[j])
<1> SUFFICES ASSUME NEW i \in 1..Len(fs), NEW j \in 1..Len(fs), i < j
             PROVE  Hi(fs[i]) < Lo(fs[j])
  OBVIOUS
<1> DEFINE f == fs[i]
           g == fs[j]
<1>1. f \in Table /\ g \in Table /\ f \in ToSet(fs) /\ g \in ToSet(fs) /\ BySmallestKey(f, g)
  BY LevelParts DEF Level
<1>2. f # g
  BY <1>1, LevelParts, TableOrder DEF Level
<1> HIDE DEF f, g
<1>3. Lo(f) <= Lo(g)
  BY <1>1, Ends DEF BySmallestKey, Less, Lo
<1>4. Apart(f, g)
  BY <1>1, <1>2 DEF Disjoint
<1>5. Lo(f) \in Nat /\ Hi(f) \in Nat /\ Lo(g) \in Nat /\ Hi(g) \in Nat /\ Lo(g) <= Hi(g)
  BY <1>1, Ends
<1> QED
  BY <1>3, <1>4, <1>5 DEF Apart, f, g

LEMMA FindFileInLevel ==
    ASSUME NEW fs, Level(fs), Disjoint(fs), NEW target, target.key \in Nat, target.seq \in Nat
    PROVE  /\ FindFile(fs, target) \in 1..Len(fs) + 1
           /\ \A i \in 1..Len(fs) : i < FindFile(fs, target) <=> Less(Largest(fs[i]), target)
<1>1. fs \in Seq(Table)
  BY DEF Level
<1>2. ASSUME NEW i \in 1..Len(fs), NEW j \in 1..Len(fs), i <= j, Less(Largest(fs[j]), target)
      PROVE  Less(Largest(fs[i]), target)
  <2>1. CASE i = j
    BY <1>2, <2>1
  <2>2. CASE i < j
    <3>1. Hi(fs[i]) < Lo(fs[j]) /\ fs[i] \in Table /\ fs[j] \in Table
      BY <2>2, DisjointRises, LevelParts
    <3>2. Hi(fs[i]) \in Nat /\ Lo(fs[j]) \in Nat /\ Hi(fs[j]) \in Nat /\ Lo(fs[j]) <= Hi(fs[j])
      BY <3>1, Ends
    <3>3. Hi(fs[j]) <= target.key
      BY <1>2, <3>2 DEF Less, Hi
    <3> QED
      BY <3>1, <3>2, <3>3 DEF Less, Hi
  <2> QED
    BY <1>2, <2>1, <2>2
<1> QED
  BY <1>1, <1>2, FindFileIsFirst

\* A level that OverlapInLevel says is clear of a range is clear of it.
LEMMA NoOverlap ==
    ASSUME NEW fs, Level(fs), Disjoint(fs), NEW level \in Nat \ {0}, NEW r \in Span,
           ~OverlapInLevel(fs, level, r)
    PROVE  \A f \in ToSet(fs) : ~Overlaps(f, r)
<1> DEFINE target == Entry(r.begin, MaxWrites + 1, FALSE)
           n == FindFile(fs, target)
<1>1. target.key = r.begin /\ target.seq = MaxWrites + 1 /\ MaxWrites \in Nat /\ r.begin \in Nat
      /\ r.end \in Nat /\ r.begin <= r.end
  BY LevelsAssumption DEF Entry, Span
<1> HIDE DEF target
<1>2. /\ n \in 1..Len(fs) + 1 /\ Len(fs) \in Nat
      /\ \A i \in 1..Len(fs) : i < n <=> Less(Largest(fs[i]), target)
  BY <1>1, FindFileInLevel, LevelParts
<1>3. ~Reaches(fs, n, r.end)
  BY DEF OverlapInLevel, n, target
<1> HIDE DEF n
<1> SUFFICES ASSUME NEW i \in 1..Len(fs)
             PROVE  ~Overlaps(fs[i], r)
  BY LevelParts
<1>4. fs[i] \in Table /\ fs[i] \in ToSet(fs)
  BY LevelParts
<1>5. /\ Lo(fs[i]) \in Nat /\ Hi(fs[i]) \in Nat /\ Largest(fs[i]) \in EntriesOf(ToSet(fs))
      /\ Largest(fs[i]) \in Update
  BY <1>4, Ends DEF EntriesOf
<1>6. CASE i < n
  <2>1. Less(Largest(fs[i]), target) /\ Largest(fs[i]).seq <= MaxWrites
    BY <1>2, <1>5, <1>6 DEF Level, Told
  <2>2. Hi(fs[i]) < r.begin
    BY <1>1, <1>5, <2>1, KeysAreNumbers DEF Less, Hi
  <2> QED
    BY <1>1, <1>5, <2>2 DEF Overlaps, Hi, Lo
<1>7. CASE ~(i < n)
  <2>1. n \in 1..Len(fs) /\ n <= i
    BY <1>2, <1>7
  <2>2. Lo(fs[n]) > r.end
    BY <1>3, <2>1, <1>1, LevelParts, Ends DEF Reaches, Lo
  <2>3. n = i \/ Hi(fs[n]) < Lo(fs[i])
    BY <2>1, DisjointRises
  <2>4. Lo(fs[n]) \in Nat /\ Hi(fs[n]) \in Nat /\ Lo(fs[n]) <= Hi(fs[n])
    BY <2>1, LevelParts, Ends
  <2>5. Lo(fs[i]) > r.end
    BY <1>1, <1>5, <2>2, <2>3, <2>4
  <2> QED
    BY <1>1, <1>5, <2>5 DEF Overlaps, Lo
<1> QED
  BY <1>6, <1>7

LEMMA HitIsOverlapping ==
    ASSUME NEW fs, Level(fs), NEW r
    PROVE  /\ ToSet(Hit(fs, r)) = {f \in ToSet(fs) : Overlaps(f, r)}
           /\ Level(Hit(fs, r))
<1> DEFINE hit == {f \in ToSet(fs) : Overlaps(f, r)}
<1>1. hit \subseteq ToSet(fs)
  OBVIOUS
<1>2. ToSet(fs) \in SUBSET Table /\ IsFiniteSet(ToSet(fs))
  BY LevelParts
<1> HIDE DEF hit
<1>3. hit \in SUBSET Table /\ IsFiniteSet(hit)
  BY <1>1, <1>2, FS_Subset
<1>4. EntriesOf(hit) \subseteq EntriesOf(ToSet(fs))
  BY <1>1 DEF EntriesOf
<1>5. Told(EntriesOf(hit)) /\ Distinct(hit)
  BY <1>1, <1>4 DEF Level, Told, Distinct
<1>6. Hit(fs, r) = InOrder(hit, BySmallestKey)
  BY DEF Hit, hit
<1>7. /\ Hit(fs, r) \in Seq(hit) /\ ToSet(Hit(fs, r)) = hit
      /\ \A i, j \in 1..Len(Hit(fs, r)) : i < j => BySmallestKey(Hit(fs, r)[i], Hit(fs, r)[j])
  BY <1>3, <1>5, <1>6, TablesInOrder
<1>8. Hit(fs, r) \in Seq(Table)
  <2>1. \A i \in 1..Len(Hit(fs, r)) : Hit(fs, r)[i] \in Table
    BY <1>3, <1>7
  <2>2. Hit(fs, r) = [i \in 1..Len(Hit(fs, r)) |-> Hit(fs, r)[i]] /\ Len(Hit(fs, r)) \in Nat
    BY <1>7
  <2> QED
    BY <2>1, <2>2
<1> QED
  BY <1>5, <1>7, <1>8 DEF Level, hit
-----------------------------------------------------------------------------
(* Ranges of tables.                                                       *)

\* From the smallest to the largest key of some tables.
LEMMA UserRangeSpans ==
    ASSUME NEW fs \in Seq(Table), fs # <<>>
    PROVE  /\ UserRange(fs) \in Span
           /\ \A f \in ToSet(fs) : Inside(f, UserRange(fs))
           /\ \E f \in ToSet(fs) : Lo(f) = UserRange(fs).begin
           /\ \E f \in ToSet(fs) : Hi(f) = UserRange(fs).end
<1> DEFINE F == ToSet(fs)
           los == {Smallest(f).key : f \in F}
           his == {Largest(f).key : f \in F}
           lo == [f \in F |-> Smallest(f).key]
           hi == [f \in F |-> Largest(f).key]
<1>1. F \in SUBSET Table /\ IsFiniteSet(F) /\ F = {fs[i] : i \in 1..Len(fs)} /\ Len(fs) \in Nat
  BY ListIsFinite
<1>2. fs[1] \in F
  <2>1. Len(fs) # 0
    OBVIOUS
  <2>2. 1 \in 1..Len(fs)
    BY <1>1, <2>1
  <2> QED
    BY <1>1, <2>2
<1> HIDE DEF F
<1>3. IsFiniteSet(los)
  <2>1. los = {lo[f] : f \in F} /\ DOMAIN lo = F /\ lo = [f \in F |-> lo[f]]
    OBVIOUS
  <2> HIDE DEF lo, los
  <2> QED
    BY <1>1, <2>1, ImageIsFinite
<1>4. IsFiniteSet(his)
  <2>1. his = {hi[f] : f \in F} /\ DOMAIN hi = F /\ hi = [f \in F |-> hi[f]]
    OBVIOUS
  <2> HIDE DEF hi, his
  <2> QED
    BY <1>1, <2>1, ImageIsFinite
<1>5. \A f \in F : Smallest(f).key = Lo(f) /\ Largest(f).key = Hi(f)
                   /\ Lo(f) \in Nat /\ Hi(f) \in Nat /\ Lo(f) <= Hi(f)
  BY <1>1, Ends DEF Lo, Hi
<1>6. los \in SUBSET Nat /\ los # {} /\ his \in SUBSET Nat /\ his # {}
  BY <1>2, <1>5
<1>7. UserRange(fs) = [begin |-> Min(los), end |-> Max(his)]
  BY DEF UserRange, Interval, F
<1>8. /\ Min(los) \in los /\ \A x \in los : Min(los) <= x
      /\ Max(his) \in his /\ \A x \in his : x <= Max(his)
  <2> HIDE DEF los, his
  <2> QED
    BY <1>3, <1>4, <1>6, MinMax
<1>9. PICK a, b : a = Min(los) /\ b = Max(his)
  OBVIOUS
<1>10. /\ a \in Nat /\ b \in Nat
       /\ \A f \in F : a <= Lo(f) /\ Hi(f) <= b
       /\ \E f \in F : Lo(f) = a
       /\ \E f \in F : Hi(f) = b
  BY <1>5, <1>6, <1>8, <1>9
<1> HIDE DEF los, his
<1>11. a <= b
  BY <1>2, <1>5, <1>10
<1> QED
  BY <1>7, <1>9, <1>10, <1>11 DEF Span, Inside, F

LEMMA WidenedSpans ==
    ASSUME NEW hit, Level(hit), NEW r \in Span
    PROVE  /\ Widened(hit, r) \in Span
           /\ Widened(hit, r).begin <= r.begin /\ r.end <= Widened(hit, r).end
           /\ \A f \in ToSet(hit) : Inside(f, Widened(hit, r))
           /\ \/ Widened(hit, r).begin = r.begin
              \/ \E f \in ToSet(hit) : Lo(f) = Widened(hit, r).begin
           /\ \/ Widened(hit, r).end = r.end
              \/ \E f \in ToSet(hit) : Hi(f) = Widened(hit, r).end
           /\ (\A f \in ToSet(hit) : Inside(f, r)) => Widened(hit, r) = r
<1> DEFINE F == ToSet(hit)
           l0 == {Smallest(f).key : f \in F}
           h0 == {Largest(f).key : f \in F}
           los == {r.begin} \cup l0
           his == {r.end} \cup h0
           lo == [f \in F |-> Smallest(f).key]
           hi == [f \in F |-> Largest(f).key]
<1>1. F \in SUBSET Table /\ IsFiniteSet(F)
  BY LevelParts
<1> HIDE DEF F
<1>2. r.begin \in Nat /\ r.end \in Nat /\ r.begin <= r.end
      /\ r = [begin |-> r.begin, end |-> r.end]
  BY DEF Span
<1>3. IsFiniteSet(l0) /\ IsFiniteSet(h0)
  <2>1. l0 = {lo[f] : f \in F} /\ DOMAIN lo = F /\ lo = [f \in F |-> lo[f]]
        /\ h0 = {hi[f] : f \in F} /\ DOMAIN hi = F /\ hi = [f \in F |-> hi[f]]
    OBVIOUS
  <2> HIDE DEF lo, l0, hi, h0
  <2> QED
    BY <1>1, <2>1, ImageIsFinite
<1>4. IsFiniteSet(los) /\ IsFiniteSet(his)
  <2>1. IsFiniteSet({r.begin}) /\ IsFiniteSet({r.end})
    BY FS_Singleton
  <2> HIDE DEF l0, h0
  <2> QED
    BY <1>3, <2>1, FS_Union
<1>5. \A f \in F : Smallest(f).key = Lo(f) /\ Largest(f).key = Hi(f)
                   /\ Lo(f) \in Nat /\ Hi(f) \in Nat /\ Lo(f) <= Hi(f)
  BY <1>1, Ends DEF Lo, Hi
<1>6. los \in SUBSET Nat /\ los # {} /\ his \in SUBSET Nat /\ his # {}
  BY <1>2, <1>5
<1>7. Widened(hit, r) = [begin |-> Min(los), end |-> Max(his)]
  BY DEF Widened, Interval, F
<1>8. /\ Min(los) \in los /\ \A x \in los : Min(los) <= x
      /\ Max(his) \in his /\ \A x \in his : x <= Max(his)
  <2> HIDE DEF los, his
  <2> QED
    BY <1>4, <1>6, MinMax
<1>9. PICK a, b : a = Min(los) /\ b = Max(his)
  OBVIOUS
<1>10. /\ a \in Nat /\ b \in Nat /\ a <= r.begin /\ r.end <= b
       /\ \A f \in F : a <= Lo(f) /\ Hi(f) <= b
       /\ a = r.begin \/ \E f \in F : Lo(f) = a
       /\ b = r.end \/ \E f \in F : Hi(f) = b
  BY <1>5, <1>6, <1>8, <1>9
<1> HIDE DEF los, his
<1>11. a <= b
  BY <1>2, <1>10
<1>12. (\A f \in F : Inside(f, r)) => a = r.begin /\ b = r.end
  BY <1>2, <1>5, <1>10 DEF Inside
<1>13. Widened(hit, r) = [begin |-> a, end |-> b]
  BY <1>7, <1>9
<1> QED
  BY <1>2, <1>10, <1>11, <1>12, <1>13 DEF Span, Inside, F

\* A range that is covered by tables stays so when it is extended by tables that
\* overlap it.
LEMMA WidenedIsCovered ==
    ASSUME NEW hit, Level(hit), NEW r \in Span, \A f \in ToSet(hit) : Overlaps(f, r),
           NEW G, Covered(r.begin, r.end, G)
    PROVE  Covered(Widened(hit, r).begin, Widened(hit, r).end, G \cup ToSet(hit))
<1> DEFINE w == Widened(hit, r)
<1>1. /\ w \in Span /\ w.begin <= r.begin /\ r.end <= w.end
      /\ w.begin = r.begin \/ \E f \in ToSet(hit) : Lo(f) = w.begin
      /\ w.end = r.end \/ \E f \in ToSet(hit) : Hi(f) = w.end
  BY WidenedSpans
<1> HIDE DEF w
<1> SUFFICES ASSUME NEW k \in w.begin..w.end
             PROVE  \E g \in G \cup ToSet(hit) : Lo(g) <= k /\ k <= Hi(g)
  BY DEF Covered, w
<1>2. /\ w.begin \in Nat /\ w.end \in Nat /\ r.begin \in Nat /\ r.end \in Nat /\ r.begin <= r.end
      /\ k \in Nat /\ w.begin <= k /\ k <= w.end
  BY <1>1 DEF Span
<1>3. CASE k \in r.begin..r.end
  BY <1>3 DEF Covered
<1>4. CASE k < r.begin
  <2>1. PICK f \in ToSet(hit) : Lo(f) = w.begin
    BY <1>1, <1>2, <1>4
  <2>2. Overlaps(f, r) /\ f \in Table
    BY LevelParts
  <2>3. Hi(f) \in Nat /\ Hi(f) >= r.begin
    BY <2>2, Ends DEF Overlaps, Hi
  <2> QED
    BY <1>2, <1>4, <2>1, <2>3
<1>5. CASE r.end < k
  <2>1. PICK f \in ToSet(hit) : Hi(f) = w.end
    BY <1>1, <1>2, <1>5
  <2>2. Overlaps(f, r) /\ f \in Table
    BY LevelParts
  <2>3. Lo(f) \in Nat /\ Lo(f) <= r.end
    BY <2>2, Ends DEF Overlaps, Lo
  <2> QED
    BY <1>2, <1>5, <2>1, <2>3
<1> QED
  BY <1>2, <1>3, <1>4, <1>5
-----------------------------------------------------------------------------
(* The tables of a level that overlap a range, which on level 0 is         *)
(* extended by each of them.                                               *)

\* The range that is reached.
Closes(fs, r) ==
    CHOOSE f : f = [n \in 0..Len(fs) |-> IF n = 0 THEN r ELSE Wider(fs, f[n-1])]
Reached(fs, level, r) == IF level = 0 THEN Closes(fs, r)[Len(fs)] ELSE r

OverlappingIn(fs, r) == {f \in ToSet(fs) : Overlaps(f, r)}

LEMMA OverlappingParts ==
    ASSUME NEW fs, Level(fs), NEW r
    PROVE  /\ OverlappingIn(fs, r) \in SUBSET Table /\ OverlappingIn(fs, r) \subseteq ToSet(fs)
           /\ IsFiniteSet(OverlappingIn(fs, r))
           /\ Cardinality(OverlappingIn(fs, r)) \in Nat
           /\ Cardinality(OverlappingIn(fs, r)) <= Len(fs)
<1>1. OverlappingIn(fs, r) \subseteq ToSet(fs)
  BY DEF OverlappingIn
<1>2. IsFiniteSet(ToSet(fs)) /\ ToSet(fs) \subseteq Table /\ Cardinality(ToSet(fs)) <= Len(fs)
      /\ Len(fs) \in Nat
  BY LevelParts
<1>3. IsFiniteSet(OverlappingIn(fs, r)) /\ Cardinality(OverlappingIn(fs, r)) <= Cardinality(ToSet(fs))
  BY <1>1, <1>2, FS_Subset
<1>4. Cardinality(OverlappingIn(fs, r)) \in Nat /\ Cardinality(ToSet(fs)) \in Nat
  BY <1>2, <1>3, FS_CardinalityType
<1> QED
  BY <1>1, <1>2, <1>3, <1>4

\* One restart of the search.
LEMMA WiderSpans ==
    ASSUME NEW fs, Level(fs), NEW r \in Span
    PROVE  /\ Wider(fs, r) \in Span
           /\ Wider(fs, r).begin <= r.begin /\ r.end <= Wider(fs, r).end
           /\ OverlappingIn(fs, r) \subseteq OverlappingIn(fs, Wider(fs, r))
           /\ \A f \in OverlappingIn(fs, r) : Inside(f, Wider(fs, r))
           /\ (\A f \in OverlappingIn(fs, r) : Inside(f, r)) => Wider(fs, r) = r
<1> DEFINE w == Wider(fs, r)
<1>1. ToSet(Hit(fs, r)) = OverlappingIn(fs, r) /\ Level(Hit(fs, r)) /\ w = Widened(Hit(fs, r), r)
  BY HitIsOverlapping DEF OverlappingIn, Wider
<1> HIDE DEF w
<1>2. /\ w \in Span /\ w.begin <= r.begin /\ r.end <= w.end
      /\ \A f \in OverlappingIn(fs, r) : Inside(f, w)
      /\ (\A f \in OverlappingIn(fs, r) : Inside(f, r)) => w = r
  BY <1>1, WidenedSpans
<1>3. ASSUME NEW f \in OverlappingIn(fs, r)
      PROVE  f \in OverlappingIn(fs, w)
  <2>1. f \in Table /\ f \in ToSet(fs) /\ Overlaps(f, r)
    BY OverlappingParts DEF OverlappingIn
  <2>2. /\ Lo(f) \in Nat /\ Hi(f) \in Nat /\ r.begin \in Nat /\ r.end \in Nat
        /\ w.begin \in Nat /\ w.end \in Nat
    BY <1>2, <2>1, Ends DEF Span
  <2>3. Overlaps(f, w)
    BY <1>2, <2>1, <2>2 DEF Overlaps, Lo, Hi
  <2> QED
    BY <2>1, <2>3 DEF OverlappingIn
<1> QED
  BY <1>2, <1>3 DEF w

LEMMA ClosesStepwise ==
    ASSUME NEW fs, Level(fs), NEW r \in Span
    PROVE  /\ Closes(fs, r) \in [0..Len(fs) -> Span] /\ Closes(fs, r)[0] = r
           /\ \A i \in 1..Len(fs) : Closes(fs, r)[i] = Wider(fs, Closes(fs, r)[i-1])
<1> DEFINE n == Len(fs)
           step == [x \in (1..n) \X Span |-> Wider(fs, x[2])]
<1>1. n \in Nat
  BY LevelParts
<1>2. step \in [(1..n) \X Span -> Span]
      /\ \A i \in 1..n, s \in Span : step[<<i, s>>] = Wider(fs, s)
  BY WiderSpans
<1> HIDE DEF step
<1>3. PICK f : Follows(f, Span, n, r, step)
  <2> HIDE DEF n
  <2> QED
    BY <1>1, <1>2, Recursion
<1>4. f \in [0..n -> Span] /\ f[0] = r /\ \A i \in 1..n : f[i] = Wider(fs, f[i-1])
  <2>1. \A i \in 1..n : i - 1 \in 0..n
    BY <1>1
  <2> QED
    BY <1>2, <1>3, <2>1 DEF Follows
<1>5. f = [i \in 0..n |-> IF i = 0 THEN r ELSE Wider(fs, f[i-1])]
  BY <1>1, <1>4
<1>6. Closes(fs, r) = [i \in 0..n |-> IF i = 0 THEN r ELSE Wider(fs, Closes(fs, r)[i-1])]
  BY <1>5 DEF Closes
<1> HIDE DEF n
<1>7. 0 \in 0..n /\ \A i \in 1..n : i \in 0..n /\ i # 0 /\ i - 1 \in 0..n
  BY <1>1
<1>8. Closes(fs, r)[0] = r /\ \A i \in 1..n : Closes(fs, r)[i] = Wider(fs, Closes(fs, r)[i-1])
  BY <1>6, <1>7
<1> DEFINE c == Closes(fs, r)
           I == {i \in Nat : i <= n => c[i] \in Span}
<1>9. 0 \in I
  BY <1>8
<1>10. ASSUME NEW i \in Nat, i \in I
       PROVE  i + 1 \in I
  <2> HIDE DEF c
  <2> SUFFICES ASSUME i + 1 <= n
               PROVE  c[i+1] \in Span
    OBVIOUS
  <2>1. i + 1 \in 1..n /\ i + 1 - 1 = i
    BY <1>1
  <2>2. c[i+1] = Wider(fs, c[i]) /\ c[i] \in Span
    BY <1>1, <1>8, <1>10, <2>1 DEF c
  <2> QED
    BY <2>2, WiderSpans
<1>11. Nat \subseteq I
  <2> HIDE DEF I
  <2> QED
    BY <1>9, <1>10, Induction
<1>12. c \in [0..n -> Span]
  <2>1. DOMAIN c = 0..n /\ c = [i \in 0..n |-> c[i]]
    BY <1>6 DEF c
  <2> HIDE DEF c
  <2>2. \A i \in 0..n : c[i] \in Span
    BY <1>1, <1>11
  <2> QED
    BY <2>1, <2>2
<1> QED
  BY <1>8, <1>12 DEF n

\* The search ends with a range that holds all that overlaps it: it restarts once
\* for each table at most.
LEMMA ReachedIsClosed ==
    ASSUME NEW fs, Level(fs), NEW r \in Span, NEW level \in Nat
    PROVE  /\ Reached(fs, level, r) \in Span
           /\ Reached(fs, level, r).begin <= r.begin /\ r.end <= Reached(fs, level, r).end
           /\ level # 0 => Reached(fs, level, r) = r
           /\ level = 0 => \A f \in OverlappingIn(fs, Reached(fs, level, r)) :
                              Inside(f, Reached(fs, level, r))
<1> DEFINE n == Len(fs)
           c == Closes(fs, r)
           hits(i) == OverlappingIn(fs, c[i])
           Closed(i) == \A f \in hits(i) : Inside(f, c[i])
           Wide(i) == c[i].begin <= r.begin /\ r.end <= c[i].end
           I == {i \in Nat : i <= n => Wide(i) /\ (Closed(i) \/ Cardinality(hits(i)) >= i + 1)}
<1>1. /\ n \in Nat /\ c \in [0..n -> Span] /\ c[0] = r
      /\ \A i \in 1..n : c[i] = Wider(fs, c[i-1])
  BY LevelParts, ClosesStepwise
<1>2. r.begin \in Nat /\ r.end \in Nat
  BY DEF Span
<1> HIDE DEF c
<1>3. 0 \in I
  <2>1. CASE hits(0) = {}
    BY <1>1, <1>2, <2>1
  <2>2. CASE hits(0) # {}
    <3>1. IsFiniteSet(hits(0)) /\ Cardinality(hits(0)) \in Nat
      BY OverlappingParts
    <3> HIDE DEF hits
    <3>2. Cardinality(hits(0)) # 0
      BY <2>2, <3>1, FS_EmptySet
    <3>3. Cardinality(hits(0)) >= 0 + 1
      BY <3>1, <3>2
    <3> QED
      BY <1>1, <1>2, <3>3
  <2> QED
    BY <2>1, <2>2
<1>4. ASSUME NEW i \in Nat, i \in I
      PROVE  i + 1 \in I
  <2> SUFFICES ASSUME i + 1 <= n
               PROVE  Wide(i + 1) /\ (Closed(i + 1) \/ Cardinality(hits(i + 1)) >= i + 1 + 1)
    OBVIOUS
  <2>1. Wide(i) /\ (Closed(i) \/ Cardinality(hits(i)) >= i + 1)
    BY <1>1, <1>4
  <2>2. c[i+1] = Wider(fs, c[i]) /\ c[i] \in Span
    <3>1. i + 1 \in 1..n /\ i \in 0..n /\ i + 1 - 1 = i
      BY <1>1
    <3> QED
      BY <1>1, <3>1
  <2>3. /\ c[i+1] \in Span /\ c[i+1].begin <= c[i].begin /\ c[i].end <= c[i+1].end
        /\ hits(i) \subseteq hits(i+1) /\ \A f \in hits(i) : Inside(f, c[i+1])
        /\ Closed(i) => c[i+1] = c[i]
    BY <2>2, WiderSpans
  <2>4. Wide(i + 1)
    <3>1. /\ c[i].begin \in Nat /\ c[i].end \in Nat /\ c[i+1].begin \in Nat /\ c[i+1].end \in Nat
      BY <2>2, <2>3 DEF Span
    <3> QED
      BY <1>2, <2>1, <2>3, <3>1
  <2>5. CASE Closed(i)
    <3>1. Closed(i + 1)
      BY <2>3, <2>5
    <3> QED
      BY <2>4, <3>1
  <2>6. CASE hits(i) = hits(i + 1)
    <3>1. Closed(i + 1)
      BY <2>3, <2>6
    <3> QED
      BY <2>4, <3>1
  <2>7. CASE ~Closed(i) /\ hits(i) # hits(i + 1)
    <3>1. /\ IsFiniteSet(hits(i)) /\ Cardinality(hits(i)) \in Nat
          /\ IsFiniteSet(hits(i+1)) /\ Cardinality(hits(i+1)) \in Nat
      BY OverlappingParts
    <3>2. Cardinality(hits(i)) >= i + 1
      BY <2>1, <2>7
    <3> HIDE DEF hits
    <3>3. Cardinality(hits(i)) <= Cardinality(hits(i+1))
          /\ (Cardinality(hits(i)) = Cardinality(hits(i+1)) => hits(i) = hits(i+1))
      BY <2>3, <3>1, FS_Subset
    <3>4. Cardinality(hits(i + 1)) >= i + 1 + 1
      BY <2>7, <3>1, <3>2, <3>3
    <3> QED
      BY <2>4, <3>4
  <2> QED
    BY <2>5, <2>6, <2>7
<1>5. n \in I
  <2> HIDE DEF I
  <2> QED
    BY <1>1, <1>3, <1>4, Induction
<1>6. Wide(n) /\ (Closed(n) \/ Cardinality(hits(n)) >= n + 1)
  BY <1>1, <1>5
<1>7. Closed(n)
  <2>1. Cardinality(hits(n)) \in Nat /\ Cardinality(hits(n)) <= n
    BY OverlappingParts
  <2> QED
    BY <1>1, <1>6, <2>1
<1>8. c[n] \in Span
  BY <1>1
<1>9. CASE level = 0
  BY <1>6, <1>7, <1>8, <1>9 DEF Reached, c
<1>10. CASE level # 0
  BY <1>2, <1>10 DEF Reached
<1> QED
  BY <1>9, <1>10

\* What is reached from a range covered by tables is covered by them and by the
\* tables that overlap it.
LEMMA ReachedIsCovered ==
    ASSUME NEW fs, Level(fs), NEW r \in Span, NEW level \in Nat, NEW G,
           Covered(r.begin, r.end, G)
    PROVE  Covered(Reached(fs, level, r).begin, Reached(fs, level, r).end,
                   G \cup OverlappingIn(fs, Reached(fs, level, r)))
<1> DEFINE n == Len(fs)
           c == Closes(fs, r)
           hits(i) == OverlappingIn(fs, c[i])
           Good1(i) == Covered(c[i].begin, c[i].end, G \cup hits(i))
           I == {i \in Nat : i <= n => Good1(i)}
<1>1. /\ n \in Nat /\ c \in [0..n -> Span] /\ c[0] = r
      /\ \A i \in 1..n : c[i] = Wider(fs, c[i-1])
  BY LevelParts, ClosesStepwise
<1> HIDE DEF c
<1>2. 0 \in I
  BY <1>1 DEF Covered
<1>3. ASSUME NEW i \in Nat, i \in I
      PROVE  i + 1 \in I
  <2> SUFFICES ASSUME i + 1 <= n
               PROVE  Good1(i + 1)
    OBVIOUS
  <2>1. Good1(i)
    BY <1>1, <1>3
  <2>2. c[i+1] = Wider(fs, c[i]) /\ c[i] \in Span
    <3>1. i + 1 \in 1..n /\ i \in 0..n /\ i + 1 - 1 = i
      BY <1>1
    <3> QED
      BY <1>1, <3>1
  <2>3. hits(i) \subseteq hits(i + 1)
    BY <2>2, WiderSpans
  <2>4. /\ ToSet(Hit(fs, c[i])) = hits(i) /\ Level(Hit(fs, c[i]))
        /\ c[i+1] = Widened(Hit(fs, c[i]), c[i]) /\ \A f \in hits(i) : Overlaps(f, c[i])
    BY <2>2, HitIsOverlapping DEF OverlappingIn, Wider
  <2> HIDE DEF hits
  <2>5. Covered(c[i+1].begin, c[i+1].end, (G \cup hits(i)) \cup hits(i))
    BY <2>1, <2>2, <2>4, WidenedIsCovered
  <2> QED
    BY <2>3, <2>5 DEF Covered
<1>4. n \in I
  <2> HIDE DEF I
  <2> QED
    BY <1>1, <1>2, <1>3, Induction
<1>5. Good1(n)
  BY <1>1, <1>4
<1> QED
  BY <1>5 DEF Reached, Covered, c

LEMMA OverlappingInputs ==
    ASSUME NEW fs, Level(fs), NEW level, NEW r
    PROVE  /\ ToSet(GetOverlappingInputs(fs, level, r)) = OverlappingIn(fs, Reached(fs, level, r))
           /\ Level(GetOverlappingInputs(fs, level, r))
<1>1. GetOverlappingInputs(fs, level, r) = Hit(fs, Reached(fs, level, r))
  BY DEF GetOverlappingInputs, Reached, Closes
<1> QED
  BY <1>1, HitIsOverlapping DEF OverlappingIn
-----------------------------------------------------------------------------
(* What a reader sees of a set of entries.                                 *)

Seen(es, k, t) == {e \in es : e.key = k /\ e.seq <= t}

LEMMA NoneIsNoUpdate == None \notin Update
BY DEF None, Update

\* The newest is the one with the greatest sequence number, of which there is one.
LEMMA NewestIs ==
    ASSUME NEW es, Told(es), NEW k, NEW t \in Nat
    PROVE  /\ Seen(es, k, t) = {} <=> Newest(es, k, t) = None
           /\ Seen(es, k, t) # {} => /\ Newest(es, k, t) \in Seen(es, k, t)
                                     /\ \A d \in Seen(es, k, t) : d.seq <= Newest(es, k, t).seq
           /\ \A e \in Seen(es, k, t) :
                 (\A d \in Seen(es, k, t) : d.seq <= e.seq) => Newest(es, k, t) = e
<1> DEFINE seen == Seen(es, k, t)
           seqs == {e.seq : e \in seen}
<1>1. seen \subseteq Update /\ \A e \in seen : e.seq \in Nat /\ e.seq <= MaxWrites /\ e \in es
  BY KeysAreNumbers DEF Told, Seen
<1>2. Newest(es, k, t) = IF seen = {} THEN None ELSE CHOOSE e \in seen : \A d \in seen : d.seq <= e.seq
  BY DEF Newest, NewestOf, Seen
<1> HIDE DEF seen
<1>3. ASSUME seen # {}
      PROVE  \E e \in seen : \A d \in seen : d.seq <= e.seq
  <2>1. IsFiniteSet(0..MaxWrites)
    BY FS_Interval, LevelsAssumption
  <2>2. seqs \subseteq 0..MaxWrites
    BY <1>1
  <2>3. IsFiniteSet(seqs) /\ seqs \in SUBSET Nat /\ seqs # {}
    <3>1. seqs # {} /\ seqs \in SUBSET Nat
      BY <1>1, <1>3
    <3> HIDE DEF seqs
    <3> QED
      BY <2>1, <2>2, <3>1, FS_Subset
  <2>4. Max(seqs) \in seqs /\ \A x \in seqs : x <= Max(seqs)
    <3> HIDE DEF seqs
    <3> QED
      BY <2>3, MinMax
  <2>5. PICK e \in seen : e.seq = Max(seqs)
    BY <2>4
  <2>6. \A d \in seen : d.seq \in seqs
    OBVIOUS
  <2> QED
    BY <2>4, <2>5, <2>6
<1>4. seen # {} => /\ Newest(es, k, t) \in seen
                   /\ \A d \in seen : d.seq <= Newest(es, k, t).seq
  <2> SUFFICES ASSUME seen # {}
               PROVE  LET n == CHOOSE e \in seen : \A d \in seen : d.seq <= e.seq
                      IN  n \in seen /\ \A d \in seen : d.seq <= n.seq
    BY <1>2
  <2> QED
    BY <1>3
<1>5. ASSUME NEW e \in seen, \A d \in seen : d.seq <= e.seq
      PROVE  Newest(es, k, t) = e
  <2>1. Newest(es, k, t).seq = e.seq
    BY <1>1, <1>4, <1>5
  <2> QED
    BY <1>1, <1>4, <2>1 DEF Told
<1>6. seen = {} <=> Newest(es, k, t) = None
  BY <1>1, <1>2, <1>4, NoneIsNoUpdate
<1> QED
  BY <1>4, <1>5, <1>6 DEF seen

LEMMA ToldSubset ==
    ASSUME NEW es, Told(es), NEW ds \in SUBSET es
    PROVE  Told(ds)
BY DEF Told

\* Taking away some entries shows the same, if the newest one seen stays, or is a
\* deletion and nothing is left.
LEMMA FewerShowTheSame ==
    ASSUME NEW es, Told(es), NEW ds \in SUBSET es, NEW k, NEW t \in Nat,
           \A n \in Seen(es, k, t) \ ds :
              \/ \E p \in Seen(es, k, t) : p.seq > n.seq
              \/ n.del /\ \A d \in Seen(ds, k, t) : d.seq > n.seq
    PROVE  Value(Newest(ds, k, t)) = Value(Newest(es, k, t))
<1>1. Told(ds) /\ Seen(ds, k, t) \subseteq Seen(es, k, t)
  BY ToldSubset DEF Seen
<1>2. CASE Seen(es, k, t) = {}
  BY <1>1, <1>2, NewestIs
<1>3. CASE Seen(es, k, t) # {}
  <2> DEFINE n == Newest(es, k, t)
  <2>1. n \in Seen(es, k, t) /\ \A d \in Seen(es, k, t) : d.seq <= n.seq
    BY <1>3, NewestIs
  <2>2. \A d \in Seen(es, k, t) : d.seq \in Nat
    BY KeysAreNumbers DEF Told, Seen
  <2> HIDE DEF n
  <2>3. CASE n \in ds
    <3>1. n \in Seen(ds, k, t)
      BY <2>1, <2>3 DEF Seen
    <3>2. Newest(ds, k, t) = n
      BY <1>1, <2>1, <3>1, NewestIs
    <3> QED
      BY <3>2 DEF n
  <2>4. CASE n \notin ds
    <3>1. n.del /\ \A d \in Seen(ds, k, t) : d.seq > n.seq
      BY <2>1, <2>2, <2>4
    <3>2. Seen(ds, k, t) = {}
      BY <1>1, <2>1, <2>2, <3>1
    <3>3. Newest(ds, k, t) = None
      BY <1>1, <3>2, NewestIs
    <3> QED
      BY <3>1, <3>3 DEF Value, n
  <2> QED
    BY <2>3, <2>4
<1> QED
  BY <1>2, <1>3

-----------------------------------------------------------------------------
(* Some tables of a level and some of the next become others of the next.  *)

LEMMA InTable ==
    ASSUME NEW f \in Table, NEW e \in ToSet(f.entries)
    PROVE  /\ e \in Update /\ e.key \in Nat /\ Lo(f) \in Nat /\ Hi(f) \in Nat
           /\ Lo(f) <= e.key /\ e.key <= Hi(f)
BY Ends, KeysAreNumbers

LEMMA ApartKeys ==
    ASSUME NEW f \in Table, NEW g \in Table, Apart(f, g),
           NEW d \in ToSet(f.entries), NEW e \in ToSet(g.entries)
    PROVE  d.key # e.key
BY InTable DEF Apart

LEMMA EntryOf ==
    ASSUME NEW fs, NEW e
    PROVE  e \in EntriesOf(fs) <=> \E f \in fs : e \in ToSet(f.entries)
BY DEF EntriesOf

\* The inputs are apart from the rest of their level, and a range that holds them
\* is clear of the rest of the next.
Mergeable(T, l, I0, I1) ==
    /\ l \in 1..kNumLevels-1 /\ I0 \in SUBSET T[l] /\ I1 \in SUBSET T[l+1]
    /\ \A f \in I0, g \in T[l] \ I0 : Apart(f, g)
    /\ \E H \in Span : /\ \A f \in I0 \cup I1 : Inside(f, H)
                       /\ \A g \in T[l+1] \ I1 : ~Overlaps(g, H)

\* The outputs are apart and have entries of the inputs, all but those that are
\* hidden and the deletions with nothing left to delete.
Forgets(In, Out, below, s) ==
    \A e \in In \ Out :
        \/ \E p \in In : p.key = e.key /\ p.seq > e.seq /\ p.seq <= s
        \/ e.del /\ \A d \in Out \cup below : d.key = e.key => d.seq > e.seq

Replaces(T, I, O) ==
    /\ O \in SUBSET Table /\ IsFiniteSet(O) /\ EntriesOf(O) \subseteq EntriesOf(I)
    /\ \A f, g \in O : f = g \/ (Apart(f, g) /\ f.number # g.number)
    /\ \A f \in O : f \in I \/ \A m \in 1..kNumLevels : \A g \in T[m] : f.number # g.number

Merged(T, l, I0, I1, O) ==
    [m \in 1..kNumLevels |-> IF m = l THEN T[m] \ I0
                             ELSE IF m = l + 1 THEN (T[m] \ I1) \cup O ELSE T[m]]
Deeper(T, l) == UNION {EntriesOf(T[m]) : m \in l+2..kNumLevels}

LEMMA MergedParts ==
    ASSUME NEW T, NEW recent, NEW old, Fine(T, recent, old),
           NEW l, NEW I0, NEW I1, Mergeable(T, l, I0, I1), NEW O, Replaces(T, I0 \cup I1, O)
    PROVE  LET M == Merged(T, l, I0, I1, O)
           IN  /\ M \in [1..kNumLevels -> SUBSET Table]
               /\ l \in 1..kNumLevels /\ l + 1 \in 1..kNumLevels
               /\ M[l] = T[l] \ I0 /\ M[l+1] = (T[l+1] \ I1) \cup O
               /\ \A m \in 1..kNumLevels : m # l /\ m # l + 1 => M[m] = T[m]
               /\ I0 \cup I1 \subseteq Table
               /\ \A f \in O : \A g \in T[l+1] \ I1 : Apart(f, g)
               /\ \A f \in I0 : \A g \in T[l+1] \ I1 : Apart(f, g)
               /\ \A m \in 1..kNumLevels : \A f \in M[m] : f \in T[m] \/ (m = l + 1 /\ f \in O)
<1> DEFINE M == Merged(T, l, I0, I1, O)
<1>1. /\ kNumLevels \in Nat /\ l \in 1..kNumLevels-1 /\ T \in [1..kNumLevels -> SUBSET Table]
      /\ I0 \in SUBSET T[l] /\ I1 \in SUBSET T[l+1] /\ O \in SUBSET Table
  BY LevelsAssumption DEF Fine, Mergeable, Replaces
<1>2. l \in 1..kNumLevels /\ l + 1 \in 1..kNumLevels /\ l # l + 1
  BY <1>1
<1>3. /\ M[l] = T[l] \ I0 /\ M[l+1] = (T[l+1] \ I1) \cup O
      /\ \A m \in 1..kNumLevels : m # l /\ m # l + 1 => M[m] = T[m]
      /\ DOMAIN M = 1..kNumLevels /\ M = [m \in 1..kNumLevels |-> M[m]]
  BY <1>2 DEF Merged
<1>4. I0 \cup I1 \subseteq Table
  BY <1>1, <1>2
<1> HIDE DEF M
<1>5. \A m \in 1..kNumLevels : M[m] \subseteq Table
  BY <1>1, <1>2, <1>3
<1>6. M \in [1..kNumLevels -> SUBSET Table]
  BY <1>3, <1>5
<1>7. PICK H \in Span : /\ \A f \in I0 \cup I1 : Inside(f, H)
                        /\ \A g \in T[l+1] \ I1 : ~Overlaps(g, H)
  BY DEF Mergeable
<1>8. H.begin \in Nat /\ H.end \in Nat
  BY DEF Span
<1>9. ASSUME NEW f \in Table, Inside(f, H), NEW g \in T[l+1] \ I1
      PROVE  Apart(f, g)
  <2>1. g \in Table /\ ~Overlaps(g, H)
    BY <1>1, <1>2, <1>7
  <2>2. Lo(f) \in Nat /\ Hi(f) \in Nat /\ Lo(g) \in Nat /\ Hi(g) \in Nat
    BY <2>1, Ends
  <2> QED
    BY <1>8, <1>9, <2>1, <2>2 DEF Inside, Overlaps, Apart, Lo, Hi
<1>10. ASSUME NEW f \in O
       PROVE  f \in Table /\ Inside(f, H)
  <2>1. f \in Table /\ Smallest(f) \in ToSet(f.entries) /\ Largest(f) \in ToSet(f.entries)
    BY <1>1, Ends
  <2>2. \A e \in ToSet(f.entries) : \E g \in I0 \cup I1 : e \in ToSet(g.entries)
    <3>1. \A e \in ToSet(f.entries) : e \in EntriesOf(O)
      BY EntryOf
    <3> QED
      BY <3>1, EntryOf DEF Replaces
  <2>3. \A e \in ToSet(f.entries) : H.begin <= e.key /\ e.key <= H.end
    <3> SUFFICES ASSUME NEW e \in ToSet(f.entries)
                 PROVE  H.begin <= e.key /\ e.key <= H.end
      OBVIOUS
    <3>1. PICK g \in I0 \cup I1 : e \in ToSet(g.entries)
      BY <2>2
    <3>2. g \in Table /\ Inside(g, H)
      BY <1>4, <1>7
    <3> QED
      BY <1>8, <3>1, <3>2, InTable DEF Inside
  <2> QED
    BY <2>1, <2>3 DEF Inside, Lo, Hi
<1>11. /\ \A f \in O : \A g \in T[l+1] \ I1 : Apart(f, g)
       /\ \A f \in I0 : \A g \in T[l+1] \ I1 : Apart(f, g)
  BY <1>4, <1>7, <1>9, <1>10
<1>12. \A m \in 1..kNumLevels : \A f \in M[m] : f \in T[m] \/ (m = l + 1 /\ f \in O)
  BY <1>3
<1> QED
  BY <1>2, <1>3, <1>4, <1>6, <1>11, <1>12 DEF M
LEMMA MergeIsFine ==
    ASSUME NEW T, NEW recent, NEW old, Fine(T, recent, old),
           NEW l, NEW I0, NEW I1, Mergeable(T, l, I0, I1), NEW O, Replaces(T, I0 \cup I1, O)
    PROVE  Fine(Merged(T, l, I0, I1, O), recent, old)
<1> DEFINE M == Merged(T, l, I0, I1, O)
<1>1. /\ M \in [1..kNumLevels -> SUBSET Table]
      /\ l \in 1..kNumLevels /\ l + 1 \in 1..kNumLevels
      /\ M[l] = T[l] \ I0 /\ M[l+1] = (T[l+1] \ I1) \cup O
      /\ \A m \in 1..kNumLevels : m # l /\ m # l + 1 => M[m] = T[m]
      /\ I0 \cup I1 \subseteq Table
      /\ \A f \in O : \A g \in T[l+1] \ I1 : Apart(f, g)
      /\ \A f \in I0 : \A g \in T[l+1] \ I1 : Apart(f, g)
      /\ \A m \in 1..kNumLevels : \A f \in M[m] : f \in T[m] \/ (m = l + 1 /\ f \in O)
  BY MergedParts
<1> HIDE DEF M
<1>2. /\ T \in [1..kNumLevels -> SUBSET Table]
      /\ \A m \in 1..kNumLevels : IsFiniteSet(T[m]) /\ EntriesOf(T[m]) \subseteq old
      /\ \A m, n \in 1..kNumLevels : \A f \in T[m], g \in T[n] : f.number = g.number => m = n /\ f = g
      /\ \A m \in 2..kNumLevels : \A f, g \in T[m] : f = g \/ Apart(f, g)
      /\ \A m \in 1..kNumLevels : Newer(recent, EntriesOf(T[m]))
      /\ \A m, n \in 1..kNumLevels : m < n => Newer(EntriesOf(T[m]), EntriesOf(T[n]))
      /\ \A f, g \in T[1] : f.number > g.number => Newer(ToSet(f.entries), ToSet(g.entries))
  BY DEF Fine
<1>3. /\ O \in SUBSET Table /\ IsFiniteSet(O) /\ EntriesOf(O) \subseteq EntriesOf(I0 \cup I1)
      /\ \A f, g \in O : f = g \/ (Apart(f, g) /\ f.number # g.number)
      /\ \A f \in O : f \in I0 \cup I1 \/ \A m \in 1..kNumLevels : \A g \in T[m] : f.number # g.number
      /\ I0 \subseteq T[l] /\ I1 \subseteq T[l+1]
      /\ \A f \in I0, g \in T[l] \ I0 : Apart(f, g)
  BY DEF Replaces, Mergeable
<1>4. kNumLevels \in Nat /\ l \in Nat
  BY <1>1, LevelsAssumption
\* An entry of an output is one of an input.
<1>5. ASSUME NEW f \in O, NEW e \in ToSet(f.entries)
      PROVE  \E g \in I0 \cup I1 : e \in ToSet(g.entries)
  BY <1>3, EntryOf
<1>6. \A e \in EntriesOf(O) : e \in EntriesOf(T[l]) \/ e \in EntriesOf(T[l+1])
  BY <1>3, EntryOf
<1>7. ASSUME NEW m \in 1..kNumLevels, NEW e \in EntriesOf(M[m])
      PROVE  e \in EntriesOf(T[m]) \/ (m = l + 1 /\ e \in EntriesOf(O))
  BY <1>1, EntryOf
<1>8. ASSUME NEW m \in 1..kNumLevels
      PROVE  IsFiniteSet(M[m]) /\ EntriesOf(M[m]) \subseteq old
  <2>1. IsFiniteSet(M[m])
    <3>1. \A S \in SUBSET T[m] : IsFiniteSet(S)
      BY <1>2, FS_Subset
    <3>2. CASE m = l + 1
      <4>1. IsFiniteSet(T[m] \ I1)
        BY <3>1
      <4>2. IsFiniteSet((T[m] \ I1) \cup O)
        BY <1>3, <4>1, FS_Union
      <4>3. M[m] = (T[m] \ I1) \cup O
        BY <1>1, <3>2
      <4> QED
        BY <4>2, <4>3
    <3>3. CASE m = l
      BY <1>1, <3>1, <3>3
    <3> QED
      BY <1>1, <1>2, <3>2, <3>3
  <2> QED
    BY <1>1, <1>2, <1>6, <1>7, <2>1
<1>9. \A m, n \in 1..kNumLevels : \A f \in M[m], g \in M[n] : f.number = g.number => m = n /\ f = g
  <2>1. ASSUME NEW f \in O, NEW n \in 1..kNumLevels, NEW g \in M[n], g \notin O, f.number = g.number
        PROVE  FALSE
    <3>1. g \in T[n]
      BY <1>1, <2>1
    <3>2. f \in I0 \cup I1
      BY <1>3, <2>1, <3>1
    <3>3. CASE f \in I0
      <4>1. n = l /\ f = g
        BY <1>1, <1>2, <1>3, <2>1, <3>1, <3>3
      <4> QED
        BY <1>1, <3>3, <4>1
    <3>4. CASE f \in I1
      <4>1. n = l + 1 /\ f = g
        BY <1>1, <1>2, <1>3, <2>1, <3>1, <3>4
      <4> QED
        BY <1>1, <2>1, <3>4, <4>1
    <3> QED
      BY <3>2, <3>3, <3>4
  <2> SUFFICES ASSUME NEW m \in 1..kNumLevels, NEW n \in 1..kNumLevels,
                      NEW f \in M[m], NEW g \in M[n], f.number = g.number
               PROVE  m = n /\ f = g
    OBVIOUS
  <2>2. CASE f \in O /\ g \in O
    <3>1. \A p \in 1..kNumLevels : \A h \in M[p] : h \in O => p = l + 1
      <4> SUFFICES ASSUME NEW p \in 1..kNumLevels, NEW h \in M[p], h \in O, p # l + 1
                   PROVE  FALSE
        OBVIOUS
      <4>1. h \in T[p]
        BY <1>1
      <4>2. h \in I0 \cup I1
        BY <1>3, <4>1
      <4>3. (h \in I0 => p = l) /\ (h \in I1 => p = l + 1)
        BY <1>1, <1>2, <1>3, <4>1
      <4> QED
        BY <1>1, <4>2, <4>3
    <3> QED
      BY <1>3, <2>2, <3>1
  <2>3. CASE f \notin O /\ g \notin O
    BY <1>1, <1>2, <2>3
  <2> QED
    BY <2>1, <2>2, <2>3
<1>10. \A m \in 2..kNumLevels : \A f, g \in M[m] : f = g \/ Apart(f, g)
  <2> SUFFICES ASSUME NEW m \in 2..kNumLevels, NEW f \in M[m], NEW g \in M[m], f # g
               PROVE  Apart(f, g)
    OBVIOUS
  <2>1. m \in 1..kNumLevels
    BY <1>4
  <2>2. \A h, j \in M[m] : Apart(h, j) => Apart(j, h)
    BY DEF Apart
  <2>3. CASE m = l + 1
    BY <1>1, <1>2, <1>3, <2>2, <2>3
  <2>4. CASE m # l + 1
    BY <1>1, <1>2, <2>1, <2>4
  <2> QED
    BY <2>3, <2>4
<1>11. \A m \in 1..kNumLevels : Newer(recent, EntriesOf(M[m]))
  BY <1>1, <1>2, <1>6, <1>7 DEF Newer
<1>12. ASSUME NEW m \in 1..kNumLevels, NEW n \in 1..kNumLevels, m < n,
              NEW a \in EntriesOf(M[m]), NEW b \in EntriesOf(M[n]), a.key = b.key
       PROVE  a.seq > b.seq
  <2>1. CASE a \in EntriesOf(T[m]) /\ b \in EntriesOf(T[n])
    BY <1>2, <1>12, <2>1 DEF Newer
  <2>2. CASE m = l + 1 /\ a \in EntriesOf(O) /\ b \in EntriesOf(T[n])
    <3>1. l < n /\ l + 1 < n
      BY <1>4, <1>12, <2>2
    <3> QED
      BY <1>1, <1>2, <1>6, <1>12, <2>2, <3>1 DEF Newer
  <2>3. CASE a \in EntriesOf(T[m]) /\ n = l + 1 /\ b \in EntriesOf(O)
    <3>1. m < l + 1 /\ (m = l \/ m < l)
      BY <1>4, <1>12, <2>3
    <3>2. PICK g \in I0 \cup I1 : b \in ToSet(g.entries)
      BY <1>5, <2>3, EntryOf
    <3>3. CASE g \in I1
      <4>1. b \in EntriesOf(T[l+1])
        BY <1>3, <3>2, <3>3, EntryOf
      <4> QED
        BY <1>1, <1>2, <1>12, <2>3, <3>1, <4>1 DEF Newer
    <3>4. CASE g \in I0
      <4>1. b \in EntriesOf(T[l])
        BY <1>3, <3>2, <3>4, EntryOf
      <4>2. CASE m < l
        BY <1>1, <1>2, <1>12, <2>3, <4>1, <4>2 DEF Newer
      <4>3. CASE m = l
        <5>1. PICK f \in T[l] \ I0 : a \in ToSet(f.entries)
          BY <1>1, <1>12, <4>3, EntryOf
        <5>2. Apart(g, f) /\ f \in Table /\ g \in Table
          BY <1>1, <1>2, <1>3, <3>4, <5>1
        <5> QED
          BY <1>12, <3>2, <5>1, <5>2, ApartKeys
      <4> QED
        BY <3>1, <4>2, <4>3
    <3> QED
      BY <3>2, <3>3, <3>4
  <2>4. a \in EntriesOf(T[m]) \/ (m = l + 1 /\ a \in EntriesOf(O))
    BY <1>7
  <2>5. b \in EntriesOf(T[n]) \/ (n = l + 1 /\ b \in EntriesOf(O))
    BY <1>7
  <2>6. ~(m = l + 1 /\ n = l + 1)
    BY <1>4, <1>12
  <2> QED
    BY <2>1, <2>2, <2>3, <2>4, <2>5, <2>6
<1>13. \A f, g \in M[1] : f.number > g.number => Newer(ToSet(f.entries), ToSet(g.entries))
  <2>1. 1 \in 1..kNumLevels /\ 1 # l + 1
    BY <1>1, <1>4
  <2> QED
    BY <1>1, <1>2, <2>1
<1>14. \A m, n \in 1..kNumLevels : m < n => Newer(EntriesOf(M[m]), EntriesOf(M[n]))
  BY <1>12 DEF Newer
<1> QED
  BY <1>1, <1>8, <1>9, <1>10, <1>11, <1>13, <1>14 DEF Fine, M

LEMMA EntryOfAll ==
    ASSUME NEW T, NEW e
    PROVE  e \in All(T) <=> \E m \in 1..kNumLevels : e \in EntriesOf(T[m])
BY DEF All, EntriesOf

\* No reader that is left notices a compaction.
LEMMA MergeShows ==
    ASSUME NEW T, NEW recent, NEW old, Fine(T, recent, old), Told(old), recent \subseteq old,
           NEW s \in Nat, Shows(recent \cup All(T), old, s),
           NEW l, NEW I0, NEW I1, Mergeable(T, l, I0, I1), NEW O, Replaces(T, I0 \cup I1, O),
           Forgets(EntriesOf(I0 \cup I1), EntriesOf(O), Deeper(T, l), s)
    PROVE  Shows(recent \cup All(Merged(T, l, I0, I1, O)), old, s)
<1> DEFINE M == Merged(T, l, I0, I1, O)
           In == EntriesOf(I0 \cup I1)
           Out == EntriesOf(O)
           es == recent \cup All(T)
           ds == recent \cup All(M)
<1>1. /\ M \in [1..kNumLevels -> SUBSET Table]
      /\ l \in 1..kNumLevels /\ l + 1 \in 1..kNumLevels
      /\ M[l] = T[l] \ I0 /\ M[l+1] = (T[l+1] \ I1) \cup O
      /\ \A m \in 1..kNumLevels : m # l /\ m # l + 1 => M[m] = T[m]
      /\ I0 \cup I1 \subseteq Table
      /\ \A f \in O : \A g \in T[l+1] \ I1 : Apart(f, g)
      /\ \A f \in I0 : \A g \in T[l+1] \ I1 : Apart(f, g)
      /\ \A m \in 1..kNumLevels : \A f \in M[m] : f \in T[m] \/ (m = l + 1 /\ f \in O)
  BY MergedParts
<1>2. /\ T \in [1..kNumLevels -> SUBSET Table]
      /\ \A m \in 1..kNumLevels : EntriesOf(T[m]) \subseteq old
      /\ \A m \in 2..kNumLevels : \A f, g \in T[m] : f = g \/ Apart(f, g)
      /\ \A m \in 1..kNumLevels : Newer(recent, EntriesOf(T[m]))
      /\ \A m, n \in 1..kNumLevels : m < n => Newer(EntriesOf(T[m]), EntriesOf(T[n]))
  BY DEF Fine
<1>3. /\ Out \subseteq In /\ I0 \subseteq T[l] /\ I1 \subseteq T[l+1]
      /\ \A f \in I0, g \in T[l] \ I0 : Apart(f, g)
  BY DEF Replaces, Mergeable
<1>4. kNumLevels \in Nat /\ l \in Nat /\ 1 \in 1..kNumLevels
  BY <1>1, LevelsAssumption
<1> HIDE DEF M
<1>5. In \subseteq EntriesOf(T[l]) \cup EntriesOf(T[l+1])
  BY <1>3, EntryOf
<1>6. ASSUME NEW m \in 1..kNumLevels
      PROVE  EntriesOf(M[m]) \subseteq EntriesOf(T[m]) \cup Out
  BY <1>1, EntryOf
<1>7. Told(es)
  BY <1>2, EntryOfAll DEF Told
<1>8. ds \in SUBSET es
  <2> SUFFICES ASSUME NEW e \in All(M)
               PROVE  e \in es
    OBVIOUS
  <2>1. PICK m \in 1..kNumLevels : e \in EntriesOf(T[m]) \cup Out
    BY <1>6, EntryOfAll
  <2> QED
    BY <1>1, <1>3, <1>5, <2>1, EntryOfAll
<1>9. Out \subseteq ds
  BY <1>1, EntryOf, EntryOfAll
\* Entries that are taken away are of the inputs.
<1>10. ASSUME NEW n \in es, n \notin ds
       PROVE  n \in In \ Out
  <2>1. PICK m \in 1..kNumLevels : n \in EntriesOf(T[m])
    BY <1>10, EntryOfAll
  <2>2. PICK f \in T[m] : n \in ToSet(f.entries)
    BY <2>1, EntryOf
  <2>3. f \notin M[m]
    BY <1>10, <2>2, EntryOf, EntryOfAll
  <2>4. f \in I0 \cup I1
    BY <1>1, <2>3
  <2> QED
    BY <1>9, <1>10, <2>2, <2>4, EntryOf
<1>11. ASSUME NEW k \in Keys, NEW t \in s..MaxWrites, NEW n \in Seen(es, k, t) \ ds
       PROVE  \/ \E p \in Seen(es, k, t) : p.seq > n.seq
              \/ n.del /\ \A d \in Seen(ds, k, t) : d.seq > n.seq
  <2>1. n \in In \ Out /\ n.key = k /\ n.seq <= t
    BY <1>10 DEF Seen
  <2>2. In \subseteq es
    BY <1>1, <1>5, EntryOfAll
  <2>3. t \in Nat /\ s <= t /\ \A p \in es : p.seq \in Nat
    BY <1>7, KeysAreNumbers, LevelsAssumption DEF Told
  <2>4. CASE \E p \in In : p.key = n.key /\ p.seq > n.seq /\ p.seq <= s
    <3>1. PICK p \in In : p.key = n.key /\ p.seq > n.seq /\ p.seq <= s
      BY <2>4
    <3>2. p \in es /\ p.key = k
      BY <2>1, <2>2, <3>1
    <3>3. p.seq <= t
      <4> HIDE DEF es
      <4> QED
        BY <2>3, <3>1, <3>2
    <3>4. p \in Seen(es, k, t)
      BY <3>2, <3>3 DEF Seen
    <3> QED
      BY <3>1, <3>4
  <2>5. CASE n.del /\ \A d \in Out \cup Deeper(T, l) : d.key = n.key => d.seq > n.seq
    <3> SUFFICES ASSUME NEW d \in Seen(ds, k, t)
                 PROVE  d.seq > n.seq
      BY <2>5
    <3>1. d \in ds /\ d.key = n.key
      BY <2>1 DEF Seen
    <3>2. n \in EntriesOf(T[l]) \/ n \in EntriesOf(T[l+1])
      BY <1>5, <2>1
    <3>3. CASE d \in recent
      BY <1>1, <1>2, <3>1, <3>2, <3>3 DEF Newer
    <3>4. CASE d \in Out
      BY <2>5, <3>1, <3>4
    <3>5. ASSUME NEW m \in 1..kNumLevels, d \in EntriesOf(M[m]), d \notin Out
          PROVE  d.seq > n.seq
      <4>1. PICK g \in M[m] : d \in ToSet(g.entries) /\ g \in T[m] /\ g \in Table
        BY <1>1, <3>5, EntryOf
      <4>2. d \in EntriesOf(T[m])
        BY <4>1, EntryOf
      <4>3. PICK f \in I0 \cup I1 : n \in ToSet(f.entries) /\ f \in Table
        BY <1>1, <2>1, EntryOf
      <4>4. ~Apart(f, g) /\ ~Apart(g, f)
        BY <3>1, <4>1, <4>3, ApartKeys
      <4>5. CASE m < l
        <5>1. m < l + 1
          BY <1>4, <4>5
        <5> QED
          BY <1>1, <1>2, <3>1, <3>2, <4>2, <4>5, <5>1 DEF Newer
      <4>6. CASE m = l
        <5>1. f \notin I0
          BY <1>1, <1>3, <4>1, <4>4, <4>6
        <5>2. n \in EntriesOf(T[l+1])
          BY <1>3, <4>3, <5>1, EntryOf
        <5> QED
          BY <1>1, <1>2, <1>4, <3>1, <4>2, <4>6, <5>2 DEF Newer
      <4>7. CASE m = l + 1
        <5>1. g \notin O
          BY <3>5, <4>1, EntryOf
        <5>2. g \in T[l+1] \ I1
          BY <1>1, <4>1, <4>7, <5>1
        <5>3. f \notin I0
          BY <1>1, <4>4, <5>2
        <5>4. f \in T[l+1] /\ f # g /\ l + 1 \in 2..kNumLevels
          BY <1>1, <1>3, <1>4, <4>3, <5>2, <5>3
        <5> QED
          BY <1>2, <4>4, <5>2, <5>4
      <4>8. CASE m > l + 1
        <5>1. m \in l+2..kNumLevels
          BY <1>4, <4>8
        <5>2. d \in Deeper(T, l)
          BY <4>2, <5>1 DEF Deeper
        <5> QED
          BY <2>5, <3>1, <5>2
      <4> QED
        BY <1>4, <4>5, <4>6, <4>7, <4>8
    <3> QED
      BY <3>1, <3>3, <3>4, <3>5, EntryOfAll
  <2> QED
    BY <2>1, <2>4, <2>5 DEF Forgets
<1> SUFFICES ASSUME NEW k \in Keys, NEW t \in s..MaxWrites
             PROVE  Value(Newest(ds, k, t)) = Value(Newest(old, k, t))
  BY DEF Shows, M
<1>12. Value(Newest(es, k, t)) = Value(Newest(old, k, t))
  BY DEF Shows
<1>13. t \in Nat
  BY LevelsAssumption
<1> HIDE DEF es, ds
<1>14. Value(Newest(ds, k, t)) = Value(Newest(es, k, t))
  BY <1>7, <1>8, <1>11, <1>13, FewerShowTheSame
<1> QED
  BY <1>12, <1>14
-----------------------------------------------------------------------------
(* A memtable becomes a table.                                             *)

Added(T, p, f) == [m \in 1..kNumLevels |-> IF m = p THEN T[m] \cup {f} ELSE T[m]]

LEMMA FlushIsFine ==
    ASSUME NEW T, NEW newer, NEW flushed, NEW old, Fine(T, newer \cup flushed, old),
           Newer(newer, flushed), flushed \subseteq old,
           NEW f \in Table, ToSet(f.entries) = flushed,
           \A m \in 1..kNumLevels : \A g \in T[m] : g.number < f.number,
           NEW p \in 1..kNumLevels,
           p # 1 => \A m \in 1..p : \A g \in T[m] : Apart(f, g)
    PROVE  /\ Fine(Added(T, p, f), newer, old)
           /\ newer \cup All(Added(T, p, f)) = (newer \cup flushed) \cup All(T)
<1> DEFINE A == Added(T, p, f)
<1>1. /\ T \in [1..kNumLevels -> SUBSET Table]
      /\ \A m \in 1..kNumLevels : IsFiniteSet(T[m]) /\ EntriesOf(T[m]) \subseteq old
      /\ \A m, n \in 1..kNumLevels : \A g \in T[m], h \in T[n] : g.number = h.number => m = n /\ g = h
      /\ \A m \in 2..kNumLevels : \A g, h \in T[m] : g = h \/ Apart(g, h)
      /\ \A m \in 1..kNumLevels : Newer(newer \cup flushed, EntriesOf(T[m]))
      /\ \A m, n \in 1..kNumLevels : m < n => Newer(EntriesOf(T[m]), EntriesOf(T[n]))
      /\ \A g, h \in T[1] : g.number > h.number => Newer(ToSet(g.entries), ToSet(h.entries))
  BY DEF Fine
<1>2. /\ kNumLevels \in Nat /\ A[p] = T[p] \cup {f} /\ \A m \in 1..kNumLevels : m # p => A[m] = T[m]
      /\ A \in [1..kNumLevels -> SUBSET Table]
  BY <1>1, LevelsAssumption DEF Added
<1> HIDE DEF A
<1>3. EntriesOf(A[p]) = EntriesOf(T[p]) \cup flushed
      /\ \A m \in 1..kNumLevels : m # p => EntriesOf(A[m]) = EntriesOf(T[m])
  BY <1>2 DEF EntriesOf
<1>4. \A m \in 1..kNumLevels : IsFiniteSet(A[m]) /\ EntriesOf(A[m]) \subseteq old
  <2>1. IsFiniteSet(T[p]) /\ IsFiniteSet({f})
    BY <1>1, FS_Singleton
  <2>2. IsFiniteSet(A[p])
    <3>1. IsFiniteSet(T[p] \cup {f})
      BY <2>1, FS_Union
    <3> QED
      BY <1>2, <3>1
  <2> QED
    BY <1>1, <1>2, <1>3, <2>2
<1>5. \A m, n \in 1..kNumLevels : \A g \in A[m], h \in A[n] : g.number = h.number => m = n /\ g = h
  <2>1. f.number \in Nat /\ \A m \in 1..kNumLevels : \A g \in T[m] : g.number # f.number
    BY Ends
  <2> QED
    BY <1>1, <1>2, <2>1
<1>6. \A m \in 2..kNumLevels : \A g, h \in A[m] : g = h \/ Apart(g, h)
  <2> SUFFICES ASSUME NEW m \in 2..kNumLevels, NEW g \in A[m], NEW h \in A[m], g # h
               PROVE  Apart(g, h)
    OBVIOUS
  <2>1. m \in 1..kNumLevels
    BY <1>2
  <2>2. CASE m = p
    <3>1. \A j \in T[m] : Apart(f, j) /\ Apart(j, f)
      BY <1>2, <2>1, <2>2 DEF Apart
    <3> QED
      BY <1>1, <1>2, <2>2, <3>1
  <2>3. CASE m # p
    BY <1>1, <1>2, <2>1, <2>3
  <2> QED
    BY <2>2, <2>3
<1>7. \A m \in 1..kNumLevels : Newer(newer, EntriesOf(A[m]))
  BY <1>1, <1>3 DEF Newer
<1>8. \A m, n \in 1..kNumLevels : m < n => Newer(EntriesOf(A[m]), EntriesOf(A[n]))
  <2> SUFFICES ASSUME NEW m \in 1..kNumLevels, NEW n \in 1..kNumLevels, m < n,
                      NEW a \in EntriesOf(A[m]), NEW b \in EntriesOf(A[n]), a.key = b.key
               PROVE  a.seq > b.seq
    BY DEF Newer
  <2>1. CASE a \in EntriesOf(T[m]) /\ b \in EntriesOf(T[n])
    BY <1>1, <2>1 DEF Newer
  <2>2. CASE m = p /\ a \in flushed
    <3>1. b \in EntriesOf(T[n])
      BY <1>3, <2>2
    <3> QED
      BY <1>1, <2>2, <3>1 DEF Newer
  <2>3. CASE n = p /\ b \in flushed
    <3>1. a \in EntriesOf(T[m]) /\ m \in 1..p /\ p # 1
      BY <1>2, <1>3, <2>3
    <3>2. PICK g \in T[m] : a \in ToSet(g.entries)
      BY <3>1, EntryOf
    <3>3. Apart(f, g) /\ g \in Table
      BY <1>1, <3>1
    <3> QED
      BY <2>3, <3>2, <3>3, ApartKeys
  <2> QED
    BY <1>3, <2>1, <2>2, <2>3
<1>9. \A g, h \in A[1] : g.number > h.number => Newer(ToSet(g.entries), ToSet(h.entries))
  <2> SUFFICES ASSUME NEW g \in A[1], NEW h \in A[1], g.number > h.number
               PROVE  Newer(ToSet(g.entries), ToSet(h.entries))
    OBVIOUS
  <2>1. 1 \in 1..kNumLevels /\ f.number \in Nat /\ \A j \in T[1] : j.number \in Nat /\ j.number < f.number
    BY <1>1, <1>2, Ends
  <2>2. CASE g \in T[1] /\ h \in T[1]
    BY <1>1, <2>2
  <2>3. CASE g = f /\ h \in T[1]
    <3>1. \A e \in ToSet(h.entries) : e \in EntriesOf(T[1])
      BY <2>3, EntryOf
    <3> QED
      BY <1>1, <2>1, <2>3, <3>1 DEF Newer
  <2> QED
    BY <1>2, <2>1, <2>2, <2>3
<1>10. newer \cup All(A) = (newer \cup flushed) \cup All(T)
  BY <1>3, EntryOfAll
<1> QED
  BY <1>2, <1>4, <1>5, <1>6, <1>7, <1>8, <1>9, <1>10 DEF Fine, A

-----------------------------------------------------------------------------
(* The levels of a version.                                                *)

\* A version with the sets T of tables.
Version(v, recent, old) == Listed(v) /\ Fine(Sets(v), recent, old) /\ Told(old)

LEMMA VersionLevels ==
    ASSUME NEW v, NEW recent, NEW old, Version(v, recent, old), NEW l \in 1..kNumLevels
    PROVE  Level(v[l]) /\ ToSet(v[l]) = Sets(v)[l] /\ (l # 1 => Disjoint(v[l]))
<1>1. v[l] \in Seq(Table) /\ \A i, j \in 1..Len(v[l]) : i < j => BySmallestKey(v[l][i], v[l][j])
  BY DEF Version, Listed
<1>2. ToSet(v[l]) = Sets(v)[l]
  BY DEF Sets
<1>3. EntriesOf(ToSet(v[l])) \subseteq old
  BY <1>2 DEF Version, Fine
<1>4. Told(EntriesOf(ToSet(v[l])))
  BY <1>3, ToldSubset DEF Version
<1>5. Distinct(ToSet(v[l]))
  BY <1>2 DEF Version, Fine, Distinct
<1>6. l # 1 => Disjoint(v[l])
  <2>1. l # 1 => l \in 2..kNumLevels
    BY LevelsAssumption
  <2> QED
    BY <1>2, <2>1 DEF Version, Fine, Disjoint
<1> QED
  BY <1>1, <1>2, <1>4, <1>5, <1>6 DEF Level

LEMMA OneTable ==
    ASSUME NEW f \in Table, Told(ToSet(f.entries))
    PROVE  /\ Level(<<f>>) /\ ToSet(<<f>>) = {f}
           /\ UserRange(<<f>>) = [begin |-> Lo(f), end |-> Hi(f)] /\ UserRange(<<f>>) \in Span
<1>1. ToSet(<<f>>) = {f}
  BY DEF ToSet
<1>2. EntriesOf({f}) = ToSet(f.entries)
  BY DEF EntriesOf
<1>3. Level(<<f>>)
  BY <1>1, <1>2 DEF Level, Distinct
<1>4. /\ UserRange(<<f>>) \in Span /\ Lo(f) = UserRange(<<f>>).begin /\ Hi(f) = UserRange(<<f>>).end
  <2>1. <<f>> \in Seq(Table) /\ <<f>> # <<>>
    OBVIOUS
  <2>2. /\ UserRange(<<f>>) \in Span
        /\ \E g \in ToSet(<<f>>) : Lo(g) = UserRange(<<f>>).begin
        /\ \E g \in ToSet(<<f>>) : Hi(g) = UserRange(<<f>>).end
    BY <2>1, UserRangeSpans
  <2> QED
    BY <1>1, <2>2
<1>5. UserRange(<<f>>) = [begin |-> Lo(f), end |-> Hi(f)]
  BY <1>4 DEF Span
<1> QED
  BY <1>1, <1>3, <1>4, <1>5

LEMMA NoOverlapIsApart ==
    ASSUME NEW f \in Table, NEW g \in Table, ~Overlaps(g, [begin |-> Lo(f), end |-> Hi(f)])
    PROVE  Apart(f, g)
BY Ends DEF Overlaps, Apart, Lo, Hi

\* The levels a memtable's table is put below, and its own, do not overlap it.
LEMMA PickedLevelIsClear ==
    ASSUME NEW v, NEW recent, NEW old, Version(v, recent, old),
           NEW f \in Table, Told(ToSet(f.entries))
    PROVE  LET p == PickLevelForMemTableOutput(v, UserRange(<<f>>))
           IN  /\ p \in 0..kNumLevels-2
               /\ p # 0 => \A m \in 1..p+1 : \A g \in ToSet(v[m]) : Apart(f, g)
<1> DEFINE r == UserRange(<<f>>)
           Stops(level) ==
             \/ level = kMaxMemCompactLevel
             \/ OverlapInLevel(v[level + 2], level + 1, r)
             \/ level + 2 < kNumLevels /\
                TotalFileSize(GetOverlappingInputs(v[level + 3], level + 2, r))
                  > GrandParentFactor * TargetFileSize
           S == {level \in 0..kMaxMemCompactLevel : Stops(level)}
           p == PickLevelForMemTableOutput(v, r)
<1>1. r = [begin |-> Lo(f), end |-> Hi(f)] /\ r \in Span
  BY OneTable
<1> HIDE DEF r
<1>2. kNumLevels \in Nat /\ kMaxMemCompactLevel \in 0..kNumLevels-2
  BY LevelsAssumption
<1>3. p = IF OverlapInLevel(v[1], 0, r) THEN 0 ELSE Min(S)
  BY DEF PickLevelForMemTableOutput
<1>4. kMaxMemCompactLevel \in S
  BY <1>2
<1>5. S \in SUBSET Nat /\ IsFiniteSet(S)
  <2>1. S \in SUBSET (0..kMaxMemCompactLevel) /\ IsFiniteSet(0..kMaxMemCompactLevel)
    BY <1>2, FS_Interval
  <2> HIDE DEF S
  <2>2. IsFiniteSet(S)
    BY <2>1, FS_Subset
  <2>3. 0..kMaxMemCompactLevel \subseteq Nat
    BY <1>2
  <2> QED
    BY <2>1, <2>2, <2>3
<1>6. Min(S) \in S /\ \A x \in S : Min(S) <= x
  <2> HIDE DEF S
  <2> QED
    BY <1>4, <1>5, MinMax
<1>7. \A x \in 0..kMaxMemCompactLevel : x \notin S => ~OverlapInLevel(v[x + 2], x + 1, r)
  OBVIOUS
<1>8. \A x \in S : x \in 0..kMaxMemCompactLevel
  OBVIOUS
<1> HIDE DEF S, p
<1>9. p \in 0..kNumLevels-2
  BY <1>2, <1>3, <1>6, <1>8
<1>10. ASSUME p # 0, NEW m \in 1..p+1, NEW g \in ToSet(v[m])
       PROVE  Apart(f, g)
  <2>1. ~OverlapInLevel(v[1], 0, r) /\ p = Min(S)
    BY <1>3, <1>10
  <2>2. m \in 1..kNumLevels
    BY <1>2, <1>9
  <2>3. Level(v[m]) /\ (m # 1 => Disjoint(v[m])) /\ g \in Table
    BY <2>2, VersionLevels, LevelParts
  <2>4. ~Overlaps(g, r)
    <3>1. CASE m = 1
      <4>1. Hit(v[1], r) = <<>>
        BY <2>1 DEF OverlapInLevel
      <4>2. ToSet(Hit(v[1], r)) = {}
        BY <4>1 DEF ToSet
      <4> QED
        BY <2>3, <3>1, <4>2, HitIsOverlapping
    <3>2. CASE m # 1
      <4> DEFINE x == m - 2
      <4>1. x \in 0..kMaxMemCompactLevel /\ x < p /\ x + 2 = m /\ x + 1 = m - 1 /\ m - 1 \in Nat \ {0}
        BY <1>2, <1>6, <1>8, <1>10, <2>1, <3>2
      <4> HIDE DEF x
      <4>2. x \notin S
        BY <1>2, <1>6, <1>9, <2>1, <4>1
      <4>3. ~OverlapInLevel(v[m], m - 1, r)
        BY <1>7, <4>1, <4>2
      <4> QED
        BY <1>1, <2>3, <3>2, <4>1, <4>3, NoOverlap
    <3> QED
      BY <3>1, <3>2
  <2> QED
    BY <1>1, <2>3, <2>4, NoOverlapIsApart
<1> QED
  BY <1>9, <1>10 DEF p, r
-----------------------------------------------------------------------------
(* Edits.                                                                  *)

\* What the builder saves is the version with the sets that the edit makes.
LEMMA SavedIsListed ==
    ASSUME NEW v \in [1..kNumLevels -> Seq(Table)], NEW del, NEW add, NEW recent, NEW old,
           Fine(After(Sets(v), del, add), recent, old), Told(old)
    PROVE  Listed(SaveTo(v, del, add)) /\ Sets(SaveTo(v, del, add)) = After(Sets(v), del, add)
<1> DEFINE A == After(Sets(v), del, add)
           w == SaveTo(v, del, add)
<1>1. w = [m \in 1..kNumLevels |-> InOrder(A[m], BySmallestKey)]
  BY DEF SaveTo, After, Sets
<1>2. A \in [1..kNumLevels -> SUBSET Table]
  BY DEF Fine
<1>3. A = [m \in 1..kNumLevels |-> A[m]]
  BY <1>2
<1> HIDE DEF A, w
<1>4. ASSUME NEW m \in 1..kNumLevels
      PROVE  /\ w[m] \in Seq(Table) /\ ToSet(w[m]) = A[m]
             /\ \A i, j \in 1..Len(w[m]) : i < j => BySmallestKey(w[m][i], w[m][j])
  <2> DEFINE fs == A[m]
             s == InOrder(fs, BySmallestKey)
  <2>1. fs \in SUBSET Table /\ IsFiniteSet(fs) /\ EntriesOf(fs) \subseteq old /\ Distinct(fs)
    BY <1>2 DEF Fine, Distinct, A
  <2>2. Told(EntriesOf(fs))
    BY <2>1, ToldSubset
  <2> HIDE DEF fs
  <2>3. /\ s \in Seq(fs) /\ ToSet(s) = fs
        /\ \A i, j \in 1..Len(s) : i < j => BySmallestKey(s[i], s[j])
    BY <2>1, <2>2, TablesInOrder
  <2> HIDE DEF s
  <2>4. s \in Seq(Table)
    <3>1. Len(s) \in Nat /\ s = [i \in 1..Len(s) |-> s[i]] /\ \A i \in 1..Len(s) : s[i] \in fs
      BY <2>3
    <3>2. \A i \in 1..Len(s) : s[i] \in Table
      BY <2>1, <3>1
    <3> QED
      BY <3>1, <3>2
  <2>5. w[m] = s
    BY <1>1 DEF s, fs
  <2> QED
    BY <2>3, <2>4, <2>5 DEF fs
<1>5. DOMAIN w = 1..kNumLevels /\ w = [m \in 1..kNumLevels |-> w[m]]
  BY <1>1
<1>6. w \in [1..kNumLevels -> Seq(Table)]
  BY <1>4, <1>5
<1>7. Sets(w) = A
  BY <1>3, <1>4 DEF Sets
<1> QED
  BY <1>4, <1>6, <1>7 DEF Listed, A, w

LEMMA FlushEdit ==
    ASSUME NEW T \in [1..kNumLevels -> SUBSET Table], NEW p \in 0..kNumLevels-1, NEW f
    PROVE  After(T, {}, {<<p, f>>}) = Added(T, p + 1, f)
<1> SUFFICES ASSUME NEW m \in 1..kNumLevels
             PROVE  {g \in T[m] : <<m - 1, g.number>> \notin {}}
                      \cup {a[2] : a \in {b \in {<<p, f>>} : b[1] = m - 1}}
                    = IF m = p + 1 THEN T[m] \cup {f} ELSE T[m]
  BY DEF After, Added
<1>1. {a[2] : a \in {b \in {<<p, f>>} : b[1] = m - 1}} = IF m = p + 1 THEN {f} ELSE {}
  <2>1. kNumLevels \in Nat /\ (p = m - 1 <=> m = p + 1)
    BY LevelsAssumption
  <2>2. \A b : b \in {c \in {<<p, f>>} : c[1] = m - 1} <=> b = <<p, f>> /\ p = m - 1
    OBVIOUS
  <2>3. CASE m = p + 1
    <3>1. {b \in {<<p, f>>} : b[1] = m - 1} = {<<p, f>>}
      BY <2>1, <2>2, <2>3
    <3>2. {a[2] : a \in {<<p, f>>}} = {f}
      OBVIOUS
    <3> QED
      BY <2>3, <3>1, <3>2
  <2>4. CASE m # p + 1
    <3>1. {b \in {<<p, f>>} : b[1] = m - 1} = {}
      BY <2>1, <2>2, <2>4
    <3> QED
      BY <2>4, <3>1
  <2> QED
    BY <2>3, <2>4
<1> QED
  BY <1>1

\* The edit of a compaction of the tables I0 of level l - 1 and I1 of level l.
Removed(l, I0, I1) == {<<l - 1, f.number>> : f \in I0} \cup {<<l, f.number>> : f \in I1}
Placed(l, O) == {<<l, f>> : f \in O}

LEMMA MergeEdit ==
    ASSUME NEW T \in [1..kNumLevels -> SUBSET Table], NEW l \in 1..kNumLevels-1,
           NEW I0 \in SUBSET T[l], NEW I1 \in SUBSET T[l+1], NEW O,
           Distinct(T[l]), Distinct(T[l+1])
    PROVE  After(T, Removed(l, I0, I1), Placed(l, O)) = Merged(T, l, I0, I1, O)
<1>1. kNumLevels \in Nat
  BY LevelsAssumption
<1> SUFFICES ASSUME NEW m \in 1..kNumLevels
             PROVE  {g \in T[m] : <<m - 1, g.number>> \notin Removed(l, I0, I1)}
                      \cup {a[2] : a \in {b \in Placed(l, O) : b[1] = m - 1}}
                    = IF m = l THEN T[m] \ I0 ELSE IF m = l + 1 THEN (T[m] \ I1) \cup O ELSE T[m]
  BY DEF After, Merged
<1>2. {a[2] : a \in {b \in Placed(l, O) : b[1] = m - 1}} = IF m = l + 1 THEN O ELSE {}
  <2>1. l = m - 1 <=> m = l + 1
    BY <1>1
  <2>2. \A b \in Placed(l, O) : b[1] = l /\ b[2] \in O
    BY DEF Placed
  <2>3. \A f \in O : <<l, f>> \in Placed(l, O)
    BY DEF Placed
  <2>4. CASE m = l + 1
    <3>1. {b \in Placed(l, O) : b[1] = m - 1} = Placed(l, O)
      BY <2>1, <2>2, <2>4
    <3>2. \A x \in O : \E a \in Placed(l, O) : a[2] = x
      <4> SUFFICES ASSUME NEW x \in O
                   PROVE  \E a \in Placed(l, O) : a[2] = x
        OBVIOUS
      <4>1. <<l, x>> \in Placed(l, O) /\ <<l, x>>[2] = x
        BY <2>3
      <4> QED
        BY <4>1
    <3>3. {a[2] : a \in Placed(l, O)} = O
      BY <2>2, <3>2
    <3> QED
      BY <2>4, <3>1, <3>3
  <2>5. CASE m # l + 1
    <3>1. {b \in Placed(l, O) : b[1] = m - 1} = {}
      BY <2>1, <2>2, <2>5
    <3> QED
      BY <2>5, <3>1
  <2> QED
    BY <2>4, <2>5
<1>3. \A g : <<m - 1, g.number>> \in Removed(l, I0, I1)
               <=> \/ m = l /\ \E f \in I0 : f.number = g.number
                   \/ m = l + 1 /\ \E f \in I1 : f.number = g.number
  BY <1>1 DEF Removed
<1>4. {g \in T[m] : <<m - 1, g.number>> \notin Removed(l, I0, I1)}
        = IF m = l THEN T[m] \ I0 ELSE IF m = l + 1 THEN T[m] \ I1 ELSE T[m]
  <2>1. CASE m = l
    <3>1. \A g \in T[m] : (\E f \in I0 : f.number = g.number) <=> g \in I0
      BY <2>1 DEF Distinct
    <3>2. m # l + 1
      BY <1>1, <2>1
    <3> QED
      BY <1>3, <2>1, <3>1, <3>2
  <2>2. CASE m = l + 1
    <3>1. \A g \in T[m] : (\E f \in I1 : f.number = g.number) <=> g \in I1
      BY <2>2 DEF Distinct
    <3>2. m # l
      BY <1>1, <2>2
    <3> QED
      BY <1>3, <2>2, <3>1, <3>2
  <2>3. CASE m # l /\ m # l + 1
    BY <1>3, <2>3
  <2> QED
    BY <2>1, <2>2, <2>3
<1>5. m = l => m # l + 1
  BY <1>1
<1> QED
  BY <1>2, <1>4, <1>5

\* A table that is put in place before an edit that does not remove it is there
\* after it too.
LEMMA AfterAdded ==
    ASSUME NEW T \in [1..kNumLevels -> SUBSET Table], NEW p \in 1..kNumLevels, NEW f,
           NEW del, NEW add, <<p - 1, f.number>> \notin del
    PROVE  After(Added(T, p, f), del, add) = Added(After(T, del, add), p, f)
<1> SUFFICES ASSUME NEW m \in 1..kNumLevels
             PROVE  After(Added(T, p, f), del, add)[m] = Added(After(T, del, add), p, f)[m]
  BY DEF After, Added
<1>1. After(Added(T, p, f), del, add)[m]
        = {g \in Added(T, p, f)[m] : <<m - 1, g.number>> \notin del}
             \cup {a[2] : a \in {b \in add : b[1] = m - 1}}
  BY DEF After
<1>2. Added(After(T, del, add), p, f)[m]
        = IF m = p THEN After(T, del, add)[m] \cup {f} ELSE After(T, del, add)[m]
  BY DEF Added
<1>3. After(T, del, add)[m] = {g \in T[m] : <<m - 1, g.number>> \notin del}
                                 \cup {a[2] : a \in {b \in add : b[1] = m - 1}}
  BY DEF After
<1>4. Added(T, p, f)[m] = IF m = p THEN T[m] \cup {f} ELSE T[m]
  BY DEF Added
<1>5. CASE m = p
  <2>1. {g \in T[m] \cup {f} : <<m - 1, g.number>> \notin del}
          = {g \in T[m] : <<m - 1, g.number>> \notin del} \cup {f}
    BY <1>5
  <2> QED
    BY <1>1, <1>2, <1>3, <1>4, <1>5, <2>1
<1>6. CASE m # p
  BY <1>1, <1>2, <1>3, <1>4, <1>6
<1> QED
  BY <1>5, <1>6
-----------------------------------------------------------------------------
(* The inputs of a compaction.                                             *)

LEMMA ConcatParts ==
    ASSUME NEW s \in Seq(Table), NEW t \in Seq(Table)
    PROVE  /\ s \o t \in Seq(Table) /\ ToSet(s \o t) = ToSet(s) \cup ToSet(t)
           /\ s # <<>> => s \o t # <<>>
<1>1. /\ s \o t \in Seq(Table) /\ Len(s) \in Nat /\ Len(t) \in Nat
      /\ Len(s \o t) = Len(s) + Len(t)
      /\ \A i \in 1..Len(s) : (s \o t)[i] = s[i]
      /\ \A i \in 1..Len(t) : (s \o t)[Len(s) + i] = t[i]
  OBVIOUS
<1> DEFINE u == s \o t
<1>2. /\ ToSet(s) = {s[i] : i \in 1..Len(s)} /\ ToSet(t) = {t[i] : i \in 1..Len(t)}
      /\ ToSet(u) = {u[i] : i \in 1..Len(u)}
  BY <1>1, ListIsFinite
<1> HIDE DEF u
<1>3. ASSUME NEW i \in 1..Len(u)
      PROVE  u[i] \in ToSet(s) \cup ToSet(t)
  <2>1. CASE i \in 1..Len(s)
    BY <1>1, <1>2, <2>1 DEF u
  <2>2. CASE i \notin 1..Len(s)
    <3>1. i - Len(s) \in 1..Len(t) /\ i = Len(s) + (i - Len(s))
      BY <1>1, <2>2 DEF u
    <3>2. u[i] = t[i - Len(s)]
      BY <1>1, <3>1 DEF u
    <3> QED
      BY <1>2, <3>1, <3>2
  <2> QED
    BY <2>1, <2>2
<1>4. \A i \in 1..Len(s) : s[i] \in ToSet(u)
  <2> SUFFICES ASSUME NEW i \in 1..Len(s)
               PROVE  s[i] \in ToSet(u)
    OBVIOUS
  <2>1. i \in 1..Len(u) /\ u[i] = s[i]
    BY <1>1 DEF u
  <2> QED
    BY <1>2, <2>1
<1>5. \A i \in 1..Len(t) : t[i] \in ToSet(u)
  <2> SUFFICES ASSUME NEW i \in 1..Len(t)
               PROVE  t[i] \in ToSet(u)
    OBVIOUS
  <2>1. Len(s) + i \in 1..Len(u) /\ u[Len(s) + i] = t[i]
    BY <1>1 DEF u
  <2> QED
    BY <1>2, <2>1
<1>6. ToSet(u) = ToSet(s) \cup ToSet(t)
  BY <1>2, <1>3, <1>4, <1>5
<1>7. s # <<>> => u # <<>>
  BY <1>1 DEF u
<1> QED
  BY <1>1, <1>6, <1>7 DEF u

LEMMA CoveredParts ==
    ASSUME NEW a \in Nat, NEW b \in Nat, NEW c \in Nat, NEW d \in Nat, c <= a, b <= d,
           NEW F, NEW G, F \subseteq G, Covered(c, d, F)
    PROVE  Covered(a, b, G)
<1>1. a..b \subseteq c..d
  OBVIOUS
<1> QED
  BY <1>1 DEF Covered

\* What overlaps a range of keys overlaps a larger one, and a table overlaps any
\* range it is inside of.
LEMMA LargerRange ==
    ASSUME NEW f \in Table, NEW r \in Span, NEW R \in Span, R.begin <= r.begin, r.end <= R.end,
           Overlaps(f, r) \/ Inside(f, r)
    PROVE  Overlaps(f, R)
<1>1. Lo(f) \in Nat /\ Hi(f) \in Nat /\ Lo(f) <= Hi(f)
  BY Ends
<1> QED
  BY <1>1 DEF Overlaps, Inside, Span, Lo, Hi

\* The range of some tables is inside any range they are inside of.
LEMMA RangeInside ==
    ASSUME NEW fs \in Seq(Table), fs # <<>>, NEW R \in Span, \A f \in ToSet(fs) : Inside(f, R)
    PROVE  R.begin <= UserRange(fs).begin /\ UserRange(fs).end <= R.end
BY UserRangeSpans DEF Inside

\* Some tables and those of the next level they overlap.
LEMMA NextLevelIsMergeable ==
    ASSUME NEW v, NEW recent, NEW old, Version(v, recent, old), NEW level \in 0..kNumLevels-2,
           NEW in0, Level(in0), in0 # <<>>, ToSet(in0) \subseteq ToSet(v[level+1]),
           level = 0 => \A f \in ToSet(in0), g \in ToSet(v[1]) \ ToSet(in0) : Apart(f, g)
    PROVE  LET in1 == NextLevelInputs(v, level, in0)
               U == UserRange(in0)
           IN  /\ Level(in1) /\ ToSet(in1) = OverlappingIn(v[level+2], U)
               /\ Mergeable(Sets(v), level + 1, ToSet(in0), ToSet(in1))
               /\ \A G : Covered(U.begin, U.end, G) =>
                     \E H \in Span : /\ \A f \in ToSet(in0) \cup ToSet(in1) : Inside(f, H)
                                     /\ Covered(H.begin, H.end, G \cup ToSet(in1))
<1> DEFINE in1 == NextLevelInputs(v, level, in0)
           U == UserRange(in0)
           H == Widened(in1, U)
<1>1. kNumLevels \in Nat /\ level \in Nat /\ level + 1 \in 1..kNumLevels /\ level + 2 \in 1..kNumLevels
      /\ level + 1 \in 1..kNumLevels-1 /\ level + 2 # 1 /\ level + 1 + 1 = level + 2
  BY LevelsAssumption
<1>2. /\ Level(v[level+1]) /\ ToSet(v[level+1]) = Sets(v)[level+1]
      /\ Level(v[level+2]) /\ ToSet(v[level+2]) = Sets(v)[level+2] /\ Disjoint(v[level+2])
      /\ level # 0 => Disjoint(v[level+1])
  BY <1>1, VersionLevels
<1>3. in0 \in Seq(Table) /\ ToSet(in0) \subseteq Table
  BY LevelParts DEF Level
<1>4. U \in Span /\ \A f \in ToSet(in0) : Inside(f, U)
  BY <1>3, UserRangeSpans
<1>5. Level(in1) /\ ToSet(in1) = OverlappingIn(v[level+2], U)
  <2>1. Reached(v[level+2], level + 1, U) = U
    BY <1>1, <1>2, <1>4, ReachedIsClosed
  <2> QED
    BY <1>2, <2>1, OverlappingInputs DEF NextLevelInputs
<1> HIDE DEF in1, U
<1>6. /\ ToSet(in1) \subseteq Table /\ \A f \in ToSet(in1) : Overlaps(f, U)
      /\ ToSet(in1) \subseteq ToSet(v[level+2]) /\ ToSet(v[level+2]) \subseteq Table
  BY <1>2, <1>5, LevelParts DEF OverlappingIn
<1>7. /\ H \in Span /\ H.begin <= U.begin /\ U.end <= H.end
      /\ \A f \in ToSet(in1) : Inside(f, H)
      /\ H.begin = U.begin \/ \E f \in ToSet(in1) : Lo(f) = H.begin
      /\ H.end = U.end \/ \E f \in ToSet(in1) : Hi(f) = H.end
  BY <1>4, <1>5, WidenedSpans
<1> HIDE DEF H
<1>8. /\ U.begin \in Nat /\ U.end \in Nat /\ H.begin \in Nat /\ H.end \in Nat /\ U.begin <= U.end
  BY <1>4, <1>7 DEF Span
<1>9. \A f \in ToSet(in0) : Inside(f, H)
  <2> SUFFICES ASSUME NEW f \in ToSet(in0)
               PROVE  Inside(f, H)
    OBVIOUS
  <2>1. Lo(f) \in Nat /\ Hi(f) \in Nat
    BY <1>3, Ends
  <2> QED
    BY <1>4, <1>7, <1>8, <2>1 DEF Inside
<1>10. ASSUME NEW g \in ToSet(v[level+2]) \ ToSet(in1)
       PROVE  ~Overlaps(g, H)
  <2>1. g \in Table /\ ~Overlaps(g, U)
    <3>1. g \notin OverlappingIn(v[level+2], U) /\ g \in ToSet(v[level+2])
      BY <1>5
    <3> QED
      BY <1>6, <3>1 DEF OverlappingIn
  <2>2. Lo(g) \in Nat /\ Hi(g) \in Nat /\ Lo(g) <= Hi(g)
    BY <2>1, Ends
  <2>3. ASSUME NEW f \in ToSet(in1)
        PROVE  /\ Apart(f, g) /\ Lo(f) \in Nat /\ Hi(f) \in Nat /\ Lo(f) <= Hi(f)
               /\ Hi(f) >= U.begin /\ Lo(f) <= U.end
    <3>1. f \in Table /\ Overlaps(f, U) /\ f # g /\ f \in ToSet(v[level+2])
      BY <1>6
    <3>2. Apart(f, g)
      BY <1>2, <3>1 DEF Disjoint
    <3> QED
      BY <3>1, <3>2, Ends DEF Overlaps, Lo, Hi
  <2>4. Hi(g) < U.begin \/ Lo(g) > U.end
    BY <1>8, <2>1, <2>2 DEF Overlaps, Lo, Hi
  <2>5. Hi(g) < H.begin \/ Lo(g) > H.end
    <3>1. CASE Hi(g) < U.begin
      <4>1. CASE H.begin = U.begin
        BY <3>1, <4>1
      <4>2. CASE \E f \in ToSet(in1) : Lo(f) = H.begin
        <5>1. PICK f \in ToSet(in1) : Lo(f) = H.begin
          BY <4>2
        <5> QED
          BY <1>8, <2>2, <2>3, <3>1, <5>1 DEF Apart
      <4> QED
        BY <1>7, <4>1, <4>2
    <3>2. CASE Lo(g) > U.end
      <4>1. CASE H.end = U.end
        BY <3>2, <4>1
      <4>2. CASE \E f \in ToSet(in1) : Hi(f) = H.end
        <5>1. PICK f \in ToSet(in1) : Hi(f) = H.end
          BY <4>2
        <5> QED
          BY <1>8, <2>2, <2>3, <3>2, <5>1 DEF Apart
      <4> QED
        BY <1>7, <4>1, <4>2
    <3> QED
      BY <2>4, <3>1, <3>2
  <2> QED
    BY <1>8, <2>2, <2>5 DEF Overlaps, Lo, Hi
<1>11. \A f \in ToSet(in0), g \in ToSet(v[level+1]) \ ToSet(in0) : Apart(f, g)
  <2>1. CASE level = 0
    <3>1. level + 1 = 1
      BY <2>1
    <3> QED
      BY <2>1, <3>1
  <2>2. CASE level # 0
    BY <1>2, <2>2 DEF Disjoint
  <2> QED
    BY <2>1, <2>2
<1>12. Mergeable(Sets(v), level + 1, ToSet(in0), ToSet(in1))
  BY <1>1, <1>2, <1>6, <1>7, <1>9, <1>10, <1>11 DEF Mergeable
<1>13. ASSUME NEW G, Covered(U.begin, U.end, G)
       PROVE  \E h \in Span : /\ \A f \in ToSet(in0) \cup ToSet(in1) : Inside(f, h)
                              /\ Covered(h.begin, h.end, G \cup ToSet(in1))
  <2>1. Covered(H.begin, H.end, G \cup ToSet(in1))
    BY <1>4, <1>5, <1>6, <1>13, WidenedIsCovered DEF H
  <2> QED
    BY <1>7, <1>9, <2>1
<1> QED
  BY <1>5, <1>12, <1>13 DEF in1, U
\* On level 0 what overlaps a range, extended by it, is apart from the rest.
LEMMA ClosedIsApart ==
    ASSUME NEW fs, Level(fs), NEW r \in Span
    PROVE  LET in == GetOverlappingInputs(fs, 0, r)
           IN  \A f \in ToSet(in), g \in ToSet(fs) \ ToSet(in) : Apart(f, g)
<1> DEFINE R == Reached(fs, 0, r)
<1>1. /\ ToSet(GetOverlappingInputs(fs, 0, r)) = OverlappingIn(fs, R)
      /\ R \in Span /\ \A f \in OverlappingIn(fs, R) : Inside(f, R)
  BY OverlappingInputs, ReachedIsClosed
<1> HIDE DEF R
<1> SUFFICES ASSUME NEW f \in OverlappingIn(fs, R), NEW g \in ToSet(fs), g \notin OverlappingIn(fs, R)
             PROVE  Apart(f, g)
  BY <1>1
<1>2. f \in Table /\ g \in Table /\ ~Overlaps(g, R) /\ Inside(f, R)
  BY <1>1, LevelParts DEF OverlappingIn
<1>3. R.begin \in Nat /\ R.end \in Nat
  BY <1>1 DEF Span
<1> QED
  BY <1>2, <1>3, Ends DEF Overlaps, Inside, Apart, Lo, Hi

\* The inputs are covered by what overlaps their range, if the range is covered.
LEMMA OverlappingIsCovered ==
    ASSUME NEW fs, Level(fs), NEW level \in Nat, NEW r \in Span, NEW G,
           Covered(r.begin, r.end, G), GetOverlappingInputs(fs, level, r) # <<>>
    PROVE  LET in == GetOverlappingInputs(fs, level, r)
           IN  Covered(UserRange(in).begin, UserRange(in).end, G \cup ToSet(in))
<1> DEFINE R == Reached(fs, level, r)
           in == GetOverlappingInputs(fs, level, r)
           W == Widened(in, R)
<1>1. /\ ToSet(in) = OverlappingIn(fs, R) /\ Level(in) /\ R \in Span
      /\ Covered(R.begin, R.end, G \cup ToSet(in))
  <2>1. ToSet(in) = OverlappingIn(fs, R) /\ Level(in)
    BY OverlappingInputs
  <2>2. R \in Span
    BY ReachedIsClosed
  <2>3. Covered(R.begin, R.end, G \cup OverlappingIn(fs, R))
    BY ReachedIsCovered
  <2> HIDE DEF R, in
  <2> QED
    BY <2>1, <2>2, <2>3
<1> HIDE DEF R, in
<1>2. \A f \in ToSet(in) : Overlaps(f, R)
  BY <1>1 DEF OverlappingIn
<1>3. W \in Span /\ \A f \in ToSet(in) : Inside(f, W)
  BY <1>1, WidenedSpans
<1>4. Covered(W.begin, W.end, (G \cup ToSet(in)) \cup ToSet(in))
  BY <1>1, <1>2, WidenedIsCovered
<1>5. in \in Seq(Table) /\ in # <<>>
  BY <1>1 DEF Level, in
<1>6. W.begin <= UserRange(in).begin /\ UserRange(in).end <= W.end /\ UserRange(in) \in Span
  BY <1>3, <1>5, RangeInside, UserRangeSpans
<1> HIDE DEF W
<1>7. /\ W.begin \in Nat /\ W.end \in Nat /\ UserRange(in).begin \in Nat /\ UserRange(in).end \in Nat
  BY <1>3, <1>6 DEF Span
<1>8. Covered(UserRange(in).begin, UserRange(in).end, (G \cup ToSet(in)) \cup ToSet(in))
  BY <1>4, <1>6, <1>7, CoveredParts
<1>9. (G \cup ToSet(in)) \cup ToSet(in) = G \cup ToSet(in)
  OBVIOUS
<1> QED
  BY <1>8, <1>9 DEF in

\* A compaction that leads to a version that is right.
Sound(v, c) ==
    /\ c.level \in 0..kNumLevels-2
    /\ Level(c.inputs0) /\ Level(c.inputs1) /\ c.inputs0 # <<>>
    /\ Mergeable(Sets(v), c.level + 1, ToSet(c.inputs0), ToSet(c.inputs1))
    /\ c.grandparents \in Seq(Table)

HullCovered(c) ==
    \E H \in Span : /\ \A f \in ToSet(c.inputs0) \cup ToSet(c.inputs1) : Inside(f, H)
                    /\ Covered(H.begin, H.end, ToSet(c.inputs0) \cup ToSet(c.inputs1))

LEMMA InputsAreSound ==
    ASSUME NEW v, NEW recent, NEW old, Version(v, recent, old), NEW level \in 0..kNumLevels-2,
           NEW in0, Level(in0), in0 # <<>>, NEW in1, Level(in1),
           Mergeable(Sets(v), level + 1, ToSet(in0), ToSet(in1))
    PROVE  LET c == Inputs(v, level, in0, in1)
           IN  /\ Sound(v, c) /\ c.level = level /\ c.inputs0 = in0 /\ c.inputs1 = in1
<1> DEFINE r == UserRange(in0 \o in1)
           g == Below(v, level, r)
<1>1. g \in Seq(Table)
  <2>1. CASE level + 2 < kNumLevels
    <3>1. level + 3 \in 1..kNumLevels
      BY <2>1, LevelsAssumption
    <3>2. Level(v[level+3])
      BY <3>1, VersionLevels
    <3> HIDE DEF r
    <3>3. Level(GetOverlappingInputs(v[level+3], level + 2, r))
      BY <3>2, OverlappingInputs
    <3> QED
      BY <2>1, <3>3 DEF Below, Level
  <2>2. CASE ~(level + 2 < kNumLevels)
    <3>1. <<>> \in Seq(Table)
      OBVIOUS
    <3> QED
      BY <2>2, <3>1 DEF Below
  <2> QED
    BY <2>1, <2>2
<1>2. Inputs(v, level, in0, in1) = [level |-> level, inputs0 |-> in0, inputs1 |-> in1,
                                    pointer |-> Limit(in0), grandparents |-> g]
  BY DEF Inputs
<1> HIDE DEF g
<1> QED
  BY <1>1, <1>2 DEF Sound

\* SetupOtherInputs gives such a compaction, whether it takes more tables or not.
LEMMA SetupIsSound ==
    ASSUME NEW v, NEW recent, NEW old, Version(v, recent, old), NEW level \in 0..kNumLevels-2,
           NEW in0, Level(in0), in0 # <<>>, ToSet(in0) \subseteq ToSet(v[level+1]),
           level = 0 => \A f \in ToSet(in0), g \in ToSet(v[1]) \ ToSet(in0) : Apart(f, g)
    PROVE  LET c == SetupOtherInputs(v, level, in0)
           IN  /\ Sound(v, c) /\ c.level = level
               /\ Covered(UserRange(in0).begin, UserRange(in0).end, ToSet(in0)) => HullCovered(c)
<1> DEFINE in1 == NextLevelInputs(v, level, in0)
           U == UserRange(in0)
           r == UserRange(in0 \o in1)
           ex0 == GetOverlappingInputs(v[level+1], level, r)
           ex1 == NextLevelInputs(v, level, ex0)
           X == UserRange(ex0)
           c == SetupOtherInputs(v, level, in0)
<1>1. kNumLevels \in Nat /\ level \in Nat /\ level + 1 \in 1..kNumLevels /\ level + 2 \in 1..kNumLevels
      /\ level + 1 \in 1..kNumLevels-1
  BY LevelsAssumption
<1>2. /\ Level(in1) /\ ToSet(in1) = OverlappingIn(v[level+2], U)
      /\ Mergeable(Sets(v), level + 1, ToSet(in0), ToSet(in1))
      /\ \A G : Covered(U.begin, U.end, G) =>
            \E H \in Span : /\ \A f \in ToSet(in0) \cup ToSet(in1) : Inside(f, H)
                            /\ Covered(H.begin, H.end, G \cup ToSet(in1))
  BY NextLevelIsMergeable
<1>3. c = IF Grows(in0, in1, ex0, ex1) THEN Inputs(v, level, ex0, ex1) ELSE Inputs(v, level, in0, in1)
  BY DEF SetupOtherInputs, Expand, Chosen, WithNextLevel
<1> HIDE DEF in1, U, c
<1>4. in0 \in Seq(Table) /\ in1 \in Seq(Table)
  BY <1>2 DEF Level
<1>5. /\ in0 \o in1 \in Seq(Table) /\ in0 \o in1 # <<>>
      /\ ToSet(in0 \o in1) = ToSet(in0) \cup ToSet(in1)
  BY <1>4, ConcatParts
<1>6. r \in Span /\ \A f \in ToSet(in0) \cup ToSet(in1) : Inside(f, r)
  BY <1>5, UserRangeSpans
<1>7. Level(v[level+1]) /\ Level(v[level+2]) /\ (level = 0 => v[level+1] = v[1])
  BY <1>1, VersionLevels
<1> HIDE DEF r
\* If the range of the first inputs is covered, so is that of all.
<1>8. ASSUME Covered(U.begin, U.end, ToSet(in0))
      PROVE  \E H \in Span : /\ \A f \in ToSet(in0) \cup ToSet(in1) : Inside(f, H)
                             /\ Covered(H.begin, H.end, ToSet(in0) \cup ToSet(in1))
  BY <1>2, <1>8
<1>9. CASE ~Grows(in0, in1, ex0, ex1)
  <2>1. c = Inputs(v, level, in0, in1)
    BY <1>3, <1>9
  <2>2. Sound(v, c) /\ c.level = level /\ c.inputs0 = in0 /\ c.inputs1 = in1
    BY <1>2, <2>1, InputsAreSound
  <2>3. Covered(U.begin, U.end, ToSet(in0)) => HullCovered(c)
    BY <1>8, <2>2 DEF HullCovered
  <2> QED
    BY <2>2, <2>3 DEF c, U
<1>10. CASE Grows(in0, in1, ex0, ex1)
  <2>1. c = Inputs(v, level, ex0, ex1)
    BY <1>3, <1>10
  <2>2. /\ Level(ex0) /\ ToSet(ex0) = OverlappingIn(v[level+1], Reached(v[level+1], level, r))
        /\ ToSet(ex0) \subseteq ToSet(v[level+1])
    BY <1>7, OverlappingInputs DEF OverlappingIn
  <2>3. ex0 # <<>>
    <3>1. Len(ex0) > Len(in0) /\ Len(in0) \in Nat
      BY <1>4, <1>10 DEF Grows
    <3>2. Len(<<>>) = 0
      OBVIOUS
    <3> HIDE DEF ex0
    <3> QED
      BY <3>1, <3>2
  <2>4. level = 0 => \A f \in ToSet(ex0), g \in ToSet(v[1]) \ ToSet(ex0) : Apart(f, g)
    BY <1>6, <1>7, ClosedIsApart
  <2> HIDE DEF ex0
  <2>5. /\ Level(ex1) /\ ToSet(ex1) = OverlappingIn(v[level+2], X)
        /\ Mergeable(Sets(v), level + 1, ToSet(ex0), ToSet(ex1))
        /\ \A G : Covered(X.begin, X.end, G) =>
              \E H \in Span : /\ \A f \in ToSet(ex0) \cup ToSet(ex1) : Inside(f, H)
                              /\ Covered(H.begin, H.end, G \cup ToSet(ex1))
    BY <2>2, <2>3, <2>4, NextLevelIsMergeable
  <2> HIDE DEF ex1
  <2>6. Sound(v, c) /\ c.level = level /\ c.inputs0 = ex0 /\ c.inputs1 = ex1
    BY <2>1, <2>2, <2>3, <2>5, InputsAreSound
  <2>7. ToSet(in0) \subseteq Table /\ ToSet(in1) \subseteq Table
    BY <1>2, LevelParts
  <2>8. ToSet(in0) \subseteq ToSet(ex0)
    <3> SUFFICES ASSUME NEW f \in ToSet(in0)
                 PROVE  f \in ToSet(ex0)
      OBVIOUS
    <3> DEFINE R == Reached(v[level+1], level, r)
    <3>1. R \in Span /\ R.begin <= r.begin /\ r.end <= R.end
      BY <1>1, <1>6, <1>7, ReachedIsClosed
    <3>2. Inside(f, r) /\ f \in Table /\ f \in ToSet(v[level+1])
      BY <1>6, <2>7
    <3> HIDE DEF R
    <3>3. Overlaps(f, R)
      BY <1>6, <3>1, <3>2, LargerRange
    <3> QED
      BY <2>2, <3>2, <3>3 DEF OverlappingIn, R
  <2>9. /\ U \in Span /\ X \in Span /\ X.begin <= U.begin /\ U.end <= X.end
    <3>1. ex0 \in Seq(Table)
      BY <2>2 DEF Level
    <3>2. X \in Span /\ \A f \in ToSet(ex0) : Inside(f, X)
      BY <2>3, <3>1, UserRangeSpans
    <3> HIDE DEF X
    <3> QED
      BY <1>4, <2>8, <3>2, RangeInside, UserRangeSpans DEF U
  <2>10. ToSet(in1) \subseteq ToSet(ex1)
    <3> SUFFICES ASSUME NEW f \in ToSet(in1)
                 PROVE  f \in ToSet(ex1)
      OBVIOUS
    <3>1. Overlaps(f, U) /\ f \in Table /\ f \in ToSet(v[level+2])
      BY <1>2, <2>7 DEF OverlappingIn
    <3> HIDE DEF X
    <3>2. Overlaps(f, X)
      BY <2>9, <3>1, LargerRange
    <3> QED
      BY <2>5, <3>1, <3>2 DEF OverlappingIn
  <2>11. ASSUME Covered(U.begin, U.end, ToSet(in0))
         PROVE  HullCovered(c)
    <3> DEFINE I == ToSet(in0) \cup ToSet(in1)
    <3>1. PICK H \in Span : (\A f \in I : Inside(f, H)) /\ Covered(H.begin, H.end, I)
      BY <1>8, <2>11
    <3>2. H.begin <= r.begin /\ r.end <= H.end
      BY <1>5, <3>1, RangeInside DEF r
    <3>3. H.begin \in Nat /\ H.end \in Nat /\ r.begin \in Nat /\ r.end \in Nat
      BY <1>6 DEF Span
    <3> HIDE DEF I
    <3>4. Covered(r.begin, r.end, I)
      BY <3>1, <3>2, <3>3, CoveredParts
    <3>5. Covered(X.begin, X.end, I \cup ToSet(ex0))
      BY <1>1, <1>6, <1>7, <2>3, <3>4, OverlappingIsCovered DEF ex0
    <3>6. PICK J \in Span : /\ \A f \in ToSet(ex0) \cup ToSet(ex1) : Inside(f, J)
                            /\ Covered(J.begin, J.end, (I \cup ToSet(ex0)) \cup ToSet(ex1))
      BY <2>5, <3>5
    <3>7. (I \cup ToSet(ex0)) \cup ToSet(ex1) = ToSet(ex0) \cup ToSet(ex1)
      BY <2>8, <2>10 DEF I
    <3> QED
      BY <2>6, <3>6, <3>7 DEF HullCovered
  <2> QED
    BY <2>6, <2>11 DEF c, U
<1> QED
  BY <1>9, <1>10
-----------------------------------------------------------------------------
(* Picking a compaction.                                                   *)

LEMMA TotalIsNumber ==
    ASSUME NEW fs \in Seq(Table)
    PROVE  TotalFileSize(fs) \in Nat /\ (fs = <<>> => TotalFileSize(fs) = 0)
<1> DEFINE n == Len(fs)
           step == [x \in (1..n) \X Nat |-> x[2] + FileSize(fs[x[1]])]
           sum == CHOOSE f : f = [i \in 0..n |-> IF i = 0 THEN 0 ELSE f[i-1] + FileSize(fs[i])]
<1>1. n \in Nat /\ \A i \in 1..n : FileSize(fs[i]) \in Nat
  BY Ends DEF FileSize
<1>2. step \in [(1..n) \X Nat -> Nat]
      /\ \A i \in 1..n, s \in Nat : step[<<i, s>>] = s + FileSize(fs[i])
  BY <1>1
<1>3. TotalFileSize(fs) = sum[n]
  BY DEF TotalFileSize
<1> HIDE DEF step
<1>4. PICK f : Follows(f, Nat, n, 0, step)
  <2> HIDE DEF n
  <2> QED
    BY <1>1, <1>2, Recursion
<1>5. f \in [0..n -> Nat] /\ f[0] = 0 /\ \A i \in 1..n : f[i] = f[i-1] + FileSize(fs[i])
  <2>1. \A i \in 1..n : i - 1 \in 0..n
    BY <1>1
  <2> QED
    BY <1>2, <1>4, <2>1 DEF Follows
<1>6. f = [i \in 0..n |-> IF i = 0 THEN 0 ELSE f[i-1] + FileSize(fs[i])]
  BY <1>1, <1>5
<1>7. sum = [i \in 0..n |-> IF i = 0 THEN 0 ELSE sum[i-1] + FileSize(fs[i])]
  BY <1>6
<1> HIDE DEF sum
<1> DEFINE I == {i \in Nat : i <= n => sum[i] \in Nat}
<1>8. sum[0] = 0 /\ \A i \in 1..n : sum[i] = sum[i-1] + FileSize(fs[i])
  BY <1>1, <1>7
<1>9. ASSUME NEW i \in Nat, i \in I
      PROVE  i + 1 \in I
  <2> SUFFICES ASSUME i + 1 <= n
               PROVE  sum[i+1] \in Nat
    OBVIOUS
  <2>1. i + 1 \in 1..n /\ i + 1 - 1 = i /\ sum[i] \in Nat
    BY <1>1, <1>9
  <2>2. sum[i+1] = sum[i] + FileSize(fs[i+1])
    BY <1>8, <2>1
  <2> QED
    BY <1>1, <2>1, <2>2
<1>10. 0 \in I
  BY <1>8
<1>11. n \in I
  <2> HIDE DEF I
  <2> QED
    BY <1>1, <1>9, <1>10, Induction
<1>12. sum[n] \in Nat
  BY <1>1, <1>11
<1>13. fs = <<>> => n = 0
  OBVIOUS
<1> HIDE DEF n
<1> QED
  BY <1>3, <1>8, <1>12, <1>13

\* Fractions in order.
LEMMA AtLeastOrder ==
    ASSUME NEW a \in Nat \X (Nat \ {0}), NEW b \in Nat \X (Nat \ {0}), NEW c \in Nat \X (Nat \ {0})
    PROVE  /\ AtLeast(a, a) /\ (AtLeast(a, b) \/ AtLeast(b, a))
           /\ AtLeast(a, b) /\ AtLeast(b, c) => AtLeast(a, c)
<1>1. PICK p, q, r, s, t, u : p = a[1] /\ q = a[2] /\ r = b[1] /\ s = b[2] /\ t = c[1] /\ u = c[2]
  OBVIOUS
<1>2. /\ p \in Nat /\ q \in Nat /\ r \in Nat /\ s \in Nat /\ t \in Nat /\ u \in Nat
      /\ q > 0 /\ s > 0 /\ u > 0
  BY <1>1
<1>3. p * s \in Nat /\ r * q \in Nat
  BY <1>2
<1>4. p * s >= r * q \/ r * q >= p * s
  BY <1>3
<1>5. ASSUME p * s >= r * q, r * u >= t * s
      PROVE  p * u >= t * q
  <2>1. (p * s) * u >= (r * q) * u
    BY <1>2, <1>3, <1>5
  <2>2. (r * u) * q >= (t * s) * q
    BY <1>2, <1>5
  <2>3. (p * u) * s >= (t * q) * s
    BY <1>2, <2>1, <2>2
  <2>4. p * u \in Nat /\ t * q \in Nat
    BY <1>2
  <2>5. PICK x, y : x = p * u /\ y = t * q
    OBVIOUS
  <2>6. x \in Nat /\ y \in Nat /\ x * s >= y * s
    BY <2>3, <2>4, <2>5
  <2>7. x >= y
    BY <1>2, <2>6
  <2> QED
    BY <2>5, <2>7
<1> QED
  BY <1>1, <1>2, <1>3, <1>4, <1>5 DEF AtLeast

LEMMA GreatestScore ==
    ASSUME use \in Uses, NEW v \in [1..kNumLevels -> Seq(Table)]
    PROVE  /\ \A l \in 0..kNumLevels-2 : Score(v, l) \in Nat \X (Nat \ {0})
           /\ CompactionLevel(v) \in 0..kNumLevels-2
           /\ SizeCompaction(v) => v[CompactionLevel(v) + 1] # <<>>
<1> DEFINE n == kNumLevels - 2
           Greatest(l, k) == \A m \in 0..k : AtLeast(Score(v, l), Score(v, m))
           I == {k \in Nat : k <= n => \E l \in 0..k : Greatest(l, k)}
           G == {l \in 0..n : Greatest(l, n)}
<1>1. n \in Nat /\ kNumLevels \in Nat
  BY LevelsAssumption
<1>2. use.trigger \in Nat \ {0}
  BY LevelsAssumption DEF Use
<1>3. ASSUME NEW l \in 0..n
      PROVE  /\ Score(v, l) \in Nat \X (Nat \ {0})
             /\ v[l+1] = <<>> => Score(v, l)[1] = 0
  <2>1. l + 1 \in 1..kNumLevels /\ v[l+1] \in Seq(Table)
    BY <1>1
  <2>2. CASE l = 0
    BY <1>2, <2>1, <2>2 DEF Score, kL0_CompactionTrigger
  <2>3. CASE l # 0
    <3>1. MaxBytesForLevel[l] \in Nat \ {0}
      BY <1>1, <2>3, LevelsAssumption
    <3>2. TotalFileSize(v[l+1]) \in Nat /\ (v[l+1] = <<>> => TotalFileSize(v[l+1]) = 0)
      BY <2>1, TotalIsNumber
    <3> QED
      BY <2>3, <3>1, <3>2 DEF Score
  <2> QED
    BY <2>2, <2>3
<1>4. 0 \in I
  <2>1. 0 \in 0..n
    BY <1>1
  <2>2. Greatest(0, 0)
    BY <1>3, <2>1, AtLeastOrder
  <2> HIDE DEF Greatest
  <2> QED
    BY <2>2
<1>5. ASSUME NEW k \in Nat, k \in I
      PROVE  k + 1 \in I
  <2> SUFFICES ASSUME k + 1 <= n
               PROVE  \E l \in 0..k+1 : Greatest(l, k + 1)
    <3> HIDE DEF Greatest
    <3> QED
      OBVIOUS
  <2>1. PICK l \in 0..k : Greatest(l, k)
    BY <1>1, <1>5
  <2>2. \A m \in 0..k+1 : m \in 0..n /\ (m \in 0..k \/ m = k + 1)
    BY <1>1
  <2>3. l \in 0..n /\ k + 1 \in 0..n /\ l \in 0..k+1 /\ k + 1 \in 0..k+1
    BY <1>1
  <2>4. CASE AtLeast(Score(v, l), Score(v, k + 1))
    <3>1. Greatest(l, k + 1)
      BY <2>1, <2>2, <2>4
    <3> HIDE DEF Greatest
    <3> QED
      BY <2>3, <3>1
  <2>5. CASE AtLeast(Score(v, k + 1), Score(v, l))
    <3>1. \A m \in 0..k : AtLeast(Score(v, k + 1), Score(v, m))
      <4> SUFFICES ASSUME NEW m \in 0..k
                   PROVE  AtLeast(Score(v, k + 1), Score(v, m))
        OBVIOUS
      <4>1. m \in 0..n /\ AtLeast(Score(v, l), Score(v, m))
        BY <1>1, <2>1
      <4> QED
        BY <1>3, <2>3, <2>5, <4>1, AtLeastOrder
    <3>2. AtLeast(Score(v, k + 1), Score(v, k + 1))
      BY <1>3, <2>3, AtLeastOrder
    <3>3. Greatest(k + 1, k + 1)
      BY <2>2, <3>1, <3>2
    <3> HIDE DEF Greatest
    <3> QED
      BY <2>3, <3>3
  <2> QED
    BY <1>3, <2>3, <2>4, <2>5, AtLeastOrder
<1>6. \E l \in 0..n : Greatest(l, n)
  <2>1. n \in I
    <3> HIDE DEF I
    <3> QED
      BY <1>1, <1>4, <1>5, Induction
  <2> HIDE DEF Greatest
  <2> QED
    BY <1>1, <2>1
<1>7. G \in SUBSET Nat /\ IsFiniteSet(G) /\ G # {}
  <2>1. G \in SUBSET (0..n) /\ IsFiniteSet(0..n) /\ G # {} /\ 0..n \subseteq Nat
    <3> HIDE DEF Greatest
    <3>1. G \subseteq 0..n /\ G # {} /\ 0..n \subseteq Nat
      BY <1>1, <1>6
    <3>2. IsFiniteSet(0..n)
      BY <1>1, FS_Interval
    <3> QED
      BY <3>1, <3>2
  <2> HIDE DEF G
  <2>2. IsFiniteSet(G)
    BY <2>1, FS_Subset
  <2> QED
    BY <2>1, <2>2
<1>8. CompactionLevel(v) = Min(G)
  BY DEF CompactionLevel
<1>9. Min(G) \in G
  <2> HIDE DEF G
  <2> QED
    BY <1>7, MinMax
<1>10. CompactionLevel(v) \in 0..n
  <2> HIDE DEF Greatest
  <2> QED
    BY <1>8, <1>9
<1>11. ASSUME SizeCompaction(v)
       PROVE  v[CompactionLevel(v) + 1] # <<>>
  <2> DEFINE l == CompactionLevel(v)
  <2>1. l \in 0..n
    BY <1>10
  <2> HIDE DEF l
  <2>2. AtLeast(Score(v, l), <<1, 1>>)
    BY <1>11 DEF SizeCompaction, l
  <2>3. PICK a, b : a = Score(v, l)[1] /\ b = Score(v, l)[2]
    OBVIOUS
  <2>4. a \in Nat /\ b \in Nat \ {0}
    BY <1>3, <2>1, <2>3
  <2>5. a * 1 >= 1 * b
    BY <2>2, <2>3 DEF AtLeast
  <2>6. a # 0
    BY <2>4, <2>5
  <2> QED
    BY <1>3, <2>1, <2>3, <2>6 DEF l
<1> QED
  BY <1>3, <1>10, <1>11

\* The level and the table that are picked are there.
LEMMA PickedIsThere ==
    ASSUME NEW recent, NEW old, Version(files, recent, old), use \in Uses, Charged, NeedsCompaction
    PROVE  /\ PickLevel(files) \in 0..kNumLevels-2
           /\ PickFile(files, PickLevel(files)) \in ToSet(files[PickLevel(files) + 1])
<1> DEFINE l == PickLevel(files)
           fs == files[l + 1]
           p == compact_pointer[l + 1]
           b == Behind(fs, p)
<1>1. files \in [1..kNumLevels -> Seq(Table)]
  BY DEF Version, Listed
<1>2. CASE SizeCompaction(files)
  <2>1. l = CompactionLevel(files) /\ l \in 0..kNumLevels-2 /\ fs # <<>>
    BY <1>1, <1>2, GreatestScore DEF PickLevel
  <2>2. l + 1 \in 1..kNumLevels
    BY <2>1, LevelsAssumption
  <2> HIDE DEF l
  <2>3. Level(fs)
    BY <2>2, VersionLevels
  <2> HIDE DEF fs, p
  <2> DEFINE S == {f \in ToSet(fs) : p = None \/ Less(p, Largest(f))}
  <2>4. S \subseteq ToSet(fs) /\ ToSet(fs) \subseteq Table /\ IsFiniteSet(ToSet(fs))
    BY <2>3, LevelParts
  <2>5. b = InOrder(S, BySmallestKey)
    BY DEF Behind
  <2> HIDE DEF S, b
  <2>6. S \in SUBSET Table /\ IsFiniteSet(S) /\ Distinct(S)
    BY <2>3, <2>4, FS_Subset DEF Level, Distinct
  <2>7. Told(EntriesOf(S))
    BY <2>3, <2>4 DEF Level, Told, EntriesOf
  <2>8. b \in Seq(S) /\ ToSet(b) = S
    BY <2>5, <2>6, <2>7, TablesInOrder
  <2>9. fs \in Seq(Table) /\ b \in Seq(Table)
    <3>1. Len(b) \in Nat /\ b = [i \in 1..Len(b) |-> b[i]] /\ \A i \in 1..Len(b) : b[i] \in S
      BY <2>8
    <3>2. \A i \in 1..Len(b) : b[i] \in Table
      BY <2>6, <3>1
    <3> QED
      BY <2>3, <3>1, <3>2 DEF Level
  <2> DEFINE u == b \o fs
  <2>10. u \in Seq(Table) /\ ToSet(u) = ToSet(b) \cup ToSet(fs)
    BY <2>9, ConcatParts
  <2>11. u # <<>>
    <3>1. Len(fs) \in Nat \ {0} /\ Len(b) \in Nat /\ Len(u) = Len(b) + Len(fs)
      BY <2>1, <2>9
    <3>2. Len(u) # 0
      BY <3>1
    <3> QED
      BY <3>2
  <2> HIDE DEF u
  <2>12. Head(u) = u[1] /\ 1 \in 1..Len(u)
    BY <2>10, <2>11
  <2>13. Head(u) \in ToSet(fs)
    BY <2>4, <2>8, <2>10, <2>12, ListIsFinite
  <2>14. PickFile(files, l) = Head(u)
    BY <1>2 DEF PickFile, u, b, fs, p
  <2> QED
    BY <2>1, <2>13, <2>14 DEF l, fs
<1>3. CASE ~SizeCompaction(files)
  <2>1. file_to_compact # None
    BY <1>3 DEF NeedsCompaction
  <2>2. l = file_to_compact.level
    BY <1>3 DEF PickLevel
  <2>3. l \in 0..kNumLevels-2 /\ \E f \in ToSet(fs) : f.number = file_to_compact.number
    BY <2>1, <2>2 DEF Charged
  <2>4. PickFile(files, l) = CHOOSE f \in ToSet(fs) : f.number = file_to_compact.number
    BY <1>3 DEF PickFile
  <2> HIDE DEF l
  <2>5. PickFile(files, l) \in ToSet(fs)
    BY <2>3, <2>4
  <2> QED
    BY <2>3, <2>5 DEF l
<1> QED
  BY <1>2, <1>3
LEMMA PickIsSound ==
    ASSUME NEW recent, NEW old, Version(files, recent, old), use \in Uses, Charged, NeedsCompaction
    PROVE  Sound(files, PickCompaction(files)) /\ HullCovered(PickCompaction(files))
<1> DEFINE l == PickLevel(files)
           fs == files[l + 1]
           f == PickFile(files, l)
           in0 == PickInputs(files, l, f)
<1>1. l \in 0..kNumLevels-2 /\ f \in ToSet(fs)
  BY PickedIsThere
<1>2. PickCompaction(files) = SetupOtherInputs(files, l, in0)
  BY DEF PickCompaction, PickAt
<1> HIDE DEF l, f
<1>3. l + 1 \in 1..kNumLevels /\ l \in Nat
  BY <1>1, LevelsAssumption
<1>4. Level(fs)
  BY <1>3, VersionLevels
<1> HIDE DEF fs
<1>5. f \in Table /\ Told(ToSet(f.entries))
  <2>1. f \in Table
    BY <1>1, <1>4, LevelParts
  <2>2. ToSet(f.entries) \subseteq EntriesOf(ToSet(fs))
    BY <1>1 DEF EntriesOf
  <2> QED
    BY <1>4, <2>1, <2>2, ToldSubset DEF Level
<1>6. /\ Level(<<f>>) /\ ToSet(<<f>>) = {f} /\ UserRange(<<f>>) \in Span
      /\ UserRange(<<f>>) = [begin |-> Lo(f), end |-> Hi(f)]
  BY <1>5, OneTable
<1> DEFINE r == UserRange(<<f>>)
<1>7. Covered(r.begin, r.end, {f})
  BY <1>5, <1>6, Ends DEF Covered
<1> HIDE DEF r
<1>8. /\ Level(in0) /\ in0 # <<>> /\ ToSet(in0) \subseteq ToSet(fs)
      /\ l = 0 => \A g \in ToSet(in0), h \in ToSet(fs) \ ToSet(in0) : Apart(g, h)
      /\ Covered(UserRange(in0).begin, UserRange(in0).end, ToSet(in0))
  <2>1. CASE l > 0
    <3>1. in0 = <<f>>
      BY <2>1 DEF PickInputs
    <3> HIDE DEF in0
    <3>2. l # 0
      BY <2>1
    <3> QED
      BY <1>1, <1>6, <1>7, <3>1, <3>2 DEF r
  <2>2. CASE l = 0
    <3>1. in0 = GetOverlappingInputs(fs, 0, r)
      BY <2>2 DEF PickInputs, fs, r
    <3> HIDE DEF in0
    <3>2. r \in Span
      BY <1>6 DEF r
    <3>3. \A g \in ToSet(in0), h \in ToSet(fs) \ ToSet(in0) : Apart(g, h)
      BY <1>4, <3>1, <3>2, ClosedIsApart
    <3> DEFINE R == Reached(fs, 0, r)
    <3>4. Level(in0) /\ ToSet(in0) = OverlappingIn(fs, R)
      BY <1>4, <3>1, OverlappingInputs
    <3>5. R \in Span /\ R.begin <= r.begin /\ r.end <= R.end
      BY <1>4, <3>2, ReachedIsClosed
    <3> HIDE DEF R
    <3>6. Inside(f, r)
      BY <1>5, <1>6, Ends DEF Inside, r
    <3>7. f \in ToSet(in0)
      BY <1>1, <1>5, <3>2, <3>4, <3>5, <3>6, LargerRange DEF OverlappingIn
    <3>8. in0 # <<>>
      BY <3>7 DEF ToSet
    <3>9. Covered(UserRange(in0).begin, UserRange(in0).end, {f} \cup ToSet(in0))
      BY <1>4, <1>7, <3>1, <3>2, <3>8, OverlappingIsCovered
    <3>10. {f} \cup ToSet(in0) = ToSet(in0)
      BY <3>7
    <3> QED
      BY <3>3, <3>4, <3>8, <3>9, <3>10 DEF OverlappingIn
  <2> QED
    BY <1>3, <2>1, <2>2
<1> HIDE DEF in0
<1>9. l = 0 => \A g \in ToSet(in0), h \in ToSet(files[1]) \ ToSet(in0) : Apart(g, h)
  BY <1>8 DEF fs
<1>10. LET c == SetupOtherInputs(files, l, in0)
       IN  /\ Sound(files, c)
           /\ Covered(UserRange(in0).begin, UserRange(in0).end, ToSet(in0)) => HullCovered(c)
  BY <1>1, <1>8, <1>9, SetupIsSound DEF fs
<1> QED
  BY <1>2, <1>8, <1>10

\* A piece of a level is in order too.
LEMMA PieceIsLevel ==
    ASSUME NEW in, Level(in), NEW level \in Nat, use \in Uses, in # <<>>
    PROVE  LET p == Piece(level, in)
           IN  Level(p) /\ ToSet(p) \subseteq ToSet(in) /\ (level = 0 => p = in)
<1> DEFINE p == Piece(level, in)
           E == Enough(in)
<1>1. in \in Seq(Table) /\ Len(in) \in Nat
  BY DEF Level
<1>2. CASE level = 0 \/ E = {}
  BY <1>2 DEF Piece
<1>3. CASE ~(level = 0 \/ E = {})
  <2>1. p = SubSeq(in, 1, Min(E))
    BY <1>3 DEF Piece
  <2>2. E \in SUBSET (1..Len(in)) /\ IsFiniteSet(1..Len(in))
    <3>1. DOMAIN in = 1..Len(in)
      BY <1>1
    <3>2. E \subseteq DOMAIN in
      BY DEF Enough
    <3>3. IsFiniteSet(1..Len(in))
      BY <1>1, FS_Interval
    <3> QED
      BY <3>1, <3>2, <3>3
  <2>3. E # {}
    BY <1>3
  <2> HIDE DEF E
  <2>4. IsFiniteSet(E) /\ E \in SUBSET Nat
    <3>1. IsFiniteSet(E)
      BY <2>2, FS_Subset
    <3>2. 1..Len(in) \subseteq Nat
      BY <1>1
    <3> QED
      BY <2>2, <3>1, <3>2
  <2>5. Min(E) \in 1..Len(in)
    BY <2>2, <2>3, <2>4, MinMax
  <2> DEFINE n == Min(E)
  <2>6. n \in 1..Len(in)
    BY <2>5
  <2> HIDE DEF n
  <2>7. Len(p) = n /\ p \in Seq(Table) /\ \A i \in 1..n : p[i] = in[i]
    BY <1>1, <2>1, <2>6 DEF n
  <2> HIDE DEF p
  <2>8. \A i \in 1..n : i \in 1..Len(in)
    BY <1>1, <2>6
  <2>9. ToSet(p) \subseteq ToSet(in)
    BY <1>1, <2>7, <2>8, ListIsFinite
  <2>10. \A i, j \in 1..Len(p) : i < j => BySmallestKey(p[i], p[j])
    BY <2>7, <2>8 DEF Level
  <2>11. Told(EntriesOf(ToSet(p))) /\ Distinct(ToSet(p))
    <3>1. EntriesOf(ToSet(p)) \subseteq EntriesOf(ToSet(in))
      BY <2>9 DEF EntriesOf
    <3> QED
      BY <2>9, <3>1, ToldSubset DEF Level, Distinct
  <2>12. Level(p)
    BY <2>7, <2>10, <2>11 DEF Level
  <2> QED
    BY <1>3, <2>9, <2>12 DEF p
<1> QED
  BY <1>2, <1>3

LEMMA RangeIsSound ==
    ASSUME NEW v, NEW recent, NEW old, Version(v, recent, old), use \in Uses,
           NEW level \in 0..kNumLevels-2, NEW r \in Span, CompactRange(v, level, r) # <<>>
    PROVE  Sound(v, SetupOtherInputs(v, level, CompactRange(v, level, r)))
<1> DEFINE in == GetOverlappingInputs(v[level+1], level, r)
           p == CompactRange(v, level, r)
<1>1. level + 1 \in 1..kNumLevels /\ level \in Nat
  BY LevelsAssumption
<1>2. Level(v[level+1])
  BY <1>1, VersionLevels
<1>3. Level(in) /\ ToSet(in) \subseteq ToSet(v[level+1])
  BY <1>2, OverlappingInputs DEF OverlappingIn
<1>4. p = Piece(level, in)
  BY DEF CompactRange
<1>5. level = 0 => \A f \in ToSet(in), g \in ToSet(v[1]) \ ToSet(in) : Apart(f, g)
  <2> SUFFICES ASSUME level = 0
               PROVE  \A f \in ToSet(in), g \in ToSet(v[1]) \ ToSet(in) : Apart(f, g)
    OBVIOUS
  <2>1. level + 1 = 1 /\ Level(v[1])
    BY <1>2
  <2> QED
    BY <2>1, ClosedIsApart
<1> HIDE DEF in
<1>6. in # <<>>
  <2> SUFFICES ASSUME in = <<>>
               PROVE  p = <<>>
    OBVIOUS
  <2>1. Enough(in) = {}
    BY DEF Enough
  <2> QED
    BY <1>4, <2>1 DEF Piece
<1>7. Level(p) /\ ToSet(p) \subseteq ToSet(v[level+1])
      /\ (level = 0 => \A f \in ToSet(p), g \in ToSet(v[1]) \ ToSet(p) : Apart(f, g))
  BY <1>1, <1>3, <1>4, <1>5, <1>6, PieceIsLevel
<1> HIDE DEF p
<1>8. Sound(v, SetupOtherInputs(v, level, p))
  BY <1>7, SetupIsSound DEF p
<1> QED
  BY <1>8 DEF p
-----------------------------------------------------------------------------
(* The outputs of a compaction.                                            *)

\* Entries in order, cut into outputs in order.
Rising(s) == \A i, j \in 1..Len(s) : i < j => Less(s[i], s[j])
Holds(outs) == UNION {ToSet(outs[a]) : a \in 1..Len(outs)}
Parts(outs, K) ==
    /\ outs \in Seq(Seq(Update)) /\ Holds(outs) = K
    /\ \A a \in 1..Len(outs) : Rising(outs[a])
    /\ \A a, b \in 1..Len(outs) : a < b =>
          \A d \in ToSet(outs[a]), e \in ToSet(outs[b]) : Less(d, e)

\* The last output is under way, the others are not empty.
Splits(outs, K) ==
    /\ Parts(outs, K) /\ outs # <<>>
    /\ \A a \in 1..Len(outs) : outs[a] = <<>> => a = Len(outs)

LEMMA CutSplits ==
    ASSUME NEW outs, NEW K, Splits(outs, K), Last(outs) # <<>>
    PROVE  Splits(Append(outs, <<>>), K)
<1> DEFINE n == Len(outs)
           o == Append(outs, <<>>)
<1>1. outs \in Seq(Seq(Update)) /\ n \in Nat /\ n # 0 /\ outs[n] # <<>>
  BY DEF Splits, Parts, Last
<1>2. /\ o \in Seq(Seq(Update)) /\ Len(o) = n + 1 /\ o[n+1] = <<>>
      /\ \A a \in 1..n : o[a] = outs[a]
  BY <1>1
<1> HIDE DEF o
<1>3. /\ \A a \in 1..n+1 : a \in 1..n \/ a = n + 1
      /\ 1..n \subseteq 1..n+1 /\ n + 1 \in 1..n+1
  BY <1>1
<1>4. ToSet(<<>>) = {} /\ Rising(<<>>)
  BY DEF ToSet, Rising
<1>5. Holds(o) = Holds(outs)
  BY <1>2, <1>3, <1>4 DEF Holds
<1>6. \A a \in 1..Len(o) : Rising(o[a])
  BY <1>2, <1>3, <1>4 DEF Splits, Parts
<1>7. \A a, b \in 1..Len(o) : a < b => \A d \in ToSet(o[a]), e \in ToSet(o[b]) : Less(d, e)
  BY <1>2, <1>3, <1>4 DEF Splits, Parts
<1>8. \A a \in 1..Len(o) : o[a] = <<>> => a = Len(o)
  <2>1. \A a \in 1..n : outs[a] # <<>>
    BY <1>1 DEF Splits
  <2> QED
    BY <1>2, <1>3, <2>1
<1>9. o # <<>>
  BY <1>1, <1>2
<1> QED
  BY <1>2, <1>5, <1>6, <1>7, <1>8, <1>9 DEF Splits, Parts, o

LEMMA PutSplits ==
    ASSUME NEW outs, NEW K, Splits(outs, K), NEW e \in Update, \A d \in K : Less(d, e)
    PROVE  Splits(Put(outs, e), K \cup {e}) /\ Last(Put(outs, e)) # <<>>
<1> DEFINE n == Len(outs)
           o == Put(outs, e)
           s == outs[n]
           t == Append(s, e)
<1>1. /\ outs \in Seq(Seq(Update)) /\ n \in Nat /\ n # 0 /\ Holds(outs) = K
      /\ n \in 1..n /\ s \in Seq(Update)
  BY DEF Splits, Parts
<1>2. /\ t \in Seq(Update) /\ Len(t) = Len(s) + 1 /\ t[Len(s) + 1] = e /\ Len(s) \in Nat
      /\ \A i \in 1..Len(s) : t[i] = s[i]
  BY <1>1
<1> HIDE DEF t
<1>3. /\ o \in Seq(Seq(Update)) /\ Len(o) = n /\ o[n] = t
      /\ \A a \in 1..n : a # n => o[a] = outs[a]
  BY <1>1, <1>2 DEF Put, t
<1> HIDE DEF o, s
<1>4. /\ \A i \in 1..Len(t) : i \in 1..Len(s) \/ i = Len(s) + 1
      /\ \A i \in 1..Len(s) : i \in 1..Len(t) /\ i # Len(s) + 1
      /\ Len(s) + 1 \in 1..Len(t)
  BY <1>2
<1>5. ToSet(t) = ToSet(s) \cup {e}
  <2>1. ToSet(t) = {t[i] : i \in 1..Len(t)} /\ ToSet(s) = {s[i] : i \in 1..Len(s)}
    BY <1>1, <1>2, ListIsFinite
  <2>2. \A x \in ToSet(t) : x \in ToSet(s) \cup {e}
    BY <1>2, <1>4, <2>1
  <2>3. \A i \in 1..Len(s) : s[i] \in ToSet(t)
    BY <1>2, <1>4, <2>1
  <2>4. e \in ToSet(t)
    BY <1>2, <1>4, <2>1
  <2> QED
    BY <2>1, <2>2, <2>3, <2>4
<1>6. ToSet(s) \subseteq K
  BY <1>1 DEF Holds, s
<1>7. Rising(t)
  <2> SUFFICES ASSUME NEW i \in 1..Len(t), NEW j \in 1..Len(t), i < j
               PROVE  Less(t[i], t[j])
    BY DEF Rising
  <2>1. i \in 1..Len(s)
    BY <1>2
  <2>2. s[i] \in ToSet(s) /\ t[i] = s[i]
    BY <1>1, <1>2, <2>1, ListIsFinite
  <2>3. CASE j \in 1..Len(s)
    <3>1. Rising(s)
      BY <1>1 DEF Splits, Parts, s
    <3> QED
      BY <1>2, <2>1, <2>3, <3>1 DEF Rising
  <2>4. CASE j = Len(s) + 1
    BY <1>2, <1>6, <2>2, <2>4
  <2> QED
    BY <1>4, <2>3, <2>4
<1>8. Holds(o) = K \cup {e}
  <2>1. \A x \in Holds(o) : x \in K \cup {e}
    <3> SUFFICES ASSUME NEW a \in 1..n, NEW x \in ToSet(o[a])
                 PROVE  x \in K \cup {e}
      BY <1>3 DEF Holds
    <3>1. CASE a = n
      BY <1>3, <1>5, <1>6, <3>1
    <3>2. CASE a # n
      BY <1>1, <1>3, <3>2 DEF Holds
    <3> QED
      BY <3>1, <3>2
  <2>2. \A x \in K \cup {e} : x \in Holds(o)
    <3>1. \A a \in 1..n : ToSet(outs[a]) \subseteq ToSet(o[a])
      BY <1>3, <1>5 DEF s
    <3>2. e \in ToSet(o[n])
      BY <1>3, <1>5
    <3>3. \A x \in K : \E a \in 1..n : x \in ToSet(outs[a])
      BY <1>1 DEF Holds
    <3>4. \A x \in K \cup {e} : \E a \in 1..n : x \in ToSet(o[a])
      BY <1>1, <3>1, <3>2, <3>3
    <3> QED
      BY <1>3, <3>4 DEF Holds
  <2> QED
    BY <2>1, <2>2
<1>9. \A a \in 1..Len(o) : Rising(o[a])
  BY <1>3, <1>7 DEF Splits, Parts
<1>10. \A a, b \in 1..Len(o) : a < b => \A d \in ToSet(o[a]), f \in ToSet(o[b]) : Less(d, f)
  <2> SUFFICES ASSUME NEW a \in 1..n, NEW b \in 1..n, a < b, NEW d \in ToSet(o[a]), NEW f \in ToSet(o[b])
               PROVE  Less(d, f)
    BY <1>3
  <2>1. a # n /\ d \in ToSet(outs[a])
    BY <1>1, <1>3
  <2>2. d \in K
    BY <1>1, <2>1 DEF Holds
  <2>3. f \in ToSet(outs[b]) \/ f = e
    BY <1>3, <1>5 DEF s
  <2> QED
    BY <2>1, <2>2, <2>3 DEF Splits, Parts
<1>11. t # <<>>
  <2>1. Len(t) # 0
    BY <1>2
  <2> QED
    BY <2>1
<1>12. \A a \in 1..Len(o) : o[a] = <<>> => a = Len(o)
  BY <1>3 DEF Splits
<1>13. o # <<>>
  BY <1>1, <1>3
<1>14. Last(o) # <<>>
  BY <1>3, <1>11 DEF Last
<1> QED
  BY <1>3, <1>8, <1>9, <1>10, <1>12, <1>13, <1>14 DEF Splits, Parts, o

\* One entry of the work.
Work(n) == [outs : Seq(Seq(Update)) \ {<<>>}, grandparent_index : 0..n, overlapped_bytes : Nat]

LEMMA StoppedParts ==
    ASSUME NEW g \in Seq(Table), NEW n, n = Len(g), NEW w \in Work(n), NEW i, NEW e
    PROVE  LET u == ShouldStopBefore(g, w, i, e)
           IN  u \in Work(n) /\ (u.outs = w.outs \/ u.outs = Cut(w.outs))
<1> DEFINE past == {j \in w.grandparent_index + 1..Len(g) : Less(Largest(g[j]), e)}
           index == w.grandparent_index + Cardinality(past)
           more == IF i > 1 THEN TotalFileSize(SubSeq(g, w.grandparent_index + 1, index)) ELSE 0
           u == ShouldStopBefore(g, w, i, e)
<1>1. /\ n \in Nat /\ w.grandparent_index \in 0..n /\ w.overlapped_bytes \in Nat
      /\ w.outs \in Seq(Seq(Update)) \ {<<>>}
  BY DEF Work
<1>2. index \in 0..n
  <2> DEFINE a == w.grandparent_index + 1
  <2>1. a \in Nat /\ a <= n + 1
    BY <1>1
  <2>2. IsFiniteSet(a..n) /\ Cardinality(a..n) = IF a > n THEN 0 ELSE n - a + 1
    <3>1. a \in Int /\ n \in Int
      BY <1>1, <2>1
    <3> HIDE DEF a
    <3> QED
      BY <3>1, FS_Interval
  <2>3. past \in SUBSET (a..n)
    OBVIOUS
  <2> HIDE DEF past
  <2>4. IsFiniteSet(past) /\ Cardinality(past) <= Cardinality(a..n)
    BY <2>2, <2>3, FS_Subset
  <2>5. Cardinality(past) \in Nat
    BY <2>4, FS_CardinalityType
  <2> QED
    BY <1>1, <2>1, <2>2, <2>4, <2>5
<1> HIDE DEF index
<1>3. more \in Nat
  <2>1. SubSeq(g, w.grandparent_index + 1, index) \in Seq(Table)
    BY <1>1, <1>2
  <2> QED
    BY <2>1, TotalIsNumber
<1>4. u = Stopped(w, index, w.overlapped_bytes + more)
  BY DEF ShouldStopBefore, Passing, index
<1> HIDE DEF more, u
<1>5. Cut(w.outs) \in Seq(Seq(Update)) \ {<<>>}
  <2>1. <<>> \in Seq(Update)
    OBVIOUS
  <2> DEFINE a == Append(w.outs, <<>>)
  <2>2. a \in Seq(Seq(Update)) /\ Len(a) = Len(w.outs) + 1 /\ Len(w.outs) \in Nat
    BY <1>1, <2>1
  <2>3. Cut(w.outs) = w.outs \/ Cut(w.outs) = a
    BY DEF Cut
  <2> HIDE DEF a
  <2>4. a # <<>>
    BY <2>2
  <2> QED
    BY <1>1, <2>2, <2>3, <2>4
<1>6. w.overlapped_bytes + more \in Nat
  BY <1>1, <1>3
<1>7. \/ u = [outs |-> Cut(w.outs), grandparent_index |-> index, overlapped_bytes |-> 0]
      \/ u = [outs |-> w.outs, grandparent_index |-> index,
              overlapped_bytes |-> w.overlapped_bytes + more]
  BY <1>4 DEF Stopped
<1>8. u \in Work(n) /\ (u.outs = w.outs \/ u.outs = Cut(w.outs))
  BY <1>1, <1>2, <1>5, <1>6, <1>7 DEF Work
<1> QED
  BY <1>8 DEF u

LEMMA CopiedParts ==
    ASSUME NEW n, NEW w \in Work(n), NEW e \in Update
    PROVE  /\ Copied(w, e, TRUE) = w
           /\ Copied(w, e, FALSE) \in Work(n)
           /\ Copied(w, e, FALSE).outs = Filled(Put(w.outs, e))
<1> DEFINE o == Filled(Put(w.outs, e))
<1>1. w.outs \in Seq(Seq(Update)) /\ w.outs # <<>> /\ Len(w.outs) \in Nat
  BY DEF Work
<1>2. Put(w.outs, e) \in Seq(Seq(Update)) /\ Len(Put(w.outs, e)) = Len(w.outs)
  <2>1. Len(w.outs) \in 1..Len(w.outs)
    BY <1>1
  <2>2. Append(w.outs[Len(w.outs)], e) \in Seq(Update)
    BY <1>1, <2>1
  <2> QED
    BY <1>1, <2>2 DEF Put
<1>3. o \in Seq(Seq(Update)) /\ o # <<>>
  <2>1. <<>> \in Seq(Update)
    OBVIOUS
  <2> DEFINE p == Put(w.outs, e)
  <2>2. p \in Seq(Seq(Update)) /\ Len(p) # 0 /\ Len(p) \in Nat
    BY <1>1, <1>2
  <2> HIDE DEF p
  <2>3. Append(p, <<>>) \in Seq(Seq(Update)) /\ Len(Append(p, <<>>)) = Len(p) + 1
    BY <2>1, <2>2
  <2>4. Append(p, <<>>) # <<>> /\ p # <<>>
    BY <2>2, <2>3
  <2>5. o = p \/ o = Append(p, <<>>)
    BY DEF Filled, p
  <2> HIDE DEF o
  <2> QED
    BY <2>2, <2>3, <2>4, <2>5
<1> HIDE DEF o
<1>4. Copied(w, e, FALSE) = [w EXCEPT !.outs = o]
  BY DEF Copied, o
<1>5. Copied(w, e, FALSE) \in Work(n) /\ Copied(w, e, FALSE).outs = o
  BY <1>3, <1>4 DEF Work
<1>6. Copied(w, e, TRUE) = w
  BY DEF Copied
<1> QED
  BY <1>5, <1>6 DEF o
\* The work on each entry, in turn.
Before == [outs |-> << <<>> >>, grandparent_index |-> 0, overlapped_bytes |-> 0]
Step(v, c, input, s, w, i) ==
    Copied(ShouldStopBefore(c.grandparents, w, i, input[i]), input[i], Dropped(v, c.level, input, i, s))
Steps(v, c, input, s) ==
    CHOOSE f : f = [i \in 0..Len(input) |-> IF i = 0 THEN Before ELSE Step(v, c, input, s, f[i-1], i)]

Drops(v, c, input, s) == {i \in 1..Len(input) : Dropped(v, c.level, input, i, s)}
Kept(v, c, input, s, i) == {input[j] : j \in (1..i) \ Drops(v, c, input, s)}

LEMMA StepParts ==
    ASSUME NEW v, NEW c, NEW input \in Seq(Update), NEW s, c.grandparents \in Seq(Table),
           NEW i \in 1..Len(input), NEW w \in Work(Len(c.grandparents))
    PROVE  LET t == Step(v, c, input, s, w, i)
           IN  /\ t \in Work(Len(c.grandparents))
               /\ i \in Drops(v, c, input, s) => t.outs \in {w.outs, Cut(w.outs)}
               /\ i \notin Drops(v, c, input, s) =>
                     t.outs \in {Filled(Put(w.outs, input[i])), Filled(Put(Cut(w.outs), input[i]))}
<1> DEFINE u == ShouldStopBefore(c.grandparents, w, i, input[i])
           t == Step(v, c, input, s, w, i)
<1>1. u \in Work(Len(c.grandparents)) /\ (u.outs = w.outs \/ u.outs = Cut(w.outs))
  BY StoppedParts
<1>2. input[i] \in Update
  OBVIOUS
<1>3. t = IF i \in Drops(v, c, input, s) THEN u ELSE Copied(u, input[i], FALSE)
  BY DEF Step, Copied, Drops
<1> HIDE DEF u, t
<1>4. /\ Copied(u, input[i], FALSE) \in Work(Len(c.grandparents))
      /\ Copied(u, input[i], FALSE).outs = Filled(Put(u.outs, input[i]))
  BY <1>1, <1>2, CopiedParts
<1> QED
  BY <1>1, <1>3, <1>4 DEF t

LEMMA StepsStepwise ==
    ASSUME NEW v, NEW c, NEW input \in Seq(Update), NEW s, c.grandparents \in Seq(Table)
    PROVE  /\ Steps(v, c, input, s)[0] = Before
           /\ \A i \in 1..Len(input) :
                 Steps(v, c, input, s)[i] = Step(v, c, input, s, Steps(v, c, input, s)[i-1], i)
<1> DEFINE n == Len(input)
           W == Work(Len(c.grandparents))
           step == [x \in (1..n) \X W |-> Step(v, c, input, s, x[2], x[1])]
           F == Steps(v, c, input, s)
<1>1. n \in Nat
  OBVIOUS
<1>2. Before \in W
  <2>1. << <<>> >> \in Seq(Seq(Update)) \ {<<>>}
    OBVIOUS
  <2> QED
    BY <2>1 DEF Before, Work
<1>3. step \in [(1..n) \X W -> W]
      /\ \A i \in 1..n, w \in W : step[<<i, w>>] = Step(v, c, input, s, w, i)
  BY StepParts
<1> HIDE DEF step, W
<1>4. PICK f : Follows(f, W, n, Before, step)
  <2> HIDE DEF n
  <2> QED
    BY <1>1, <1>2, <1>3, Recursion
<1>5. f \in [0..n -> W] /\ f[0] = Before /\ \A i \in 1..n : f[i] = Step(v, c, input, s, f[i-1], i)
  <2>1. \A i \in 1..n : i - 1 \in 0..n
    BY <1>1
  <2> QED
    BY <1>3, <1>4, <2>1 DEF Follows
<1>6. f = [i \in 0..n |-> IF i = 0 THEN Before ELSE Step(v, c, input, s, f[i-1], i)]
  BY <1>1, <1>5
<1>7. F = [i \in 0..n |-> IF i = 0 THEN Before ELSE Step(v, c, input, s, F[i-1], i)]
  BY <1>6 DEF Steps
<1> HIDE DEF F
<1>8. F[0] = Before /\ \A i \in 1..n : F[i] = Step(v, c, input, s, F[i-1], i)
  BY <1>1, <1>7
<1> QED
  BY <1>8 DEF F

\* What is kept of the entries up to one.
LEMMA KeptUpTo ==
    ASSUME NEW v, NEW c, NEW input, NEW s, NEW i \in Nat, NEW x
    PROVE  x \in Kept(v, c, input, s, i) <=>
              \E m \in 1..i : m \notin Drops(v, c, input, s) /\ x = input[m]
BY DEF Kept

LEMMA KeptIsBefore ==
    ASSUME NEW v, NEW c, NEW input, NEW s, NEW i \in Nat,
           NEW k \in 1..Len(input), k = i + 1, Rising(input), NEW d \in Kept(v, c, input, s, i)
    PROVE  Less(d, input[k])
<1>1. PICK m \in 1..i : d = input[m]
  BY KeptUpTo
<1>2. m \in 1..Len(input) /\ m < k
  OBVIOUS
<1> QED
  BY <1>1, <1>2 DEF Rising

LEMMA KeptDropped ==
    ASSUME NEW v, NEW c, NEW input, NEW s, NEW i \in Nat, NEW k, k = i + 1,
           k \in Drops(v, c, input, s)
    PROVE  Kept(v, c, input, s, k) = Kept(v, c, input, s, i)
<1>1. k \in Nat /\ \A m : m \in 1..k <=> (m \in 1..i \/ m = k)
  OBVIOUS
<1>2. ASSUME NEW x
      PROVE  x \in Kept(v, c, input, s, k) <=> x \in Kept(v, c, input, s, i)
  <2> DEFINE D == Drops(v, c, input, s)
  <2>1. /\ x \in Kept(v, c, input, s, k) <=> \E m \in 1..k : m \notin D /\ x = input[m]
        /\ x \in Kept(v, c, input, s, i) <=> \E m \in 1..i : m \notin D /\ x = input[m]
    BY <1>1, KeptUpTo
  <2> HIDE DEF D
  <2>2. k \in D
    BY DEF D
  <2> QED
    BY <1>1, <2>1, <2>2
<1> QED
  BY <1>2

LEMMA KeptAdded ==
    ASSUME NEW v, NEW c, NEW input, NEW s, NEW i \in Nat, NEW k, k = i + 1,
           k \notin Drops(v, c, input, s)
    PROVE  Kept(v, c, input, s, k) = Kept(v, c, input, s, i) \cup {input[k]}
<1>1. k \in Nat /\ \A m : m \in 1..k <=> (m \in 1..i \/ m = k)
  OBVIOUS
<1>2. ASSUME NEW x
      PROVE  x \in Kept(v, c, input, s, k) <=> x \in Kept(v, c, input, s, i) \/ x = input[k]
  <2> DEFINE D == Drops(v, c, input, s)
  <2>1. /\ x \in Kept(v, c, input, s, k) <=> \E m \in 1..k : m \notin D /\ x = input[m]
        /\ x \in Kept(v, c, input, s, i) <=> \E m \in 1..i : m \notin D /\ x = input[m]
    BY <1>1, KeptUpTo
  <2> HIDE DEF D
  <2>2. k \notin D
    BY DEF D
  <2> QED
    BY <1>1, <2>1, <2>2
<1> QED
  BY <1>2

\* The outputs are the entries that are kept, in order, and none is empty.
LEMMA OutputsAreParts ==
    ASSUME NEW v, NEW c, NEW input \in Seq(Update), NEW s, c.grandparents \in Seq(Table),
           Rising(input)
    PROVE  LET o == DoCompactionWork(v, c, input, s)
           IN  /\ Parts(o, Kept(v, c, input, s, Len(input)))
               /\ \A a \in 1..Len(o) : o[a] # <<>>
<1> DEFINE n == Len(input)
           F == Steps(v, c, input, s)
           W == Work(Len(c.grandparents))
           K(i) == Kept(v, c, input, s, i)
           I == {i \in Nat : i <= n => F[i] \in W /\ Splits(F[i].outs, K(i))}
<1>1. F[0] = Before /\ \A i \in 1..n : F[i] = Step(v, c, input, s, F[i-1], i)
  BY StepsStepwise
<1> HIDE DEF F
<1>2. n \in Nat
  OBVIOUS
<1>3. \A w \in W : w.outs \in Seq(Seq(Update)) \ {<<>>}
  BY DEF Work
<1>4. Before \in W /\ Splits(Before.outs, {})
  <2>1. << <<>> >> \in Seq(Seq(Update)) \ {<<>>}
    OBVIOUS
  <2>2. Before \in W /\ Before.outs = << <<>> >>
    BY <2>1 DEF Before, Work
  <2>3. Holds(<< <<>> >>) = {}
    BY DEF Holds, ToSet
  <2>4. Rising(<<>>)
    BY DEF Rising
  <2>5. /\ Len(<< <<>> >>) = 1 /\ << <<>> >>[1] = <<>> /\ \A a \in 1..1 : a = 1
    OBVIOUS
  <2>6. \A a, b \in 1..1 : ~(a < b)
    OBVIOUS
  <2>7. Splits(<< <<>> >>, {})
    BY <2>1, <2>3, <2>4, <2>5, <2>6 DEF Splits, Parts
  <2> QED
    BY <2>2, <2>7
<1>5. 0 \in I
  <2>1. CASE n = 0
    <3>1. K(0) = {}
      BY DEF Kept
    <3> QED
      BY <1>1, <1>4, <3>1
  <2>2. CASE n # 0
    <3>1. K(0) = {}
      BY DEF Kept
    <3> QED
      BY <1>1, <1>4, <3>1
  <2> QED
    BY <2>1, <2>2
<1>6. ASSUME NEW i \in Nat, i \in I
      PROVE  i + 1 \in I
  <2> SUFFICES ASSUME i + 1 <= n
               PROVE  F[i+1] \in W /\ Splits(F[i+1].outs, K(i+1))
    OBVIOUS
  <2> DEFINE w == F[i]
             t == F[i+1]
             e == input[i+1]
  <2>1. w \in W /\ Splits(w.outs, K(i))
    BY <1>2, <1>6
  <2>2. i + 1 \in 1..n /\ t = Step(v, c, input, s, w, i + 1) /\ e \in Update
    <3>1. i + 1 \in 1..n /\ i + 1 - 1 = i
      BY <1>2
    <3> QED
      BY <1>1, <3>1
  <2> HIDE DEF t, w
  <2>3. /\ t \in W
        /\ i + 1 \in Drops(v, c, input, s) => t.outs \in {w.outs, Cut(w.outs)}
        /\ i + 1 \notin Drops(v, c, input, s) =>
              t.outs \in {Filled(Put(w.outs, e)), Filled(Put(Cut(w.outs), e))}
    BY <2>1, <2>2, StepParts
  <2>4. /\ \A x \in K(i) : Less(x, e)
        /\ i + 1 \in Drops(v, c, input, s) => K(i+1) = K(i)
        /\ i + 1 \notin Drops(v, c, input, s) => K(i+1) = K(i) \cup {e}
    <3>1. PICK k : k = i + 1
      OBVIOUS
    <3>2. k \in 1..Len(input)
      BY <2>2, <3>1
    <3>3. \A x \in K(i) : Less(x, input[k])
      BY <3>1, <3>2, KeptIsBefore
    <3>4. k \in Drops(v, c, input, s) => K(k) = K(i)
      BY <3>1, KeptDropped
    <3>5. k \notin Drops(v, c, input, s) => K(k) = K(i) \cup {input[k]}
      BY <3>1, KeptAdded
    <3> QED
      BY <3>1, <3>3, <3>4, <3>5
  <2> HIDE DEF K, W, e
  <2>5. Splits(Cut(w.outs), K(i))
    BY <2>1, CutSplits DEF Cut
  <2>6. ASSUME NEW o, Splits(o, K(i))
        PROVE  Splits(Filled(Put(o, e)), K(i) \cup {e})
    <3>1. Splits(Put(o, e), K(i) \cup {e}) /\ Last(Put(o, e)) # <<>>
      BY <2>2, <2>4, <2>6, PutSplits
    <3>2. Splits(Append(Put(o, e), <<>>), K(i) \cup {e})
      BY <3>1, CutSplits
    <3> QED
      BY <3>1, <3>2 DEF Filled
  <2>7. CASE i + 1 \in Drops(v, c, input, s)
    BY <2>1, <2>3, <2>4, <2>5, <2>7 DEF t
  <2>8. CASE i + 1 \notin Drops(v, c, input, s)
    BY <2>1, <2>3, <2>4, <2>5, <2>6, <2>8 DEF t
  <2> QED
    BY <2>7, <2>8
<1>7. n \in I
  <2> HIDE DEF I
  <2> QED
    BY <1>2, <1>5, <1>6, Induction
<1>8. Splits(F[n].outs, K(n))
  BY <1>2, <1>7
<1> DEFINE outs == F[n].outs
           o == DoCompactionWork(v, c, input, s)
<1>9. o = IF Last(outs) = <<>> THEN Front(outs) ELSE outs
  BY DEF DoCompactionWork, Steps, Step, F, Before
<1> HIDE DEF outs, o, K
<1>10. /\ Parts(outs, K(n)) /\ outs # <<>> /\ outs \in Seq(Seq(Update))
       /\ \A a \in 1..Len(outs) : outs[a] = <<>> => a = Len(outs)
  BY <1>8 DEF Splits, Parts, outs
<1>11. CASE Last(outs) # <<>>
  <2>1. \A a \in 1..Len(outs) : outs[a] # <<>>
    BY <1>10, <1>11 DEF Last
  <2> QED
    BY <1>9, <1>10, <1>11, <2>1 DEF o, K
<1>12. CASE Last(outs) = <<>>
  <2> DEFINE m == Len(outs) - 1
  <2>1. Len(outs) \in Nat /\ Len(outs) # 0 /\ m \in Nat
    BY <1>10
  <2>2. o = SubSeq(outs, 1, m)
    BY <1>9, <1>12 DEF Front
  <2>3. /\ o \in Seq(Seq(Update)) /\ Len(o) = m /\ \A a \in 1..m : o[a] = outs[a]
    <3>1. m \in 0..Len(outs)
      BY <2>1
    <3> HIDE DEF m
    <3> QED
      BY <1>10, <2>2, <3>1
  <2>4. /\ \A a \in 1..m : a \in 1..Len(outs) /\ a # Len(outs)
        /\ \A a \in 1..Len(outs) : a \in 1..m \/ a = Len(outs)
    BY <2>1
  <2> HIDE DEF m
  <2>5. ToSet(outs[Len(outs)]) = {}
    BY <1>12 DEF Last, ToSet
  <2>6. Holds(o) = Holds(outs)
    BY <2>3, <2>4, <2>5 DEF Holds
  <2>7. Parts(o, K(n))
    BY <1>10, <2>3, <2>4, <2>6 DEF Parts
  <2>8. \A a \in 1..Len(o) : o[a] # <<>>
    BY <1>10, <2>3, <2>4
  <2> QED
    BY <2>7, <2>8 DEF o, K
<1> QED
  BY <1>11, <1>12
-----------------------------------------------------------------------------
(* What a compaction forgets.                                              *)

LEMMA LessParts ==
    ASSUME NEW d \in Update, NEW e \in Update, Less(d, e)
    PROVE  /\ d.key \in Nat /\ e.key \in Nat /\ d.seq \in Nat /\ e.seq \in Nat
           /\ d.key <= e.key /\ (d.key = e.key => d.seq > e.seq)
<1>1. d.key \in Nat /\ e.key \in Nat /\ d.seq \in Nat /\ e.seq \in Nat
  BY KeysAreNumbers
<1>2. d.key < e.key \/ (d.key = e.key /\ d.seq > e.seq)
  BY DEF Less
<1> QED
  BY <1>1, <1>2

\* An entry with an entry of its key before it that every snapshot sees is
\* dropped, if that one is so, too.
LEMMA HiddenIsDropped ==
    ASSUME NEW v, NEW c, NEW input \in Seq(Update), Rising(input), NEW s \in Nat,
           NEW j \in 1..Len(input), NEW m \in 1..Len(input), j < m,
           input[j].key = input[m].key, input[j].seq <= s
    PROVE  m \in Drops(v, c, input, s)
<1> DEFINE i == m - 1
<1>1. i \in 1..Len(input) /\ i < m /\ (i = j \/ j < i) /\ m > 1
  OBVIOUS
<1> HIDE DEF i
<1>2. input[i] \in Update /\ input[j] \in Update /\ input[m] \in Update
  BY <1>1
<1>3. Less(input[i], input[m]) /\ (i = j \/ Less(input[j], input[i]))
  BY <1>1 DEF Rising
<1>4. input[i].key <= input[m].key /\ input[i].key \in Nat /\ input[m].key \in Nat
  BY <1>2, <1>3, LessParts
<1>5. CASE i = j
  BY <1>1, <1>5 DEF Drops, Dropped, i
<1>6. CASE Less(input[j], input[i])
  <2>1. /\ input[j].key <= input[i].key /\ input[j].key \in Nat
        /\ input[j].seq \in Nat /\ input[i].seq \in Nat
        /\ (input[j].key = input[i].key => input[j].seq > input[i].seq)
    BY <1>2, <1>6, LessParts
  <2>2. input[i].key = input[m].key
    BY <1>4, <2>1
  <2>3. input[i].seq <= s
    BY <2>1, <2>2
  <2> QED
    BY <1>1, <2>2, <2>3 DEF Drops, Dropped, i
<1> QED
  BY <1>3, <1>5, <1>6

\* A key with no table below in its range is in no table below.
LEMMA BaseLevelIsClear ==
    ASSUME NEW v, NEW recent, NEW old, Version(v, recent, old),
           NEW level \in Nat, NEW k, IsBaseLevelForKey(v, level, k),
           NEW d \in Deeper(Sets(v), level + 1)
    PROVE  d.key # k
<1>1. PICK m \in (level + 1) + 2..kNumLevels : d \in EntriesOf(Sets(v)[m])
  BY DEF Deeper
<1>2. kNumLevels \in Nat
  BY LevelsAssumption
<1>3. m \in 1..kNumLevels /\ m - 1 \in level+2..kNumLevels-1 /\ (m - 1) + 1 = m
  BY <1>1, <1>2
<1>4. Hit(v[m], Interval(k, k)) = <<>>
  BY <1>3 DEF IsBaseLevelForKey
<1>5. Level(v[m]) /\ ToSet(v[m]) = Sets(v)[m]
  BY <1>3, VersionLevels
<1>6. ToSet(Hit(v[m], Interval(k, k))) = {}
  BY <1>4 DEF ToSet
<1>7. \A f \in ToSet(v[m]) : ~Overlaps(f, Interval(k, k))
  BY <1>5, <1>6, HitIsOverlapping
<1>8. PICK f \in ToSet(v[m]) : d \in ToSet(f.entries)
  BY <1>1, <1>5, EntryOf
<1>9. f \in Table
  BY <1>5, LevelParts
<1>10. Lo(f) <= d.key /\ d.key <= Hi(f)
  BY <1>8, <1>9, InTable
<1>11. ~(Hi(f) >= k /\ Lo(f) <= k)
  BY <1>7 DEF Overlaps, Interval, Hi, Lo
<1> QED
  BY <1>9, <1>10, <1>11, <1>8, InTable

LEMMA DroppedIsForgotten ==
    ASSUME NEW v, NEW recent, NEW old, Version(v, recent, old),
           NEW c, c.level \in Nat, NEW input \in Seq(Update), Rising(input), NEW s \in Nat,
           NEW j \in Drops(v, c, input, s)
    PROVE  \/ \E p \in ToSet(input) :
                 p.key = input[j].key /\ p.seq > input[j].seq /\ p.seq <= s
           \/ input[j].del /\ \A d \in Kept(v, c, input, s, Len(input)) \cup Deeper(Sets(v), c.level + 1) :
                                 d.key = input[j].key => d.seq > input[j].seq
<1> DEFINE e == input[j]
<1>1. j \in 1..Len(input) /\ Dropped(v, c.level, input, j, s) /\ e \in Update
  BY DEF Drops
<1>2. CASE j > 1 /\ input[j-1].key = e.key /\ input[j-1].seq <= s
  <2> DEFINE i == j - 1
  <2>1. i \in 1..Len(input) /\ i < j
    BY <1>1, <1>2
  <2> HIDE DEF i
  <2>2. input[i] \in Update /\ Less(input[i], e)
    BY <1>1, <2>1 DEF Rising
  <2>3. input[i].key = e.key /\ input[i].seq <= s
    BY <1>2 DEF i
  <2>4. input[i].seq > e.seq
    BY <1>1, <2>2, <2>3, LessParts
  <2>5. input[i] \in ToSet(input)
    BY <2>1, ListIsFinite
  <2> QED
    BY <2>3, <2>4, <2>5
<1>3. CASE e.del /\ e.seq <= s /\ IsBaseLevelForKey(v, c.level, e.key)
  <2>1. ASSUME NEW d \in Kept(v, c, input, s, Len(input)), d.key = e.key
        PROVE  d.seq > e.seq
    <3>1. PICK m \in 1..Len(input) : m \notin Drops(v, c, input, s) /\ d = input[m]
      BY KeptUpTo
    <3>2. ~(j < m)
      BY <1>1, <1>3, <2>1, <3>1, HiddenIsDropped
    <3>3. m < j
      BY <1>1, <3>1, <3>2
    <3>4. Less(d, e) /\ d \in Update
      BY <1>1, <3>1, <3>3 DEF Rising
    <3> QED
      BY <1>1, <2>1, <3>4, LessParts
  <2>2. \A d \in Deeper(Sets(v), c.level + 1) : d.key # e.key
    BY <1>3, BaseLevelIsClear
  <2> QED
    BY <1>3, <2>1, <2>2
<1> QED
  BY <1>1, <1>2, <1>3 DEF Dropped

\* The entries of the inputs, in order.
LEMMA InputParts ==
    ASSUME NEW v, NEW recent, NEW old, Version(v, recent, old), IsFiniteSet(old), NEW c, Sound(v, c)
    PROVE  LET In == EntriesOf(ToSet(c.inputs0) \cup ToSet(c.inputs1))
               input == MakeInputIterator(c)
           IN  /\ input \in Seq(Update) /\ Rising(input) /\ ToSet(input) = In
<1> DEFINE In == EntriesOf(ToSet(c.inputs0) \cup ToSet(c.inputs1))
           input == MakeInputIterator(c)
           l == c.level + 1
<1>1. /\ c.level \in 0..kNumLevels-2 /\ c.inputs0 \in Seq(Table) /\ c.inputs1 \in Seq(Table)
      /\ ToSet(c.inputs0) \subseteq Sets(v)[l] /\ ToSet(c.inputs1) \subseteq Sets(v)[l+1]
  BY DEF Sound, Level, Mergeable
<1>2. l \in 1..kNumLevels /\ l + 1 \in 1..kNumLevels
  <2>1. kNumLevels \in Nat
    BY LevelsAssumption
  <2> QED
    BY <1>1, <2>1
<1>3. ToSet(c.inputs0 \o c.inputs1) = ToSet(c.inputs0) \cup ToSet(c.inputs1)
  BY <1>1, ConcatParts
<1>4. input = InOrder(In, Less)
  BY <1>3 DEF MakeInputIterator, EntriesOf
<1>5. EntriesOf(Sets(v)[l]) \subseteq old /\ EntriesOf(Sets(v)[l+1]) \subseteq old
  BY <1>2 DEF Version, Fine
<1>6. In \subseteq old
  <2> SUFFICES ASSUME NEW e \in In
               PROVE  e \in old
    OBVIOUS
  <2>1. PICK f \in ToSet(c.inputs0) \cup ToSet(c.inputs1) : e \in ToSet(f.entries)
    BY EntryOf
  <2>2. e \in EntriesOf(Sets(v)[l]) \/ e \in EntriesOf(Sets(v)[l+1])
    BY <1>1, <2>1, EntryOf
  <2> QED
    BY <1>5, <2>2
<1> HIDE DEF In, input
<1>7. Told(old)
  BY DEF Version
<1>8. Told(In)
  BY <1>6, <1>7, ToldSubset
<1>9. IsFiniteSet(In)
  BY <1>6, FS_Subset
<1>10. In \subseteq Update
  BY <1>8 DEF Told
<1>11. /\ input \in Seq(In) /\ ToSet(input) = In
       /\ \A i, j \in 1..Len(input) : i < j => Less(input[i], input[j])
  BY <1>4, <1>8, <1>9, UpdatesInOrder
<1>12. input \in Seq(Update)
  BY <1>10, <1>11
<1>13. Rising(input)
  BY <1>11 DEF Rising
<1> QED
  BY <1>11, <1>12, <1>13 DEF In, input
-----------------------------------------------------------------------------
(* The tables a compaction writes.                                         *)

Outputs(outs, n) == {[number |-> n + a - 1, entries |-> outs[a]] : a \in 1..Len(outs)}

\* The versions of a key stay together.
Whole(O) == \A f, g \in O : f # g =>
               \A d \in ToSet(f.entries), e \in ToSet(g.entries) : d.key # e.key

LEMMA OutputTables ==
    ASSUME NEW outs, NEW K, Parts(outs, K), \A a \in 1..Len(outs) : outs[a] # <<>>,
           NEW n \in Nat, Whole(Outputs(outs, n))
    PROVE  /\ Outputs(outs, n) \in SUBSET Table /\ IsFiniteSet(Outputs(outs, n))
           /\ EntriesOf(Outputs(outs, n)) = K
           /\ \A f \in Outputs(outs, n) : f.number >= n /\ f.number < n + Len(outs)
           /\ \A f, g \in Outputs(outs, n) : f = g \/ (Apart(f, g) /\ f.number # g.number)
<1> DEFINE T(a) == [number |-> n + a - 1, entries |-> outs[a]]
           N == Len(outs)
           O == Outputs(outs, n)
<1>1. /\ outs \in Seq(Seq(Update)) /\ N \in Nat
      /\ \A a \in 1..N : outs[a] \in Seq(Update) /\ outs[a] # <<>> /\ Rising(outs[a])
  BY DEF Parts
<1>2. \A a \in 1..N : T(a) \in Table /\ T(a).number = n + a - 1 /\ T(a).entries = outs[a]
  <2> SUFFICES ASSUME NEW a \in 1..N
               PROVE  T(a) \in Table
    OBVIOUS
  <2>1. n + a - 1 \in Nat
    BY <1>1
  <2> QED
    BY <1>1, <2>1 DEF Table, Rising
<1>3. \A f : f \in O <=> \E a \in 1..N : f = T(a)
  BY DEF Outputs
<1> HIDE DEF T
<1>4. O \in SUBSET Table
  BY <1>2, <1>3
<1>5. IsFiniteSet(O)
  <2> DEFINE t == [a \in 1..N |-> T(a)]
  <2>1. IsFiniteSet(1..N)
    <3>1. 1 \in Int /\ N \in Int
      BY <1>1
    <3> HIDE DEF N
    <3> QED
      BY <3>1, FS_Interval
  <2>2. DOMAIN t = 1..N /\ \A a \in 1..N : t[a] = T(a)
    OBVIOUS
  <2>3. t = [a \in 1..N |-> t[a]]
    OBVIOUS
  <2> HIDE DEF t
  <2>4. IsFiniteSet({t[a] : a \in 1..N})
    BY <2>1, <2>2, <2>3, ImageIsFinite
  <2>5. {t[a] : a \in 1..N} = O
    BY <1>3, <2>2
  <2> QED
    BY <2>4, <2>5
<1>6. EntriesOf(O) = K
  <2>1. \A e : e \in EntriesOf(O) <=> \E f \in O : e \in ToSet(f.entries)
    BY EntryOf
  <2>2. \A e : e \in K <=> \E a \in 1..N : e \in ToSet(outs[a])
    BY DEF Parts, Holds
  <2>3. \A a \in 1..N : T(a) \in O /\ T(a).entries = outs[a]
    BY <1>2, <1>3
  <2>4. \A f \in O : \E a \in 1..N : f.entries = outs[a]
    BY <1>2, <1>3
  <2> HIDE DEF O, N
  <2>5. \A e : e \in EntriesOf(O) => e \in K
    BY <2>1, <2>2, <2>4
  <2>6. ASSUME NEW e \in K
        PROVE  e \in EntriesOf(O)
    <3>1. PICK a \in 1..N : e \in ToSet(outs[a])
      BY <2>2
    <3>2. e \in ToSet(T(a).entries)
      BY <2>3, <3>1
    <3> QED
      BY <2>1, <2>3, <3>2
  <2> QED
    BY <2>5, <2>6
<1>7. \A f \in O : f.number >= n /\ f.number < n + N
  <2> SUFFICES ASSUME NEW a \in 1..N
               PROVE  T(a).number >= n /\ T(a).number < n + N
    BY <1>3
  <2> QED
    BY <1>1, <1>2
<1>8. ASSUME NEW a \in 1..N, NEW b \in 1..N, a < b
      PROVE  Hi(T(a)) < Lo(T(b)) /\ T(a) # T(b) /\ T(a).number # T(b).number
  <2>1. T(a).number # T(b).number
    BY <1>1, <1>2, <1>8
  <2>2. T(a) # T(b) /\ T(a) \in O /\ T(b) \in O
    BY <1>3, <2>1
  <2> DEFINE d == Largest(T(a))
             e == Smallest(T(b))
  <2>3. d \in ToSet(T(a).entries) /\ e \in ToSet(T(b).entries)
    BY <1>2, Ends
  <2>4. d.key # e.key
    BY <2>2, <2>3 DEF Whole
  <2>5. d \in ToSet(outs[a]) /\ e \in ToSet(outs[b])
    BY <1>2, <2>3
  <2>6. Less(d, e)
    BY <1>8, <2>5 DEF Parts
  <2>7. d \in Update /\ e \in Update
    BY <1>2, <2>3, InTable
  <2> HIDE DEF d, e
  <2>8. d.key < e.key
    BY <2>4, <2>6, <2>7, LessParts
  <2> QED
    BY <2>1, <2>2, <2>8 DEF d, e, Hi, Lo
<1>9. \A f, g \in O : f = g \/ (Apart(f, g) /\ f.number # g.number)
  <2> SUFFICES ASSUME NEW a \in 1..N, NEW b \in 1..N, a # b
               PROVE  Apart(T(a), T(b)) /\ T(a).number # T(b).number
    BY <1>3
  <2>1. a < b \/ b < a
    OBVIOUS
  <2> QED
    BY <1>8, <2>1 DEF Apart
<1> QED
  BY <1>4, <1>5, <1>6, <1>7, <1>9

\* A compaction writes tables that may replace its inputs.
LEMMA CompactionReplaces ==
    ASSUME NEW v, NEW recent, NEW old, Version(v, recent, old), IsFiniteSet(old),
           NEW c, Sound(v, c), NEW s \in Nat, NEW n \in Nat, NumberedBelow(Sets(v), n),
           Whole(Outputs(DoCompactionWork(v, c, MakeInputIterator(c), s), n))
    PROVE  LET outs == DoCompactionWork(v, c, MakeInputIterator(c), s)
               O == Outputs(outs, n)
               I == ToSet(c.inputs0) \cup ToSet(c.inputs1)
           IN  /\ outs \in Seq(Seq(Update))
               /\ Replaces(Sets(v), I, O)
               /\ Forgets(EntriesOf(I), EntriesOf(O), Deeper(Sets(v), c.level + 1), s)
               /\ \A f \in O : f.number >= n /\ f.number < n + Len(outs)
<1> DEFINE input == MakeInputIterator(c)
           outs == DoCompactionWork(v, c, input, s)
           O == Outputs(outs, n)
           I == ToSet(c.inputs0) \cup ToSet(c.inputs1)
           K == Kept(v, c, input, s, Len(input))
<1>1. input \in Seq(Update) /\ Rising(input) /\ ToSet(input) = EntriesOf(I)
  BY InputParts
<1>2. c.grandparents \in Seq(Table) /\ c.level \in Nat
  BY LevelsAssumption DEF Sound
<1> HIDE DEF input, I
<1>3. Parts(outs, K) /\ \A a \in 1..Len(outs) : outs[a] # <<>>
  BY <1>1, <1>2, OutputsAreParts
<1>4. outs \in Seq(Seq(Update))
  BY <1>3 DEF Parts
<1>5. Whole(O)
  BY DEF input
<1> HIDE DEF outs, K
<1>6. /\ O \in SUBSET Table /\ IsFiniteSet(O) /\ EntriesOf(O) = K
      /\ \A f \in O : f.number >= n /\ f.number < n + Len(outs)
      /\ \A f, g \in O : f = g \/ (Apart(f, g) /\ f.number # g.number)
  BY <1>3, <1>5, OutputTables
<1>7. Len(input) \in Nat /\ \A e : e \in EntriesOf(I) <=> \E j \in 1..Len(input) : e = input[j]
  <2>1. ToSet(input) = {input[j] : j \in 1..Len(input)}
    BY <1>1, ListIsFinite
  <2> QED
    BY <1>1, <2>1
<1>8. EntriesOf(O) \subseteq EntriesOf(I)
  <2> SUFFICES ASSUME NEW e \in K
               PROVE  e \in EntriesOf(I)
    BY <1>6
  <2>1. \E m \in 1..Len(input) : e = input[m]
    BY <1>7, KeptUpTo DEF K
  <2> QED
    BY <1>7, <2>1
<1>9. \A f \in O : \A m \in 1..kNumLevels : \A g \in Sets(v)[m] : f.number # g.number
  <2> SUFFICES ASSUME NEW f \in O, NEW m \in 1..kNumLevels, NEW g \in Sets(v)[m]
               PROVE  f.number # g.number
    OBVIOUS
  <2>1. g.number < n /\ f.number >= n
    BY <1>6 DEF NumberedBelow
  <2>2. g \in Table /\ f \in Table
    BY <1>6 DEF Version, Fine
  <2>3. g.number \in Nat /\ f.number \in Nat
    BY <2>2, Ends
  <2> QED
    BY <2>1, <2>3
<1> HIDE DEF O
<1>10. Replaces(Sets(v), I, O)
  BY <1>6, <1>8, <1>9 DEF Replaces
<1>11. Forgets(EntriesOf(I), EntriesOf(O), Deeper(Sets(v), c.level + 1), s)
  <2> SUFFICES ASSUME NEW e \in EntriesOf(I), e \notin K
               PROVE  \/ \E p \in EntriesOf(I) : p.key = e.key /\ p.seq > e.seq /\ p.seq <= s
                      \/ e.del /\ \A d \in K \cup Deeper(Sets(v), c.level + 1) :
                                     d.key = e.key => d.seq > e.seq
    BY <1>6 DEF Forgets
  <2>1. PICK j \in 1..Len(input) : e = input[j]
    BY <1>7
  <2>2. j \in Drops(v, c, input, s)
    BY <1>7, <2>1, KeptUpTo DEF K
  <2> QED
    BY <1>1, <1>2, <2>1, <2>2, DroppedIsForgotten DEF K
<1> QED
  BY <1>4, <1>6, <1>10, <1>11 DEF O, outs, input, I
-----------------------------------------------------------------------------
(* The state.                                                              *)

\* Outputs that are being written do not split the versions of a key.
KeysAreWhole == merge # None => Whole({a[2] : a \in merge.add})

LEMMA StateParts ==
    ASSUME Counted, Listed(files), Good(Sets(files))
    PROVE  /\ Version(files, Recent, written) /\ Told(written) /\ IsFiniteSet(written)
           /\ Recent \subseteq written /\ written \subseteq Update
           /\ SmallestSnapshot \in 0..last_sequence /\ SmallestSnapshot \in Nat
           /\ last_sequence \in 0..MaxWrites /\ MaxWrites \in Nat /\ last_sequence \in Nat
           /\ next_file_number \in Nat /\ kNumLevels \in Nat /\ kNumLevels >= 2
           /\ Sets(files) \in [1..kNumLevels -> SUBSET Table]
<1>1. MaxWrites \in Nat /\ kNumLevels \in Nat /\ kNumLevels >= 2
  BY LevelsAssumption
<1>2. \A e \in written : e.seq <= MaxWrites
  <2> SUFFICES ASSUME NEW e \in written
               PROVE  e.seq <= MaxWrites
    OBVIOUS
  <2>1. e \in Update /\ e.seq <= last_sequence /\ last_sequence \in 0..MaxWrites
    BY DEF Counted
  <2> QED
    BY <1>1, <2>1, KeysAreNumbers
<1>3. Told(written)
  BY <1>2 DEF Counted, Told
<1>4. SmallestSnapshot \in 0..last_sequence
  <2>1. snapshots \in Seq(0..last_sequence) /\ last_sequence \in Nat
    BY DEF Counted
  <2>2. CASE snapshots = <<>>
    BY <2>1, <2>2 DEF SmallestSnapshot
  <2>3. CASE snapshots # <<>>
    <3>1. Head(snapshots) \in 0..last_sequence
      BY <2>1, <2>3
    <3> QED
      BY <2>3, <3>1 DEF SmallestSnapshot
  <2> QED
    BY <2>2, <2>3
<1>5. Version(files, Recent, written)
  BY <1>3 DEF Version, Good
<1>6. Sets(files) \in [1..kNumLevels -> SUBSET Table]
  BY DEF Good, Fine
<1> QED
  BY <1>1, <1>3, <1>4, <1>5, <1>6 DEF Counted

\* The numbers of a compaction's tables.
LEMMA MergedNumbers ==
    ASSUME NEW T \in [1..kNumLevels -> SUBSET Table], NEW n \in Nat, NumberedBelow(T, n),
           NEW m \in Nat, n <= m, NEW l, NEW I0, NEW I1, NEW O, l + 1 \in 1..kNumLevels,
           \A f \in O : f.number < m
    PROVE  NumberedBelow(Merged(T, l, I0, I1, O), m)
<1> DEFINE M == Merged(T, l, I0, I1, O)
<1> SUFFICES ASSUME NEW j \in 1..kNumLevels, NEW f \in M[j]
             PROVE  f.number < m
  BY DEF NumberedBelow
<1>1. f \in T[j] \/ f \in O
  BY DEF Merged
<1>2. CASE f \in T[j]
  <2>1. f \in Table /\ f.number < n
    BY <1>2 DEF NumberedBelow
  <2>2. f.number \in Nat
    BY <2>1, Ends
  <2> QED
    BY <2>1, <2>2
<1> QED
  BY <1>1, <1>2

\* A compaction that is sound, with outputs that may replace its inputs, leads to
\* a version that is right.
LEMMA MergedIsGood ==
    ASSUME Counted, Listed(files), Good(Sets(files)), NEW c, Sound(files, c),
           NEW O, Replaces(Sets(files), ToSet(c.inputs0) \cup ToSet(c.inputs1), O),
           Forgets(EntriesOf(ToSet(c.inputs0) \cup ToSet(c.inputs1)), EntriesOf(O),
                   Deeper(Sets(files), c.level + 1), SmallestSnapshot)
    PROVE  LET M == Merged(Sets(files), c.level + 1, ToSet(c.inputs0), ToSet(c.inputs1), O)
           IN  /\ Good(M)
               /\ After(Sets(files), AddInputDeletions(c), Placed(c.level + 1, O)) = M
               /\ AddInputDeletions(c) = Removed(c.level + 1, ToSet(c.inputs0), ToSet(c.inputs1))
<1> DEFINE T == Sets(files)
           l == c.level + 1
           I0 == ToSet(c.inputs0)
           I1 == ToSet(c.inputs1)
           M == Merged(T, l, I0, I1, O)
<1>1. /\ Told(written) /\ Recent \subseteq written /\ SmallestSnapshot \in Nat
      /\ T \in [1..kNumLevels -> SUBSET Table] /\ kNumLevels \in Nat
  BY StateParts
<1>2. Fine(T, Recent, written) /\ Shows(Recent \cup All(T), written, SmallestSnapshot)
  BY DEF Good
<1>3. Mergeable(T, l, I0, I1) /\ c.level \in 0..kNumLevels-2
  BY DEF Sound
<1>4. l \in 1..kNumLevels-1 /\ l - 1 = c.level /\ l \in 1..kNumLevels /\ l + 1 \in 1..kNumLevels
  BY <1>1, <1>3
<1>5. I0 \in SUBSET T[l] /\ I1 \in SUBSET T[l+1]
  BY <1>3 DEF Mergeable
<1>6. Distinct(T[l]) /\ Distinct(T[l+1])
  BY <1>2, <1>4 DEF Fine, Distinct
<1>7. AddInputDeletions(c) = Removed(l, I0, I1)
  BY <1>4 DEF AddInputDeletions, Numbers, Removed
<1> HIDE DEF T, l, I0, I1
<1>8. Good(M)
  <2>1. Fine(M, Recent, written)
    BY <1>2, <1>3, MergeIsFine DEF T, l, I0, I1
  <2>2. Shows(Recent \cup All(M), written, SmallestSnapshot)
    BY <1>1, <1>2, <1>3, MergeShows DEF T, l, I0, I1
  <2> QED
    BY <2>1, <2>2 DEF Good
<1>9. After(T, AddInputDeletions(c), Placed(l, O)) = M
  BY <1>1, <1>4, <1>5, <1>6, <1>7, MergeEdit
<1> QED
  BY <1>7, <1>8, <1>9 DEF T, l, I0, I1
-----------------------------------------------------------------------------
(* A compaction starts.                                                    *)

\* Outputs are in the range of the inputs, so they are covered if it is.
LEMMA OutputsAreCovered ==
    ASSUME NEW T, NEW I \in SUBSET Table, NEW O, Replaces(T, I, O), NEW H \in Span, NEW G,
           \A f \in I : Inside(f, H), Covered(H.begin, H.end, G), NEW f \in O
    PROVE  Covered(Lo(f), Hi(f), G)
<1>1. f \in Table /\ EntriesOf(O) \subseteq EntriesOf(I)
  BY DEF Replaces
<1>2. ASSUME NEW e \in ToSet(f.entries)
      PROVE  H.begin <= e.key /\ e.key <= H.end
  <2>1. e \in EntriesOf(I)
    BY <1>1, EntryOf
  <2>2. PICK g \in I : e \in ToSet(g.entries)
    BY <2>1, EntryOf
  <2>3. /\ e.key \in Nat /\ Lo(g) \in Nat /\ Hi(g) \in Nat
        /\ Lo(g) <= e.key /\ e.key <= Hi(g)
    BY <2>2, InTable
  <2>4. H.begin <= Lo(g) /\ Hi(g) <= H.end /\ H.begin \in Nat /\ H.end \in Nat
    BY DEF Inside, Span
  <2> QED
    BY <2>3, <2>4
<1>3. /\ Smallest(f) \in ToSet(f.entries) /\ Largest(f) \in ToSet(f.entries)
      /\ Lo(f) \in Nat /\ Hi(f) \in Nat
  BY <1>1, Ends
<1>4. H.begin <= Lo(f) /\ Hi(f) <= H.end
  BY <1>2, <1>3 DEF Lo, Hi
<1>5. H.begin \in Nat /\ H.end \in Nat
  BY DEF Span
<1> QED
  BY <1>3, <1>4, <1>5, CoveredParts

LEMMA PlacedTables ==
    ASSUME NEW l, NEW O
    PROVE  {a[2] : a \in Placed(l, O)} = O
<1>1. \A f \in O : <<l, f>> \in Placed(l, O) /\ <<l, f>>[2] = f
  BY DEF Placed
<1>2. \A a \in Placed(l, O) : a[2] \in O
  BY DEF Placed
<1>3. \A x : x \in {a[2] : a \in Placed(l, O)} => x \in O
  BY <1>2
<1>4. \A f \in O : f \in {a[2] : a \in Placed(l, O)}
  BY <1>1
<1> QED
  BY <1>3, <1>4

LEMMA StartMerges ==
    ASSUME LevelsInv, NEW c, Sound(files, c), HullCovered(c) \/ (~use.yields /\ imm = {}),
           Start(c), KeysAreWhole'
    PROVE  LevelsInv'
<1> DEFINE T == Sets(files)
           l == c.level + 1
           I0 == ToSet(c.inputs0)
           I1 == ToSet(c.inputs1)
           n == next_file_number
           outs == DoCompactionWork(files, c, MakeInputIterator(c), SmallestSnapshot)
           O == Outputs(outs, n)
           M == Merged(T, l, I0, I1, O)
<1>1. /\ Counted /\ Charged /\ Listed(files) /\ Good(T) /\ NumberedBelow(T, n)
  BY DEF LevelsInv
<1>2. /\ Version(files, Recent, written) /\ Told(written) /\ IsFiniteSet(written)
      /\ SmallestSnapshot \in Nat /\ n \in Nat /\ kNumLevels \in Nat
      /\ T \in [1..kNumLevels -> SUBSET Table]
  BY <1>1, StateParts
<1>3. /\ merge' = [del |-> AddInputDeletions(c), add |-> Placed(l, O)]
      /\ next_file_number' = n + Len(outs)
      /\ UNCHANGED <<last_sequence, snapshots, mem, imm, files, file_to_compact, use, written>>
  <2>1. Begin(c, outs)
    BY DEF Start
  <2>2. DOMAIN outs = 1..Len(outs) => Placed(l, O) =
            {<<c.level + 1, [number |-> next_file_number + i - 1, entries |-> outs[i]]>> : i \in DOMAIN outs}
    BY DEF Placed, Outputs
  <2>3. outs \in Seq(Seq(Update))
    <3>1. /\ MakeInputIterator(c) \in Seq(Update) /\ Rising(MakeInputIterator(c))
      BY <1>2, InputParts
    <3>2. c.grandparents \in Seq(Table)
      BY DEF Sound
    <3> HIDE DEF outs
    <3>3. Parts(outs, Kept(files, c, MakeInputIterator(c), SmallestSnapshot, Len(MakeInputIterator(c))))
      BY <3>1, <3>2, OutputsAreParts DEF outs
    <3> QED
      BY <3>3 DEF Parts
  <2> HIDE DEF outs, O
  <2>4. DOMAIN outs = 1..Len(outs)
    BY <2>3
  <2> QED
    BY <2>1, <2>2, <2>4 DEF Begin
<1>4. Whole(O)
  <2>1. merge' # None
    <3>1. DOMAIN merge' = {"del", "add"} /\ DOMAIN None = {"none"}
      BY <1>3 DEF None
    <3>2. "del" \in {"del", "add"} /\ "del" \notin {"none"}
      OBVIOUS
    <3> QED
      BY <3>1, <3>2
  <2>2. {a[2] : a \in merge'.add} = O
    BY <1>3, PlacedTables
  <2> HIDE DEF O
  <2> QED
    BY <2>1, <2>2 DEF KeysAreWhole
<1> DEFINE I == I0 \cup I1
<1>5. /\ outs \in Seq(Seq(Update)) /\ Replaces(T, I, O)
      /\ Forgets(EntriesOf(I), EntriesOf(O), Deeper(T, l), SmallestSnapshot)
      /\ \A f \in O : f.number >= n /\ f.number < n + Len(outs)
  BY <1>1, <1>2, <1>4, CompactionReplaces
<1> HIDE DEF outs, O
<1>6. /\ Good(M) /\ After(T, AddInputDeletions(c), Placed(l, O)) = M
      /\ AddInputDeletions(c) = Removed(l, I0, I1)
  BY <1>1, <1>5, MergedIsGood
<1>7. /\ Mergeable(T, l, I0, I1) /\ l \in 1..kNumLevels-1 /\ l + 1 \in 1..kNumLevels
      /\ l \in 1..kNumLevels /\ I0 \subseteq T[l] /\ I1 \subseteq T[l+1]
  BY <1>2 DEF Sound, Mergeable
<1>8. Len(outs) \in Nat
  BY <1>5
<1>9. NumberedBelow(M, n + Len(outs))
  <2>1. PICK m : m = n + Len(outs)
    OBVIOUS
  <2>2. m \in Nat /\ n <= m /\ \A f \in O : f.number < m
    BY <1>2, <1>5, <1>8, <2>1
  <2>3. l + 1 \in 1..kNumLevels
    BY <1>7
  <2> HIDE DEF M, T, l, I0, I1, n
  <2>4. NumberedBelow(M, m)
    BY <1>1, <1>2, <2>2, <2>3, MergedNumbers DEF M
  <2> QED
    BY <2>1, <2>4
<1>10. NumberedBelow(T, n + Len(outs))
  <2> SUFFICES ASSUME NEW j \in 1..kNumLevels, NEW f \in T[j]
               PROVE  f.number < n + Len(outs)
    BY DEF NumberedBelow
  <2> HIDE DEF T
  <2>1. f \in Table /\ f.number < n
    BY <1>1, <1>2 DEF NumberedBelow
  <2>2. f.number \in Nat
    BY <2>1, Ends
  <2> QED
    BY <1>2, <1>8, <2>1, <2>2
<1>11. \/ \A f \in O : Covered(Lo(f), Hi(f), I0 \cup I1)
       \/ ~use.yields /\ imm = {}
  <2>1. CASE HullCovered(c)
    <3>1. PICK H \in Span : (\A f \in I : Inside(f, H)) /\ Covered(H.begin, H.end, I)
      BY <2>1 DEF HullCovered
    <3>2. I \in SUBSET Table
      BY <1>2, <1>7
    <3> QED
      BY <1>5, <3>1, <3>2, OutputsAreCovered
  <2> QED
    BY <2>1
<1> HIDE DEF M, T, I0, I1, I, n
<1>12. Recent' = Recent /\ SmallestSnapshot' = SmallestSnapshot /\ Sets(files') = T
  BY <1>3 DEF Recent, SmallestSnapshot, T
<1>13. Counted'
  BY <1>1, <1>2, <1>3, <1>8, <1>12 DEF Counted, n
<1>14. Charged'
  BY <1>1, <1>3 DEF Charged
<1>15. Listed(files)'
  BY <1>1, <1>3 DEF Listed
<1>16. Good(Sets(files))' /\ NumberedBelow(Sets(files), next_file_number)'
  BY <1>1, <1>3, <1>10, <1>12 DEF Good
<1>17. Merging'
  <2>1. I0 \in SUBSET ToSet(files'[l]) /\ I1 \in SUBSET ToSet(files'[l+1])
    BY <1>3, <1>7 DEF T, Sets
  <2>2. /\ merge'.del = {<<l - 1, f.number>> : f \in I0} \cup {<<l, f.number>> : f \in I1}
        /\ merge'.add = {<<l, f>> : f \in O}
    <3> HIDE DEF l
    <3> QED
      BY <1>3, <1>6 DEF Removed, Placed
  <2>7. {a[2] : a \in merge'.add} = O
    BY <1>3, PlacedTables
  <2>3. After(Sets(files'), merge'.del, merge'.add) = M
    BY <1>3, <1>6, <1>12
  <2>4. Fine(M, Recent', written') /\ Shows(Recent' \cup All(M), written', SmallestSnapshot')
    BY <1>3, <1>6, <1>12 DEF Good
  <2>5. NumberedBelow(M, next_file_number')
    BY <1>3, <1>9
  <2>6. \/ \A f \in O : Covered(Lo(f), Hi(f), I0 \cup I1)
        \/ ~use'.yields /\ imm' = {}
    BY <1>3, <1>11
  <2> HIDE DEF l
  <2> QED
    BY <1>7, <2>1, <2>2, <2>3, <2>4, <2>5, <2>6, <2>7 DEF Merging, Good
<1> QED
  BY <1>13, <1>14, <1>15, <1>16, <1>17 DEF LevelsInv
-----------------------------------------------------------------------------
(* A table moves down, and a compaction is installed.                      *)

LEMMA InstalledIsThere ==
    ASSUME LevelsInv, NEW del, NEW add, Good(After(Sets(files), del, add)),
           NumberedBelow(After(Sets(files), del, add), next_file_number),
           Install(SaveTo(files, del, add)), merge' = None,
           UNCHANGED <<last_sequence, snapshots, mem, imm, next_file_number, use, written>>
    PROVE  LevelsInv'
<1> DEFINE M == After(Sets(files), del, add)
<1>1. Counted /\ Listed(files) /\ Good(Sets(files)) /\ Told(written)
  BY StateParts DEF LevelsInv
<1>2. files \in [1..kNumLevels -> Seq(Table)]
  BY <1>1 DEF Listed
<1>3. Fine(M, Recent, written) /\ Shows(Recent \cup All(M), written, SmallestSnapshot)
  BY DEF Good
<1>4. files' = SaveTo(files, del, add) /\ file_to_compact' = None
  BY DEF Install
<1>5. Listed(files') /\ Sets(files') = M
  BY <1>1, <1>2, <1>3, <1>4, SavedIsListed
<1>6. NumberedBelow(M, next_file_number)
  OBVIOUS
<1> HIDE DEF M
<1>7. Recent' = Recent /\ SmallestSnapshot' = SmallestSnapshot
  BY DEF Recent, SmallestSnapshot
<1>8. Counted'
  BY <1>1, <1>7 DEF Counted
<1>9. Charged'
  BY <1>4 DEF Charged
<1>10. Listed(files)'
  BY <1>5 DEF Listed
<1>11. Good(Sets(files))'
  BY <1>3, <1>5, <1>7 DEF Good
<1>12. NumberedBelow(Sets(files), next_file_number)'
  BY <1>5, <1>6
<1> QED
  BY <1>8, <1>9, <1>10, <1>11, <1>12 DEF LevelsInv

LEMMA MoveIsGood ==
    ASSUME LevelsInv, merge = None, NEW c, Sound(files, c), IsTrivialMove(c), TrivialMove(c)
    PROVE  LevelsInv'
<1> DEFINE f == Head(c.inputs0)
           T == Sets(files)
           l == c.level + 1
           M == Merged(T, l, ToSet(c.inputs0), ToSet(c.inputs1), {f})
           n == next_file_number
           I == ToSet(c.inputs0) \cup ToSet(c.inputs1)
<1>1. /\ Counted /\ Listed(files) /\ Good(T) /\ NumberedBelow(T, n)
      /\ T \in [1..kNumLevels -> SUBSET Table] /\ n \in Nat /\ kNumLevels \in Nat
  BY StateParts DEF LevelsInv
<1>2. /\ c.inputs0 \in Seq(Table) /\ Len(c.inputs0) = 1 /\ c.inputs1 = <<>>
      /\ Mergeable(T, l, ToSet(c.inputs0), ToSet(c.inputs1)) /\ c.level \in 0..kNumLevels-2
  BY DEF Sound, Level, IsTrivialMove
<1>3. f \in Table /\ ToSet(c.inputs0) = {f} /\ ToSet(c.inputs1) = {}
  <2>1. c.inputs0[1] \in Table /\ f = c.inputs0[1]
    BY <1>2
  <2>2. ToSet(c.inputs0) = {c.inputs0[1]}
    BY <1>2 DEF ToSet
  <2>3. ToSet(<<>>) = {}
    BY DEF ToSet
  <2> QED
    BY <1>2, <2>1, <2>2, <2>3
<1> HIDE DEF f
<1>4. I = {f}
  BY <1>3
<1>5. Replaces(T, I, {f})
  <2>1. IsFiniteSet({f})
    BY FS_Singleton
  <2> HIDE DEF T, I
  <2> QED
    BY <1>3, <1>4, <2>1 DEF Replaces
<1>6. Forgets(EntriesOf(I), EntriesOf({f}), Deeper(T, l), SmallestSnapshot)
  BY <1>4 DEF Forgets
<1>7. Good(M) /\ After(T, AddInputDeletions(c), Placed(l, {f})) = M
  BY <1>1, <1>5, <1>6, MergedIsGood
<1>8. Placed(l, {f}) = {<<l, f>>}
  BY DEF Placed
<1>9. NumberedBelow(M, n)
  <2>1. l \in 1..kNumLevels /\ l + 1 \in 1..kNumLevels /\ f \in T[l]
    BY <1>1, <1>2, <1>3 DEF Mergeable
  <2>2. f.number < n
    BY <1>1, <2>1 DEF NumberedBelow
  <2>3. \A g \in {f} : g.number < n
    BY <2>2
  <2> HIDE DEF T, l
  <2> QED
    BY <1>1, <2>1, <2>3, MergedNumbers
<1>10. /\ Install(SaveTo(files, AddInputDeletions(c), Placed(l, {f}))) /\ merge' = None
       /\ UNCHANGED <<last_sequence, snapshots, mem, imm, next_file_number, use, written>>
  BY <1>8 DEF TrivialMove, f
<1> HIDE DEF M
<1> QED
  BY <1>7, <1>9, <1>10, InstalledIsThere

LEMMA ResultsAreGood ==
    ASSUME LevelsInv, InstallCompactionResults
    PROVE  LevelsInv'
<1>1. Merging
  BY DEF LevelsInv, InstallCompactionResults
<1> DEFINE next == After(Sets(files), merge.del, merge.add)
<1>2. Good(next) /\ NumberedBelow(next, next_file_number)
  BY <1>1 DEF Merging
<1> QED
  BY <1>2, InstalledIsThere DEF InstallCompactionResults
-----------------------------------------------------------------------------
(* A memtable is flushed.                                                  *)

\* A table apart from some is apart from what they cover.
LEMMA CoveredIsApart ==
    ASSUME NEW f \in Table, NEW o \in Table, NEW G \in SUBSET Table,
           Covered(Lo(o), Hi(o), G), \A g \in G : Apart(f, g)
    PROVE  Apart(f, o)
<1>1. /\ Lo(f) \in Nat /\ Hi(f) \in Nat /\ Lo(f) <= Hi(f)
      /\ Lo(o) \in Nat /\ Hi(o) \in Nat /\ Lo(o) <= Hi(o)
  BY Ends
<1>2. SUFFICES ASSUME ~Apart(f, o)
               PROVE  FALSE
  OBVIOUS
<1> DEFINE k == IF Lo(f) <= Lo(o) THEN Lo(o) ELSE Lo(f)
<1>3. k \in Lo(o)..Hi(o) /\ Lo(f) <= k /\ k <= Hi(f) /\ k \in Nat
  BY <1>1, <1>2 DEF Apart
<1> HIDE DEF k
<1>4. PICK g \in G : Lo(g) <= k /\ k <= Hi(g)
  BY <1>3 DEF Covered
<1>5. Lo(g) \in Nat /\ Hi(g) \in Nat
  BY Ends
<1>6. Hi(f) < Lo(g) \/ Hi(g) < Lo(f)
  BY DEF Apart
<1> QED
  BY <1>1, <1>3, <1>4, <1>5, <1>6

LEMMA FlushesFine ==
    ASSUME NEW T, NEW newer, NEW flushed, NEW old, Fine(T, newer \cup flushed, old),
           Newer(newer, flushed), flushed \subseteq old,
           NEW f \in Table, ToSet(f.entries) = flushed, NumberedBelow(T, f.number),
           NEW p \in 1..kNumLevels, p # 1 => \A m \in 1..p : \A g \in T[m] : Apart(f, g)
    PROVE  /\ Fine(Added(T, p, f), newer, old)
           /\ newer \cup All(Added(T, p, f)) = (newer \cup flushed) \cup All(T)
<1>1. \A m \in 1..kNumLevels : \A g \in T[m] : g.number < f.number
  BY DEF NumberedBelow
<1> QED
  BY <1>1, FlushIsFine

LEMMA FlushInto ==
    ASSUME NEW T, NEW newer, NEW flushed, NEW old, NEW s,
           Fine(T, newer \cup flushed, old), Shows((newer \cup flushed) \cup All(T), old, s),
           Newer(newer, flushed), flushed \subseteq old,
           NEW f \in Table, ToSet(f.entries) = flushed, NumberedBelow(T, f.number),
           NEW p \in 1..kNumLevels, p # 1 => \A m \in 1..p : \A g \in T[m] : Apart(f, g)
    PROVE  /\ Fine(Added(T, p, f), newer, old)
           /\ Shows(newer \cup All(Added(T, p, f)), old, s)
           /\ NumberedBelow(Added(T, p, f), f.number + 1)
<1>1. Fine(Added(T, p, f), newer, old)
  BY FlushesFine
<1>2. newer \cup All(Added(T, p, f)) = (newer \cup flushed) \cup All(T)
  BY FlushesFine
<1>3. NumberedBelow(Added(T, p, f), f.number + 1)
  <2> SUFFICES ASSUME NEW m \in 1..kNumLevels, NEW g \in Added(T, p, f)[m]
               PROVE  g.number < f.number + 1
    BY DEF NumberedBelow
  <2>1. g \in T[m] \/ g = f
    BY DEF Added
  <2>2. g \in Table
    <3>1. T \in [1..kNumLevels -> SUBSET Table]
      BY DEF Fine
    <3> QED
      BY <2>1, <3>1
  <2>3. g.number \in Nat /\ f.number \in Nat
    BY <2>2, Ends
  <2>4. CASE g \in T[m]
    <3>1. g.number < f.number
      BY <2>4 DEF NumberedBelow
    <3> QED
      BY <2>3, <3>1
  <2> QED
    BY <2>1, <2>3, <2>4
<1> QED
  BY <1>1, <1>2, <1>3

\* The table of the memtable, and the version with it.
LEMMA FlushedTable ==
    ASSUME LevelsInv, imm # {}
    PROVE  LET f == [number |-> next_file_number, entries |-> InOrder(imm, Less)]
               p == PickLevelForMemTableOutput(files, UserRange(<<f>>))
           IN  /\ f \in Table /\ f.number = next_file_number /\ ToSet(f.entries) = imm
               /\ p \in 0..kNumLevels-2
               /\ p # 0 => \A m \in 1..p+1 : \A g \in Sets(files)[m] : Apart(f, g)
<1> DEFINE f == [number |-> next_file_number, entries |-> InOrder(imm, Less)]
           p == PickLevelForMemTableOutput(files, UserRange(<<f>>))
<1>1. /\ Version(files, Recent, written) /\ Told(written) /\ IsFiniteSet(written)
      /\ next_file_number \in Nat /\ Recent \subseteq written /\ kNumLevels \in Nat
  BY StateParts DEF LevelsInv
<1>2. imm \subseteq written
  BY <1>1 DEF Recent
<1>3. Told(imm) /\ IsFiniteSet(imm)
  BY <1>1, <1>2, ToldSubset, FS_Subset
<1> DEFINE s == InOrder(imm, Less)
<1>4. /\ s \in Seq(imm) /\ ToSet(s) = imm
      /\ \A i, j \in 1..Len(s) : i < j => Less(s[i], s[j])
  BY <1>3, UpdatesInOrder
<1> HIDE DEF s
<1>5. s \in Seq(Update)
  <2>1. imm \subseteq Update
    BY <1>3 DEF Told
  <2> QED
    BY <1>4, <2>1
<1>6. s # <<>>
  <2>1. ToSet(<<>>) = {}
    BY DEF ToSet
  <2> QED
    BY <1>4, <2>1
<1>7. f = [number |-> next_file_number, entries |-> s]
  BY DEF s
<1> HIDE DEF f
<1>8. f \in Table /\ f.number = next_file_number /\ f.entries = s
  BY <1>1, <1>4, <1>5, <1>6, <1>7 DEF Table
<1>9. Told(ToSet(f.entries))
  BY <1>3, <1>4, <1>8
<1>10. /\ p \in 0..kNumLevels-2
       /\ p # 0 => \A m \in 1..p+1 : \A g \in ToSet(files[m]) : Apart(f, g)
  BY <1>1, <1>8, <1>9, PickedLevelIsClear
<1> HIDE DEF p
<1>11. p # 0 => \A m \in 1..p+1 : \A g \in Sets(files)[m] : Apart(f, g)
  <2>1. \A m \in 1..p+1 : m \in 1..kNumLevels
    BY <1>1, <1>10
  <2> QED
    BY <1>10, <2>1 DEF Sets
<1> QED
  BY <1>4, <1>8, <1>10, <1>11 DEF f, p

LEMMA FlushIsGood ==
    ASSUME LevelsInv, CompactMemTable
    PROVE  LevelsInv'
<1>1. PICK f, p :
         /\ f = [number |-> next_file_number, entries |-> InOrder(imm, Less)]
         /\ p = PickLevelForMemTableOutput(files, UserRange(<<f>>))
  OBVIOUS
<1> DEFINE T == Sets(files)
           A == Added(T, p + 1, f)
<1>2. PICK n : n = next_file_number
  OBVIOUS
<1>3. /\ imm # {} /\ imm' = {} /\ next_file_number' = n + 1
      /\ Install(SaveTo(files, {}, {<<p, f>>}))
      /\ UNCHANGED <<last_sequence, snapshots, mem, compact_pointer, merge, merges, use, written>>
  BY <1>1, <1>2 DEF CompactMemTable
<1>4. /\ f \in Table /\ f.number = n /\ ToSet(f.entries) = imm
      /\ p \in 0..kNumLevels-2
      /\ p # 0 => \A m \in 1..p+1 : \A g \in T[m] : Apart(f, g)
  BY <1>1, <1>2, <1>3, FlushedTable
<1>5. /\ Counted /\ Listed(files) /\ Good(T) /\ NumberedBelow(T, n)
      /\ T \in [1..kNumLevels -> SUBSET Table] /\ n \in Nat /\ kNumLevels \in Nat
      /\ Told(written) /\ Recent \subseteq written
  BY <1>2, StateParts DEF LevelsInv
<1>6. /\ Newer(mem, imm) /\ imm \subseteq written /\ Recent = mem \cup imm
  BY <1>5 DEF Counted, Recent
<1>7. p + 1 \in 1..kNumLevels /\ (p + 1 = 1 <=> p = 0) /\ p \in 0..kNumLevels-1 /\ (p + 1) - 1 = p
  BY <1>4, <1>5
<1>8. Fine(T, mem \cup imm, written) /\ Shows((mem \cup imm) \cup All(T), written, SmallestSnapshot)
  BY <1>5, <1>6 DEF Good
<1> HIDE DEF T
<1>9. /\ Fine(A, mem, written) /\ Shows(mem \cup All(A), written, SmallestSnapshot)
      /\ NumberedBelow(A, n + 1)
  <2>1. p + 1 # 1 => \A m \in 1..p+1 : \A g \in T[m] : Apart(f, g)
    BY <1>4, <1>7
  <2>2. NumberedBelow(T, f.number)
    BY <1>4, <1>5
  <2>3. ToSet(f.entries) = imm /\ f \in Table
    BY <1>4
  <2>4. /\ Fine(A, mem, written) /\ Shows(mem \cup All(A), written, SmallestSnapshot)
        /\ NumberedBelow(A, f.number + 1)
    BY <1>6, <1>7, <1>8, <2>1, <2>2, <2>3, FlushInto
  <2> QED
    BY <1>4, <2>4
<1>10. Listed(files') /\ Sets(files') = A /\ file_to_compact' = None
  <2>1. After(T, {}, {<<p, f>>}) = A
    BY <1>5, <1>7, FlushEdit
  <2>2. files \in [1..kNumLevels -> Seq(Table)]
    BY <1>5 DEF Listed
  <2>3. files' = SaveTo(files, {}, {<<p, f>>}) /\ file_to_compact' = None
    BY <1>3 DEF Install
  <2> QED
    BY <1>5, <1>9, <2>1, <2>2, <2>3, SavedIsListed DEF T
<1>11. Recent' = mem /\ SmallestSnapshot' = SmallestSnapshot
  BY <1>3 DEF Recent, SmallestSnapshot
<1>12. Counted'
  <2>1. mem \subseteq written
    BY <1>5, <1>6
  <2>2. Newer(mem, {})
    BY DEF Newer
  <2> QED
    BY <1>3, <1>5, <1>11, <2>1, <2>2 DEF Counted
<1>13. Charged'
  BY <1>10 DEF Charged
<1>14. Listed(files)' /\ Good(Sets(files))' /\ NumberedBelow(Sets(files), next_file_number)'
  BY <1>3, <1>9, <1>10, <1>11 DEF Good, Listed
<1>15. ASSUME merge # None
       PROVE  Merging'
  <2> DEFINE O == {a[2] : a \in merge.add}
             next == After(T, merge.del, merge.add)
  <2>1. PICK l \in 1..kNumLevels-1 :
          \E inputs0 \in SUBSET ToSet(files[l]), inputs1 \in SUBSET ToSet(files[l+1]) :
            /\ merge.del = {<<l - 1, g.number>> : g \in inputs0} \cup {<<l, g.number>> : g \in inputs1}
            /\ merge.add = {<<l, g>> : g \in O}
            /\ \/ \A g \in O : Covered(Lo(g), Hi(g), inputs0 \cup inputs1)
               \/ ~use.yields /\ imm = {}
            /\ Good(next) /\ NumberedBelow(next, n)
    BY <1>2, <1>15 DEF LevelsInv, Merging, T
  <2>2. PICK I0 \in SUBSET ToSet(files[l]), I1 \in SUBSET ToSet(files[l+1]) :
            /\ merge.del = {<<l - 1, g.number>> : g \in I0} \cup {<<l, g.number>> : g \in I1}
            /\ merge.add = {<<l, g>> : g \in O}
            /\ \/ \A g \in O : Covered(Lo(g), Hi(g), I0 \cup I1)
               \/ ~use.yields /\ imm = {}
            /\ Good(next) /\ NumberedBelow(next, n)
    BY <2>1
  <2>3. l \in 1..kNumLevels /\ l + 1 \in 1..kNumLevels
    BY <1>5
  <2>4. I0 \subseteq T[l] /\ I1 \subseteq T[l+1]
    BY <2>2, <2>3 DEF T, Sets
  <2>5. \A g \in O : Covered(Lo(g), Hi(g), I0 \cup I1)
    BY <1>3, <2>2
  <2> HIDE DEF O
  <2>6. <<p, f.number>> \notin merge.del
    <3> SUFFICES ASSUME <<p, f.number>> \in merge.del
                 PROVE  FALSE
      OBVIOUS
    <3>1. PICK g \in I0 \cup I1 : f.number = g.number
      BY <2>2
    <3>2. g.number < n
      BY <1>5, <2>3, <2>4 DEF NumberedBelow
    <3> QED
      BY <1>4, <1>5, <3>1, <3>2
  <2>7. After(A, merge.del, merge.add) = Added(next, p + 1, f)
    <3>1. PICK q : q = p + 1
      OBVIOUS
    <3>2. q \in 1..kNumLevels
      BY <1>7, <3>1
    <3>4. <<q - 1, f.number>> \notin merge.del
      BY <1>7, <2>6, <3>1
    <3>5. T \in [1..kNumLevels -> SUBSET Table]
      BY <1>5
    <3> HIDE DEF next, A
    <3>3. After(Added(T, q, f), merge.del, merge.add) = Added(After(T, merge.del, merge.add), q, f)
      BY <3>2, <3>4, <3>5, AfterAdded
    <3> QED
      BY <3>1, <3>3 DEF next, A
  <2>8. ASSUME NEW m \in 1..kNumLevels, NEW g \in next[m]
        PROVE  g \in T[m] \/ (m = l + 1 /\ g \in O)
    <3>1. g \in T[m] \/ \E b \in merge.add : b[1] = m - 1 /\ g = b[2]
      BY DEF After
    <3>2. ASSUME NEW b \in merge.add, b[1] = m - 1, g = b[2]
          PROVE  m = l + 1 /\ g \in O
      <4>1. PICK h \in O : b = <<l, h>>
        BY <2>2
      <4>2. b[1] = l /\ b[2] = h
        BY <4>1
      <4> QED
        BY <3>2, <4>2, <1>5
    <3> QED
      BY <3>1, <3>2
  <2>9. Fine(next, mem \cup imm, written) /\ Shows((mem \cup imm) \cup All(next), written, SmallestSnapshot)
    BY <1>6, <2>2 DEF Good
  <2>10. next \in [1..kNumLevels -> SUBSET Table]
    BY <2>9 DEF Fine
  <2> HIDE DEF next
  <2>11. p + 1 # 1 => \A m \in 1..p+1 : \A g \in next[m] : Apart(f, g)
    <3> SUFFICES ASSUME p # 0, NEW m \in 1..p+1, NEW g \in next[m]
                 PROVE  Apart(f, g)
      BY <1>7
    <3>1. m \in 1..kNumLevels
      BY <1>5, <1>7
    <3>2. CASE g \in T[m]
      BY <1>4, <3>2
    <3>3. CASE m = l + 1 /\ g \in O
      <4>1. l \in 1..p+1 /\ l + 1 \in 1..p+1
        BY <2>3, <3>3, <1>4, <1>5
      <4>2. I0 \cup I1 \in SUBSET Table
        BY <1>5, <2>3, <2>4
      <4>3. \A h \in I0 \cup I1 : Apart(f, h)
        BY <1>4, <2>4, <4>1
      <4>4. g \in Table
        BY <2>10, <3>1
      <4> QED
        BY <1>4, <2>5, <3>3, <4>2, <4>3, <4>4, CoveredIsApart
    <3> QED
      BY <2>8, <3>1, <3>2, <3>3
  <2>12. /\ Fine(Added(next, p + 1, f), mem, written)
         /\ Shows(mem \cup All(Added(next, p + 1, f)), written, SmallestSnapshot)
         /\ NumberedBelow(Added(next, p + 1, f), n + 1)
    <3>1. NumberedBelow(next, f.number)
      BY <1>4, <2>2
    <3>2. ToSet(f.entries) = imm /\ f \in Table
      BY <1>4
    <3>3. /\ Fine(Added(next, p + 1, f), mem, written)
          /\ Shows(mem \cup All(Added(next, p + 1, f)), written, SmallestSnapshot)
          /\ NumberedBelow(Added(next, p + 1, f), f.number + 1)
      BY <1>6, <1>7, <2>9, <2>11, <3>1, <3>2, FlushInto
    <3> QED
      BY <1>4, <3>3
  <2>13. I0 \in SUBSET ToSet(files'[l]) /\ I1 \in SUBSET ToSet(files'[l+1])
    <3>1. \A m \in 1..kNumLevels : ToSet(files'[m]) = A[m] /\ T[m] \subseteq A[m]
      BY <1>10 DEF Sets, Added
    <3> QED
      BY <2>3, <2>4, <3>1
  <2>14. After(Sets(files'), merge'.del, merge'.add) = Added(next, p + 1, f)
    BY <1>3, <1>10, <2>7
  <2>15. /\ Good(Added(next, p + 1, f))' <=> (/\ Fine(Added(next, p + 1, f)', Recent', written')
                                             /\ Shows(Recent' \cup All(Added(next, p + 1, f)'), written', SmallestSnapshot'))
    BY DEF Good
  <2>16. /\ merge'.del = {<<l - 1, g.number>> : g \in I0} \cup {<<l, g.number>> : g \in I1}
         /\ {a[2] : a \in merge'.add} = O /\ merge'.add = {<<l, g>> : g \in O}
    BY <1>3, <2>2 DEF O
  <2>17. /\ Fine(Added(next, p + 1, f), Recent', written')
         /\ Shows(Recent' \cup All(Added(next, p + 1, f)), written', SmallestSnapshot')
         /\ NumberedBelow(Added(next, p + 1, f), next_file_number')
    BY <1>3, <1>11, <2>12
  <2> QED
    BY <2>5, <2>13, <2>14, <2>16, <2>17 DEF Merging, Good
<1> QED
  BY <1>3, <1>12, <1>13, <1>14, <1>15 DEF LevelsInv
-----------------------------------------------------------------------------
(* Writes, snapshots, and the switch of the memtable.                      *)

\* What changes the memtables or the snapshots and leaves the tables alone.
LEMMA TablesStay ==
    ASSUME LevelsInv, Counted', Charged', UNCHANGED <<files, merge, use, next_file_number>>,
           \A T : /\ Fine(T, Recent, written)
                  /\ Shows(Recent \cup All(T), written, SmallestSnapshot)
                  => /\ Fine(T, Recent', written')
                     /\ Shows(Recent' \cup All(T), written', SmallestSnapshot'),
           merge # None /\ ~use.yields /\ imm = {} => imm' = {}
    PROVE  LevelsInv'
<1>1. PICK T, n : T = Sets(files) /\ n = next_file_number
  OBVIOUS
<1>2. Sets(files') = T /\ next_file_number' = n /\ merge' = merge
  BY <1>1 DEF Sets
<1>3. Good(T) /\ NumberedBelow(T, n) /\ Listed(files)
  BY <1>1 DEF LevelsInv
<1>4. Good(Sets(files))' /\ NumberedBelow(Sets(files), next_file_number)'
  BY <1>2, <1>3 DEF Good
<1>5. Charged'
  OBVIOUS
<1>6. Listed(files)'
  BY <1>3
<1>7. ASSUME merge # None
      PROVE  Merging'
  <2> DEFINE O == {a[2] : a \in merge.add}
  <2>0. PICK next : next = After(T, merge.del, merge.add)
    OBVIOUS
  <2>1. PICK l \in 1..kNumLevels-1 :
          \E inputs0 \in SUBSET ToSet(files[l]), inputs1 \in SUBSET ToSet(files[l+1]) :
            /\ merge.del = {<<l - 1, g.number>> : g \in inputs0} \cup {<<l, g.number>> : g \in inputs1}
            /\ merge.add = {<<l, g>> : g \in O}
            /\ \/ \A g \in O : Covered(Lo(g), Hi(g), inputs0 \cup inputs1)
               \/ ~use.yields /\ imm = {}
            /\ Good(next) /\ NumberedBelow(next, n)
    BY <1>1, <1>7, <2>0 DEF LevelsInv, Merging
  <2>2. PICK I0 \in SUBSET ToSet(files[l]), I1 \in SUBSET ToSet(files[l+1]) :
            /\ merge.del = {<<l - 1, g.number>> : g \in I0} \cup {<<l, g.number>> : g \in I1}
            /\ merge.add = {<<l, g>> : g \in O}
            /\ \/ \A g \in O : Covered(Lo(g), Hi(g), I0 \cup I1)
               \/ ~use.yields /\ imm = {}
            /\ Good(next) /\ NumberedBelow(next, n)
    BY <2>1
  <2> HIDE DEF O
  <2>3. I0 \in SUBSET ToSet(files'[l]) /\ I1 \in SUBSET ToSet(files'[l+1])
    OBVIOUS
  <2>4. /\ merge'.del = {<<l - 1, g.number>> : g \in I0} \cup {<<l, g.number>> : g \in I1}
        /\ {a[2] : a \in merge'.add} = O /\ merge'.add = {<<l, g>> : g \in O}
    BY <1>2, <2>2 DEF O
  <2>5. After(Sets(files'), merge'.del, merge'.add) = next
    BY <1>2, <2>0
  <2>6. /\ Fine(next, Recent', written')
        /\ Shows(Recent' \cup All(next), written', SmallestSnapshot')
        /\ NumberedBelow(next, next_file_number')
    BY <1>2, <2>2 DEF Good
  <2>7. \/ \A g \in O : Covered(Lo(g), Hi(g), I0 \cup I1)
        \/ ~use'.yields /\ imm' = {}
    BY <1>7, <2>2
  <2> QED
    BY <2>3, <2>4, <2>5, <2>6, <2>7 DEF Merging, Good
<1> QED
  BY <1>2, <1>4, <1>5, <1>6, <1>7 DEF LevelsInv

LEMMA ChargedStays ==
    ASSUME LevelsInv, UNCHANGED <<files, file_to_compact>>
    PROVE  Charged'
BY DEF LevelsInv, Charged

LEMMA LaterShows ==
    ASSUME NEW es, NEW old, NEW s \in Nat, NEW t \in Nat, s <= t, Shows(es, old, s)
    PROVE  Shows(es, old, t)
<1>1. MaxWrites \in Nat
  BY LevelsAssumption
<1>2. t..MaxWrites \subseteq s..MaxWrites
  BY <1>1
<1> QED
  BY <1>2 DEF Shows

\* A write is newer than all that was written.
LEMMA WrittenIsFine ==
    ASSUME NEW T, NEW recent, NEW old, NEW s \in Nat, NEW t \in Nat, s <= t,
           Told(old), recent \subseteq old, Fine(T, recent, old), Shows(recent \cup All(T), old, s),
           NEW e \in Update, e.seq <= MaxWrites, \A a \in old : a.seq < e.seq
    PROVE  /\ Fine(T, recent \cup {e}, old \cup {e})
           /\ Shows((recent \cup {e}) \cup All(T), old \cup {e}, t)
<1>1. \A l \in 1..kNumLevels : EntriesOf(T[l]) \subseteq old
  BY DEF Fine
<1>2. Fine(T, recent \cup {e}, old \cup {e})
  <2>1. \A l \in 1..kNumLevels : EntriesOf(T[l]) \subseteq old \cup {e}
    BY <1>1
  <2>2. \A l \in 1..kNumLevels : Newer(recent \cup {e}, EntriesOf(T[l]))
    <3> SUFFICES ASSUME NEW l \in 1..kNumLevels, NEW a \in recent \cup {e}, NEW b \in EntriesOf(T[l]),
                        a.key = b.key
                 PROVE  a.seq > b.seq
      BY DEF Newer
    <3>1. CASE a \in recent
      BY <3>1 DEF Fine, Newer
    <3>2. CASE a = e
      <4>1. b \in old /\ b \in Update
        BY <1>1 DEF Told
      <4>2. b.seq < e.seq /\ b.seq \in Nat /\ e.seq \in Nat
        BY <4>1, KeysAreNumbers
      <4> QED
        BY <3>2, <4>2
    <3> QED
      BY <3>1, <3>2
  <2> QED
    BY <2>1, <2>2 DEF Fine
<1> DEFINE es == recent \cup All(T)
<1>3. es \subseteq old
  <2> SUFFICES ASSUME NEW a \in All(T)
               PROVE  a \in old
    OBVIOUS
  <2>1. PICK m \in 1..kNumLevels : a \in EntriesOf(T[m])
    BY EntryOfAll
  <2> QED
    BY <1>1, <2>1
<1>4. Shows(es, old, t)
  BY LaterShows
<1>5. Told(old \cup {e})
  <2>1. e.seq \in Nat /\ \A a \in old : a.seq \in Nat
    BY KeysAreNumbers DEF Told
  <2>2. \A a, b \in old \cup {e} : a.seq = b.seq => a = b
    BY <2>1 DEF Told
  <2>3. old \cup {e} \subseteq Update /\ \A a \in old \cup {e} : a.seq <= MaxWrites
    BY DEF Told
  <2> QED
    BY <2>2, <2>3 DEF Told
<1> HIDE DEF es
<1>6. Told(es \cup {e})
  BY <1>3, <1>5, ToldSubset
<1>7. ASSUME NEW k \in Keys, NEW r \in t..MaxWrites
      PROVE  Value(Newest(es \cup {e}, k, r)) = Value(Newest(old \cup {e}, k, r))
  <2>1. r \in Nat /\ MaxWrites \in Nat
    BY LevelsAssumption
  <2>2. CASE e.key = k /\ e.seq <= r
    <3>1. ASSUME NEW ds, ds \subseteq old, Told(ds \cup {e})
          PROVE  Newest(ds \cup {e}, k, r) = e
      <4>1. e \in Seen(ds \cup {e}, k, r)
        BY <2>2 DEF Seen
      <4>2. \A d \in Seen(ds \cup {e}, k, r) : d.seq <= e.seq
        <5> SUFFICES ASSUME NEW d \in ds \cup {e}
                     PROVE  d.seq <= e.seq
          BY DEF Seen
        <5>1. d \in Update
          BY <3>1 DEF Told
        <5>2. d.seq \in Nat /\ e.seq \in Nat
          BY <5>1, KeysAreNumbers
        <5>3. d = e \/ d.seq < e.seq
          BY <3>1
        <5> QED
          BY <5>2, <5>3
      <4> QED
        BY <2>1, <3>1, <4>1, <4>2, NewestIs
    <3>2. Newest(es \cup {e}, k, r) = e
      BY <1>3, <1>6, <3>1
    <3>3. Newest(old \cup {e}, k, r) = e
      BY <1>5, <3>1
    <3> QED
      BY <3>2, <3>3
  <2>3. CASE ~(e.key = k /\ e.seq <= r)
    <3>1. ASSUME NEW ds
          PROVE  Newest(ds \cup {e}, k, r) = Newest(ds, k, r)
      <4>1. {a \in ds \cup {e} : a.key = k /\ a.seq <= r} = {a \in ds : a.key = k /\ a.seq <= r}
        BY <2>3
      <4> QED
        BY <4>1 DEF Newest
    <3>2. Value(Newest(es, k, r)) = Value(Newest(old, k, r))
      BY <1>4 DEF Shows
    <3> QED
      BY <3>1, <3>2
  <2> QED
    BY <2>2, <2>3
<1>8. (recent \cup {e}) \cup All(T) = es \cup {e}
  BY DEF es
<1>9. Shows(es \cup {e}, old \cup {e}, t)
  BY <1>7 DEF Shows
<1> QED
  BY <1>2, <1>8, <1>9
LEMMA WriteIsGood ==
    ASSUME LevelsInv, NEW k \in use.keys, NEW del \in BOOLEAN, Write(k, del)
    PROVE  LevelsInv'
<1>1. PICK e : e = Entry(k, last_sequence + 1, del)
  OBVIOUS
<1>2. /\ last_sequence < use.writes /\ last_sequence' = last_sequence + 1
      /\ mem' = mem \cup {e} /\ written' = written \cup {e}
      /\ UNCHANGED <<snapshots, imm, files, compact_pointer, file_to_compact, next_file_number,
                     merge, merges, use>>
  BY <1>1 DEF Write
<1>3. /\ Counted /\ Told(written) /\ Recent \subseteq written /\ SmallestSnapshot \in 0..last_sequence
      /\ last_sequence \in Nat /\ SmallestSnapshot \in Nat /\ MaxWrites \in Nat
  BY StateParts DEF LevelsInv
<1>4. use \in Use /\ use.keys \subseteq Keys /\ use.writes \in 0..MaxWrites
  <2>1. use \in Use
    BY <1>3, LevelsAssumption DEF Counted
  <2> QED
    BY <2>1 DEF Use
<1>5. /\ e \in Update /\ e.seq = last_sequence + 1 /\ e.seq <= MaxWrites
      /\ last_sequence + 1 \in 0..MaxWrites
  <2>1. last_sequence + 1 \in Nat \ {0} /\ last_sequence + 1 <= MaxWrites
    BY <1>2, <1>3, <1>4
  <2> QED
    BY <1>1, <1>4, <2>1 DEF Entry, Update
<1>6. \A a \in written : a.seq < e.seq /\ a.seq \in Nat
  <2> SUFFICES ASSUME NEW a \in written
               PROVE  a.seq < e.seq /\ a.seq \in Nat
    OBVIOUS
  <2>1. a \in Update /\ a.seq <= last_sequence
    BY <1>3 DEF Counted
  <2>2. a.seq \in Nat
    BY <2>1, KeysAreNumbers
  <2> QED
    BY <1>3, <1>5, <2>1, <2>2
<1>7. Recent' = Recent \cup {e}
  BY <1>2 DEF Recent
<1>8. SmallestSnapshot' \in Nat /\ SmallestSnapshot <= SmallestSnapshot'
  <2>1. CASE snapshots = <<>>
    BY <1>2, <1>3, <2>1 DEF SmallestSnapshot
  <2>2. CASE snapshots # <<>>
    BY <1>2, <1>3, <2>2 DEF SmallestSnapshot
  <2> QED
    BY <2>1, <2>2
<1>9. Counted'
  <2>1. use' \in Uses /\ last_sequence' \in 0..MaxWrites /\ next_file_number' \in Nat
    BY <1>2, <1>3, <1>5 DEF Counted
  <2>2. snapshots' \in Seq(0..last_sequence')
    <3>1. PICK A, B : A = 0..last_sequence /\ B = 0..last_sequence'
      OBVIOUS
    <3>2. snapshots \in Seq(A)
      BY <1>3, <3>1 DEF Counted
    <3>3. A \subseteq B
      BY <1>2, <1>3, <3>1
    <3>4. snapshots \in Seq(B)
      BY <3>2, <3>3
    <3> QED
      BY <1>2, <3>1, <3>4
  <2>3. \A i, j \in 1..Len(snapshots') : i <= j => snapshots'[i] <= snapshots'[j]
    BY <1>2, <1>3 DEF Counted
  <2>4. written' \subseteq Update /\ IsFiniteSet(written')
    BY <1>2, <1>3, <1>5, FS_AddElement DEF Counted
  <2>5. \A a \in written' : a.seq <= last_sequence'
    <3> SUFFICES ASSUME NEW a \in written'
                 PROVE  a.seq <= last_sequence + 1
      BY <1>2
    <3>1. CASE a = e
      BY <1>3, <1>5, <3>1
    <3>2. CASE a \in written
      BY <1>3, <1>5, <1>6, <3>2
    <3> QED
      BY <1>2, <3>1, <3>2
  <2>6. \A a, b \in written' : a.seq = b.seq => a = b
    <3> SUFFICES ASSUME NEW a \in written \cup {e}, NEW b \in written \cup {e}, a.seq = b.seq
                 PROVE  a = b
      BY <1>2
    <3>1. CASE a \in written /\ b \in written
      BY <1>3, <3>1 DEF Counted
    <3>2. CASE a = e /\ b \in written
      BY <1>3, <1>5, <1>6, <3>2
    <3>3. CASE a \in written /\ b = e
      BY <1>3, <1>5, <1>6, <3>3
    <3> QED
      BY <3>1, <3>2, <3>3
  <2>7. Recent' \subseteq written'
    BY <1>2, <1>3, <1>7
  <2>8. Newer(mem', imm')
    <3> SUFFICES ASSUME NEW a \in mem \cup {e}, NEW b \in imm, a.key = b.key
                 PROVE  a.seq > b.seq
      BY <1>2 DEF Newer
    <3>1. CASE a \in mem
      BY <1>3, <3>1 DEF Counted, Newer
    <3>2. CASE a = e
      <4>1. b \in written
        BY <1>3 DEF Recent
      <4> QED
        BY <1>3, <1>5, <1>6, <3>2, <4>1
    <3> QED
      BY <3>1, <3>2
  <2> QED
    BY <2>1, <2>2, <2>3, <2>4, <2>5, <2>6, <2>7, <2>8 DEF Counted
<1>10. \A T : /\ Fine(T, Recent, written)
              /\ Shows(Recent \cup All(T), written, SmallestSnapshot)
              => /\ Fine(T, Recent', written')
                 /\ Shows(Recent' \cup All(T), written', SmallestSnapshot')
  <2> SUFFICES ASSUME NEW T, Fine(T, Recent, written),
                      Shows(Recent \cup All(T), written, SmallestSnapshot)
               PROVE  /\ Fine(T, Recent', written')
                      /\ Shows(Recent' \cup All(T), written', SmallestSnapshot')
    OBVIOUS
  <2>1. PICK r, w, s, t : r = Recent /\ w = written /\ s = SmallestSnapshot /\ t = SmallestSnapshot'
    OBVIOUS
  <2>2. /\ Fine(T, r \cup {e}, w \cup {e})
        /\ Shows((r \cup {e}) \cup All(T), w \cup {e}, t)
    BY <1>3, <1>5, <1>6, <1>8, <2>1, WrittenIsFine
  <2> QED
    BY <1>2, <1>7, <2>1, <2>2
<1> QED
  BY <1>2, <1>9, <1>10, TablesStay, ChargedStays

LEMMA SwitchIsGood ==
    ASSUME LevelsInv, SwitchMemTable
    PROVE  LevelsInv'
<1>1. /\ imm = {} /\ imm' = mem /\ mem' = {} /\ (merge # None => use.yields)
      /\ UNCHANGED <<last_sequence, snapshots, files, compact_pointer, file_to_compact,
                     next_file_number, merge, merges, use, written>>
  BY DEF SwitchMemTable
<1>2. Recent' = Recent /\ SmallestSnapshot' = SmallestSnapshot
  BY <1>1 DEF Recent, SmallestSnapshot
<1>3. Newer(mem', imm')
  BY <1>1 DEF Newer
<1>4. Counted'
  BY <1>1, <1>2, <1>3 DEF LevelsInv, Counted
<1> QED
  BY <1>1, <1>2, <1>4, TablesStay, ChargedStays

\* Numbers in order stay so.
LEMMA GrowsInOrder ==
    ASSUME NEW n \in Nat, NEW s \in Seq(0..n),
           \A i, j \in 1..Len(s) : i <= j => s[i] <= s[j]
    PROVE  \A i, j \in 1..Len(Append(s, n)) : i <= j => Append(s, n)[i] <= Append(s, n)[j]
<1> DEFINE t == Append(s, n)
           m == Len(s)
<1>1. PICK S : S = 0..n
  OBVIOUS
<1>2. /\ t \in Seq(S) /\ Len(t) = m + 1 /\ t[m+1] = n /\ m \in Nat
      /\ \A i \in 1..m : t[i] = s[i]
  BY <1>1
<1> HIDE DEF t
<1> SUFFICES ASSUME NEW i \in 1..m+1, NEW j \in 1..m+1, i <= j
             PROVE  t[i] <= t[j]
  BY <1>2 DEF t
<1>3. t[i] \in S
  BY <1>2
<1>4. CASE j = m + 1
  BY <1>1, <1>2, <1>3, <1>4
<1>5. CASE j # m + 1
  <2>1. i \in 1..m /\ j \in 1..m
    BY <1>2, <1>5
  <2> QED
    BY <1>2, <2>1
<1> QED
  BY <1>4, <1>5

LEMMA Without ==
    ASSUME NEW S, NEW s \in Seq(S), NEW x \in 1..Len(s)
    PROVE  LET t == SubSeq(s, 1, x - 1) \o SubSeq(s, x + 1, Len(s))
           IN  /\ t \in Seq(S) /\ Len(t) = Len(s) - 1
               /\ \A i \in 1..Len(s)-1 : t[i] = IF i < x THEN s[i] ELSE s[i+1]
<1> DEFINE n == Len(s)
           p == SubSeq(s, 1, x - 1)
           q == SubSeq(s, x + 1, n)
           t == p \o q
<1>1. n \in Nat
  OBVIOUS
<1>2. p \in Seq(S) /\ Len(p) = x - 1 /\ \A i \in 1..x-1 : p[i] = s[i]
  OBVIOUS
<1>3. q \in Seq(S) /\ Len(q) = n - x /\ \A i \in 1..n-x : q[i] = s[x+i]
  OBVIOUS
<1> HIDE DEF p, q
<1>8. p \in Seq(S) /\ q \in Seq(S)
  BY <1>2, <1>3
<1>4. t \in Seq(S) /\ Len(t) = Len(p) + Len(q)
  BY <1>8, ConcatProperties
<1>5. \A i \in 1..Len(p) + Len(q) : t[i] = IF i <= Len(p) THEN p[i] ELSE q[i - Len(p)]
  BY <1>8, ConcatProperties
<1> HIDE DEF t
<1>6. Len(t) = n - 1
  BY <1>1, <1>2, <1>3, <1>4
<1>7. ASSUME NEW i \in 1..n-1
      PROVE  t[i] = IF i < x THEN s[i] ELSE s[i+1]
  <2>1. t[i] = IF i <= Len(p) THEN p[i] ELSE q[i - Len(p)]
    <3>1. i \in 1..Len(p) + Len(q)
      BY <1>1, <1>2, <1>3
    <3> QED
      BY <1>5, <3>1
  <2>2. CASE i < x
    <3>1. i \in 1..x-1 /\ i <= Len(p)
      BY <1>2, <2>2
    <3> QED
      BY <1>2, <2>1, <2>2, <3>1
  <2>3. CASE ~(i < x)
    <3>1. PICK j : j = i - Len(p)
      OBVIOUS
    <3>2. j \in 1..n-x /\ x + j = i + 1 /\ ~(i <= Len(p))
      BY <1>1, <1>2, <2>3, <3>1
    <3>3. q[j] = s[i+1]
      BY <1>3, <3>2
    <3> QED
      BY <2>1, <2>3, <3>1, <3>2, <3>3
  <2> QED
    BY <2>2, <2>3
<1> QED
  BY <1>4, <1>6, <1>7 DEF t, p, q

LEMMA ShrinksInOrder ==
    ASSUME NEW n \in Nat, NEW s \in Seq(0..n), NEW x \in 1..Len(s),
           \A i, j \in 1..Len(s) : i <= j => s[i] <= s[j],
           NEW t, t = SubSeq(s, 1, x - 1) \o SubSeq(s, x + 1, Len(s))
    PROVE  \A i, j \in 1..Len(t) : i <= j => t[i] <= t[j]
<1> DEFINE m == Len(s)
           at(i) == IF i < x THEN i ELSE i + 1
<1>1. Len(t) = m - 1 /\ \A i \in 1..m-1 : t[i] = s[at(i)]
  <2>1. Len(t) = m - 1 /\ \A i \in 1..m-1 : t[i] = IF i < x THEN s[i] ELSE s[i+1]
    BY Without
  <2> QED
    BY <2>1
<1>2. m \in Nat /\ x \in 1..m
  OBVIOUS
<1>3. \A i, j \in 1..m-1 : i <= j => at(i) \in 1..m /\ at(j) \in 1..m /\ at(i) <= at(j)
  BY <1>2
<1> HIDE DEF at
<1> SUFFICES ASSUME NEW i \in 1..m-1, NEW j \in 1..m-1, i <= j
             PROVE  t[i] <= t[j]
  BY <1>1
<1>4. at(i) \in 1..m /\ at(j) \in 1..m /\ at(i) <= at(j)
  BY <1>3
<1>5. s[at(i)] <= s[at(j)]
  BY <1>4
<1> QED
  BY <1>1, <1>5

\* A snapshot that is taken is not before those there are; one that is released
\* leaves the others in order.
LEMMA SnapshotsAreGood ==
    ASSUME LevelsInv, GetSnapshot \/ ReleaseSnapshot
    PROVE  LevelsInv'
<1>1. UNCHANGED <<last_sequence, mem, imm, files, compact_pointer, file_to_compact,
                  next_file_number, merge, merges, use, written>>
  BY DEF GetSnapshot, ReleaseSnapshot
<1>2. /\ Counted /\ snapshots \in Seq(0..last_sequence) /\ last_sequence \in Nat
      /\ \A i, j \in 1..Len(snapshots) : i <= j => snapshots[i] <= snapshots[j]
      /\ SmallestSnapshot \in 0..last_sequence /\ Len(snapshots) \in Nat
  BY StateParts DEF LevelsInv, Counted
<1>3. /\ snapshots' \in Seq(0..last_sequence)
      /\ \A i, j \in 1..Len(snapshots') : i <= j => snapshots'[i] <= snapshots'[j]
      /\ SmallestSnapshot' \in Nat /\ SmallestSnapshot <= SmallestSnapshot'
  <2>1. CASE GetSnapshot
    <3>1. snapshots' = Append(snapshots, last_sequence)
      BY <2>1 DEF GetSnapshot
    <3>2. snapshots' \in Seq(0..last_sequence)
      BY <1>2, <3>1
    <3>3. \A i, j \in 1..Len(snapshots') : i <= j => snapshots'[i] <= snapshots'[j]
      BY <1>2, <3>1, GrowsInOrder
    <3>4. SmallestSnapshot' = SmallestSnapshot
      <4>1. snapshots' # <<>>
        BY <1>2, <3>1, AppendProperties
      <4>2. CASE snapshots = <<>>
        <5>1. Head(snapshots') = last_sequence
          BY <3>1, <4>2
        <5> QED
          BY <1>1, <4>1, <4>2, <5>1 DEF SmallestSnapshot
      <4>3. CASE snapshots # <<>>
        <5>1. Head(snapshots') = Head(snapshots)
          BY <1>2, <3>1, <4>3
        <5> QED
          BY <1>1, <4>1, <4>3, <5>1 DEF SmallestSnapshot
      <4> QED
        BY <4>2, <4>3
    <3> QED
      BY <1>2, <3>2, <3>3, <3>4
  <2>2. CASE ReleaseSnapshot
    <3> DEFINE n == Len(snapshots)
    <3>1. PICK x \in 1..n :
            snapshots' = SubSeq(snapshots, 1, x - 1) \o SubSeq(snapshots, x + 1, n)
      <4>1. DOMAIN snapshots = 1..n
        BY <1>2
      <4> QED
        BY <2>2, <4>1 DEF ReleaseSnapshot
    <3>2. /\ snapshots' \in Seq(0..last_sequence) /\ Len(snapshots') = n - 1
          /\ \A i \in 1..n-1 : snapshots'[i] = IF i < x THEN snapshots[i] ELSE snapshots[i+1]
      BY <1>2, <3>1, Without
    <3>3. \A i, j \in 1..Len(snapshots') : i <= j => snapshots'[i] <= snapshots'[j]
      BY <1>2, <3>1, ShrinksInOrder
    <3>4. SmallestSnapshot' \in Nat /\ SmallestSnapshot <= SmallestSnapshot'
      <4>1. CASE snapshots' = <<>>
        BY <1>1, <1>2, <4>1 DEF SmallestSnapshot
      <4>2. CASE snapshots' # <<>>
        <5>1. 1 \in 1..n-1 /\ Head(snapshots') = snapshots'[1] /\ snapshots'[1] \in 0..last_sequence
          BY <3>2, <4>2, <1>2
        <5>2. snapshots # <<>> /\ Head(snapshots) = snapshots[1] /\ 1 \in 1..n /\ 2 \in 1..n
          BY <1>2, <5>1
        <5>3. snapshots[1] <= snapshots'[1]
          <6>1. snapshots'[1] = snapshots[1] \/ snapshots'[1] = snapshots[2]
            BY <3>2, <5>1
          <6> QED
            BY <1>2, <5>2, <6>1
        <5> QED
          BY <1>1, <1>2, <4>2, <5>1, <5>2, <5>3 DEF SmallestSnapshot
      <4> QED
        BY <4>1, <4>2
    <3> QED
      BY <3>2, <3>3, <3>4
  <2> QED
    BY <2>1, <2>2
<1>4. Recent' = Recent
  BY <1>1 DEF Recent
<1>5. Counted'
  BY <1>1, <1>2, <1>3, <1>4 DEF Counted
<1>6. \A T : /\ Fine(T, Recent, written)
             /\ Shows(Recent \cup All(T), written, SmallestSnapshot)
             => /\ Fine(T, Recent', written')
                /\ Shows(Recent' \cup All(T), written', SmallestSnapshot')
  <2> SUFFICES ASSUME NEW T, Fine(T, Recent, written),
                      Shows(Recent \cup All(T), written, SmallestSnapshot)
               PROVE  /\ Fine(T, Recent', written')
                      /\ Shows(Recent' \cup All(T), written', SmallestSnapshot')
    OBVIOUS
  <2>1. PICK es, w, s, t : /\ es = Recent \cup All(T) /\ w = written
                           /\ s = SmallestSnapshot /\ t = SmallestSnapshot'
    OBVIOUS
  <2>2. s \in Nat /\ t \in Nat /\ s <= t /\ Shows(es, w, s)
    BY <1>2, <1>3, <2>1
  <2>3. Shows(es, w, t)
    BY <2>2, LaterShows
  <2> QED
    BY <1>1, <1>4, <2>1, <2>3
<1> QED
  BY <1>1, <1>5, <1>6, TablesStay, ChargedStays
-----------------------------------------------------------------------------
(* The tables a Get looks into.                                            *)

Found == [level : Nat, file : Table]
Top(v, k) == InOrder({[level |-> 0, file |-> f] : f \in ToSet(Hit(v[1], Interval(k, k)))},
                     LAMBDA f, g : f.file.number > g.file.number)
At(v, k, s, l) == AtIndex(v[l+1], l, FindFile(v[l+1], Entry(k, s, FALSE)), k)
Downs(v, k, s) ==
    CHOOSE f : f = [l \in 0..kNumLevels-1 |-> IF l = 0 THEN Top(v, k) ELSE f[l-1] \o At(v, k, s, l)]

\* On level 0 the newest table first.
LEMMA TopInOrder ==
    ASSUME NEW v, Level(v[1]), NEW k
    PROVE  /\ Top(v, k) \in Seq(Found)
           /\ \A i \in 1..Len(Top(v, k)) : /\ Top(v, k)[i].level = 0
                                           /\ Top(v, k)[i].file \in ToSet(v[1])
           /\ \A f \in ToSet(v[1]) : Overlaps(f, Interval(k, k)) =>
                 \E i \in 1..Len(Top(v, k)) : Top(v, k)[i].file = f
           /\ \A i, j \in 1..Len(Top(v, k)) : i < j =>
                 Top(v, k)[i].file.number > Top(v, k)[j].file.number
<1> DEFINE fs == {f \in ToSet(v[1]) : Overlaps(f, Interval(k, k))}
           S == {[level |-> 0, file |-> f] : f \in fs}
           R == {p \in S \X S : p[1].file.number > p[2].file.number}
           top == Top(v, k)
<1>1. ToSet(Hit(v[1], Interval(k, k))) = fs
  BY HitIsOverlapping
<1>2. fs \subseteq ToSet(v[1]) /\ ToSet(v[1]) \in SUBSET Table /\ IsFiniteSet(ToSet(v[1]))
  BY LevelParts
<1>3. \A f, g \in fs : f.number = g.number => f = g
  BY <1>2 DEF Level, Distinct
<1>4. /\ \A x \in S : x \in Found /\ x.level = 0 /\ x.file \in fs /\ x.file.number \in Nat
      /\ \A x, y \in S : x = y \/ x.file # y.file
      /\ \A f \in fs : \E x \in S : x.file = f
  <2>1. \A x \in S : \E f \in fs : x = [level |-> 0, file |-> f]
    OBVIOUS
  <2>2. \A f \in fs : f \in Table /\ f.number \in Nat
    BY <1>2, Ends
  <2>3. \A f \in fs : [level |-> 0, file |-> f] \in S
    OBVIOUS
  <2> HIDE DEF fs, S
  <2>4. \A x \in S : x.level = 0 /\ x.file \in fs /\ x = [level |-> 0, file |-> x.file]
    BY <2>1
  <2>5. \A x \in S : x \in Found
    BY <2>2, <2>4 DEF Found
  <2>6. \A x \in S : x.file.number \in Nat
    BY <2>2, <2>4
  <2>7. \A x, y \in S : x = y \/ x.file # y.file
    BY <2>4
  <2>8. \A f \in fs : \E x \in S : x.file = f
    BY <2>3
  <2> QED
    BY <2>4, <2>5, <2>6, <2>7, <2>8
<1>5. IsFiniteSet(S)
  <2>1. IsFiniteSet(fs)
    BY <1>2, FS_Subset
  <2> DEFINE t == [f \in fs |-> [level |-> 0, file |-> f]]
  <2>2. DOMAIN t = fs /\ t = [f \in fs |-> t[f]] /\ \A f \in fs : t[f] = [level |-> 0, file |-> f]
    OBVIOUS
  <2>3. S = {t[f] : f \in fs}
    OBVIOUS
  <2> HIDE DEF fs, t
  <2>4. IsFiniteSet({t[f] : f \in fs})
    BY <2>1, <2>2, ImageIsFinite
  <2> QED
    BY <2>3, <2>4
<1>6. top = InOrder(S, LAMBDA f, g : f.file.number > g.file.number)
  BY <1>1 DEF Top
<1> HIDE DEF fs, S
<1>7. \A a, b \in S : <<a, b>> \in R <=> a.file.number > b.file.number
  OBVIOUS
<1>8. StrictOrder(S, R)
  <2> HIDE DEF R
  <2>1. \A a, b \in S : a = b \/ a.file.number # b.file.number
    BY <1>3, <1>4
  <2> QED
    BY <1>4, <1>7, <2>1 DEF StrictOrder
<1>9. \A x \in S : {y \in S : y.file.number > x.file.number} = {y \in S : <<y, x>> \in R}
  <2> HIDE DEF R
  <2> QED
    BY <1>7
<1>10. [x \in S |-> Cardinality({y \in S : y.file.number > x.file.number})] = RankOf(S, R)
  <2> HIDE DEF R
  <2> QED
    BY <1>9 DEF RankOf
<1> HIDE DEF R, top
<1>11. top = AtRank(S, RankOf(S, R))
  <2>1. top = LET rank == [x \in S |-> Cardinality({y \in S : y.file.number > x.file.number})]
              IN  [i \in 1..Cardinality(S) |-> CHOOSE x \in S : rank[x] = i - 1]
    BY <1>6 DEF InOrder
  <2> DEFINE r == [x \in S |-> Cardinality({y \in S : y.file.number > x.file.number})]
  <2>2. top = [i \in 1..Cardinality(S) |-> CHOOSE x \in S : r[x] = i - 1]
    BY <2>1, Zenon
  <2>3. r = RankOf(S, R)
    BY <1>10
  <2> HIDE DEF r
  <2> QED
    BY <2>2, <2>3 DEF AtRank
<1>12. /\ top \in Seq(S) /\ ToSet(top) = S
       /\ \A i, j \in 1..Len(top) : i < j => <<top[i], top[j]>> \in R
  BY <1>5, <1>8, <1>11, RanksList
<1>13. \A i \in 1..Len(top) : top[i] \in S
  BY <1>12
<1>14. top \in Seq(Found)
  <2>1. S \subseteq Found
    BY <1>4
  <2> QED
    BY <1>12, <2>1
<1>15. \A x \in S : \E i \in 1..Len(top) : top[i] = x
  <2>1. ToSet(top) = {top[i] : i \in 1..Len(top)}
    BY <1>12, ListIsFinite
  <2> QED
    BY <1>12, <2>1
<1>16. \A i \in 1..Len(top) : top[i].level = 0 /\ top[i].file \in ToSet(v[1])
  BY <1>2, <1>4, <1>13
<1>17. \A f \in ToSet(v[1]) : Overlaps(f, Interval(k, k)) => \E i \in 1..Len(top) : top[i].file = f
  <2> SUFFICES ASSUME NEW f \in fs
               PROVE  \E i \in 1..Len(top) : top[i].file = f
    BY DEF fs
  <2>1. PICK x \in S : x.file = f
    BY <1>4
  <2> QED
    BY <1>15, <2>1
<1>18. \A i, j \in 1..Len(top) : i < j => top[i].file.number > top[j].file.number
  BY <1>7, <1>12, <1>13
<1> QED
  BY <1>14, <1>16, <1>17, <1>18 DEF top

\* On a deeper level the one table that may have the key.
LEMMA AtFinds ==
    ASSUME NEW v, NEW l \in Nat, Level(v[l+1]), Disjoint(v[l+1]), NEW k \in Nat, NEW s \in Nat
    PROVE  /\ At(v, k, s, l) \in Seq(Found) /\ Len(At(v, k, s, l)) <= 1
           /\ \A i \in 1..Len(At(v, k, s, l)) : /\ At(v, k, s, l)[i].level = l
                                                /\ At(v, k, s, l)[i].file \in ToSet(v[l+1])
           /\ \A f \in ToSet(v[l+1]) : \A e \in ToSet(f.entries) : e.key = k /\ e.seq <= s =>
                 \E i \in 1..Len(At(v, k, s, l)) : At(v, k, s, l)[i].file = f
<1> DEFINE fs == v[l+1]
           target == Entry(k, s, FALSE)
           n == FindFile(fs, target)
           at == At(v, k, s, l)
<1>1. target.key = k /\ target.seq = s
  BY DEF Entry
<1>2. at = IF Reaches(fs, n, k) THEN <<[level |-> l, file |-> fs[n]]>> ELSE <<>>
  BY DEF At, AtIndex
<1> HIDE DEF target, at
<1>3. /\ n \in 1..Len(fs) + 1 /\ Len(fs) \in Nat
      /\ \A i \in 1..Len(fs) : i < n <=> Less(Largest(fs[i]), target)
  BY <1>1, FindFileInLevel, LevelParts
<1> HIDE DEF n
<1>4. /\ \A i \in 1..Len(fs) : fs[i] \in Table /\ fs[i] \in ToSet(fs)
      /\ \A f \in ToSet(fs) : \E i \in 1..Len(fs) : f = fs[i]
  BY LevelParts
<1>5. at \in Seq(Found) /\ Len(at) <= 1
      /\ \A i \in 1..Len(at) : at[i].level = l /\ at[i].file \in ToSet(fs)
  <2>1. CASE Reaches(fs, n, k)
    <3>1. n \in 1..Len(fs)
      BY <1>3, <2>1 DEF Reaches
    <3> DEFINE x == [level |-> l, file |-> fs[n]]
    <3>2. x \in Found /\ x.level = l /\ x.file \in ToSet(fs)
      BY <1>4, <3>1 DEF Found
    <3> HIDE DEF x
    <3>3. at = <<x>>
      BY <1>2, <2>1 DEF x
    <3> QED
      BY <3>2, <3>3
  <2>2. CASE ~Reaches(fs, n, k)
    BY <1>2, <2>2
  <2> QED
    BY <2>1, <2>2
<1>6. ASSUME NEW f \in ToSet(fs), NEW e \in ToSet(f.entries), e.key = k, e.seq <= s
      PROVE  \E i \in 1..Len(at) : at[i].file = f
  <2>1. PICK i \in 1..Len(fs) : f = fs[i]
    BY <1>4
  <2>2. f \in Table /\ e \in Update /\ e.seq \in Nat /\ e.key \in Nat
    <3>1. f \in Table
      BY <1>4, <2>1
    <3>2. e \in Update
      BY <1>6, <3>1, InTable
    <3> QED
      BY <3>1, <3>2, KeysAreNumbers
  <2>3. /\ Largest(f) \in Update /\ Lo(f) \in Nat /\ Hi(f) \in Nat
        /\ Lo(f) <= k /\ k <= Hi(f) /\ (e = Largest(f) \/ Less(e, Largest(f)))
    <3>1. Largest(f) \in ToSet(f.entries) /\ ToSet(f.entries) \subseteq Update
      BY <2>2, Ends
    <3> QED
      BY <1>6, <2>2, <3>1, Ends
  <2>4. ~Less(Largest(f), target)
    <3>1. Largest(f).seq \in Nat /\ Largest(f).key \in Nat
      BY <2>3, KeysAreNumbers
    <3>2. ~(Largest(f).key < k)
      BY <2>3, <3>1 DEF Hi
    <3>3. Largest(f).key = k => Largest(f).seq <= s
      <4>1. CASE e = Largest(f)
        BY <1>6, <4>1
      <4>2. CASE Less(e, Largest(f))
        BY <1>6, <2>2, <3>1, <4>2 DEF Less
      <4> QED
        BY <2>3, <4>1, <4>2
    <3> QED
      BY <1>1, <3>1, <3>2, <3>3 DEF Less
  <2>5. n <= i /\ n \in 1..Len(fs)
    BY <1>3, <2>1, <2>4
  <2>6. n = i
    <3> SUFFICES ASSUME n < i
                 PROVE  FALSE
      BY <2>5
    <3>1. Hi(fs[n]) < Lo(f)
      BY <2>1, <2>5, DisjointRises
    <3>2. /\ fs[n] \in Table /\ Hi(fs[n]) \in Nat
      BY <1>4, <2>5, Ends
    <3>3. Hi(fs[n]) < k
      BY <2>3, <3>1, <3>2
    <3>4. Less(Largest(fs[n]), target)
      BY <1>1, <3>3 DEF Less, Hi
    <3> QED
      BY <1>3, <2>5, <3>4
  <2>7. Reaches(fs, n, k)
    BY <1>3, <2>1, <2>3, <2>5, <2>6 DEF Reaches, Lo
  <2> DEFINE x == [level |-> l, file |-> fs[n]]
  <2>8. x.file = f
    BY <2>1, <2>6
  <2> HIDE DEF x
  <2>9. at = <<x>>
    BY <1>2, <2>7 DEF x
  <2>10. Len(at) = 1 /\ at[1] = x
    BY <2>9
  <2> QED
    BY <2>8, <2>10
<1> QED
  BY <1>5, <1>6 DEF at
\* The tables that are found to a level: each is of its level, they are in the
\* order in which entries get older, and none that may have the key is missing.
InTurn(v, p, l) ==
    /\ p \in Seq(Found)
    /\ \A i \in 1..Len(p) : p[i].level \in 0..l /\ p[i].file \in ToSet(v[p[i].level + 1])
    /\ \A i, j \in 1..Len(p) : i < j =>
          \/ p[i].level < p[j].level
          \/ p[i].level = 0 /\ p[j].level = 0 /\ p[i].file.number > p[j].file.number
Finds(v, p, l, k, s) ==
    \A m \in 0..l : \A f \in ToSet(v[m+1]) : \A e \in ToSet(f.entries) :
        e.key = k /\ e.seq <= s => \E i \in 1..Len(p) : p[i].level = m /\ p[i].file = f

LEMMA NextInTurn ==
    ASSUME NEW v, NEW p, NEW q, NEW l \in Nat, NEW m, m = l + 1, InTurn(v, p, l),
           q \in Seq(Found),
           \A i \in 1..Len(q) : q[i].level = m /\ q[i].file \in ToSet(v[m+1]),
           Len(q) <= 1
    PROVE  InTurn(v, p \o q, m)
<1>1. p \in Seq(Found) /\ Len(p) \in Nat /\ Len(q) \in Nat
  BY DEF InTurn
<1> DEFINE r == p \o q
<1>2. /\ r \in Seq(Found) /\ Len(r) = Len(p) + Len(q)
      /\ \A i \in 1..Len(p) + Len(q) : r[i] = IF i <= Len(p) THEN p[i] ELSE q[i - Len(p)]
  BY <1>1, ConcatProperties
<1> HIDE DEF r
<1>3. \A i \in 1..Len(r) : \/ i \in 1..Len(p) /\ r[i] = p[i]
                           \/ i = Len(p) + 1 /\ Len(q) = 1 /\ r[i] = q[1]
  <2> SUFFICES ASSUME NEW i \in 1..Len(r), i \notin 1..Len(p)
               PROVE  i = Len(p) + 1 /\ Len(q) = 1 /\ r[i] = q[1]
    BY <1>1, <1>2
  <2>0. Len(r) = Len(p) + Len(q)
    BY <1>2
  <2>1. i = Len(p) + 1 /\ Len(q) = 1 /\ i - Len(p) = 1 /\ ~(i <= Len(p))
    <3>1. PICK a, b, c : a = Len(p) /\ b = Len(q) /\ c = Len(r)
      OBVIOUS
    <3>2. a \in Nat /\ b \in Nat /\ b <= 1 /\ c = a + b /\ i \in 1..c /\ i \notin 1..a
      BY <1>1, <2>0, <3>1
    <3>3. i = a + 1 /\ b = 1 /\ i - a = 1 /\ ~(i <= a)
      BY <3>2
    <3> QED
      BY <3>1, <3>3
  <2> QED
    BY <1>2, <2>1
<1>4. Len(q) = 1 => q[1].level = m /\ q[1].file \in ToSet(v[m+1])
  <2> SUFFICES ASSUME Len(q) = 1
               PROVE  1 \in 1..Len(q)
    OBVIOUS
  <2> QED
    OBVIOUS
<1>5. \A i \in 1..Len(r) : r[i].level \in 0..m /\ r[i].file \in ToSet(v[r[i].level + 1])
  <2> SUFFICES ASSUME NEW i \in 1..Len(r)
               PROVE  r[i].level \in 0..m /\ r[i].file \in ToSet(v[r[i].level + 1])
    OBVIOUS
  <2>1. CASE i \in 1..Len(p) /\ r[i] = p[i]
    <3>1. p[i].level \in 0..l /\ p[i].file \in ToSet(v[p[i].level + 1])
      BY <2>1 DEF InTurn
    <3> QED
      BY <2>1, <3>1
  <2>2. CASE Len(q) = 1 /\ r[i] = q[1]
    <3>1. m \in 0..m
      OBVIOUS
    <3> QED
      BY <1>4, <2>2, <3>1
  <2> QED
    BY <1>3, <2>1, <2>2
<1>6. ASSUME NEW i \in 1..Len(r), NEW j \in 1..Len(r), i < j
      PROVE  \/ r[i].level < r[j].level
             \/ r[i].level = 0 /\ r[j].level = 0 /\ r[i].file.number > r[j].file.number
  <2>1. i \in 1..Len(p) /\ r[i] = p[i]
    BY <1>1, <1>3, <1>6
  <2>2. CASE j \in 1..Len(p) /\ r[j] = p[j]
    BY <1>6, <2>1, <2>2 DEF InTurn
  <2>3. CASE Len(q) = 1 /\ r[j] = q[1]
    <3>1. p[i].level \in 0..l
      BY <2>1 DEF InTurn
    <3> QED
      BY <1>4, <2>1, <2>3, <3>1
  <2> QED
    BY <1>3, <2>2, <2>3
<1> QED
  BY <1>2, <1>5, <1>6 DEF InTurn, r

LEMMA NextFinds ==
    ASSUME NEW v, NEW p \in Seq(Found), NEW q \in Seq(Found), NEW l \in Nat, NEW m, m = l + 1,
           NEW k, NEW s, Finds(v, p, l, k, s),
           \A i \in 1..Len(q) : q[i].level = m,
           \A f \in ToSet(v[m+1]) : \A e \in ToSet(f.entries) : e.key = k /\ e.seq <= s =>
                 \E i \in 1..Len(q) : q[i].file = f
    PROVE  Finds(v, p \o q, m, k, s)
<1> DEFINE r == p \o q
<1>1. Len(p) \in Nat /\ Len(q) \in Nat
  OBVIOUS
<1>2. /\ Len(r) = Len(p) + Len(q)
      /\ \A i \in 1..Len(p) + Len(q) : r[i] = IF i <= Len(p) THEN p[i] ELSE q[i - Len(p)]
  BY ConcatProperties
<1> HIDE DEF r
<1>3. \A i \in 1..Len(p) : i \in 1..Len(r) /\ r[i] = p[i]
  BY <1>1, <1>2
<1>4. ASSUME NEW i \in 1..Len(q)
      PROVE  \E j \in 1..Len(r) : r[j] = q[i]
  <2>1. PICK j : j = Len(p) + i
    OBVIOUS
  <2>2. j \in 1..Len(p) + Len(q) /\ ~(j <= Len(p)) /\ j - Len(p) = i
    BY <1>1, <2>1
  <2> QED
    BY <1>2, <2>2
<1> SUFFICES Finds(v, r, m, k, s)
  BY DEF r
<1> SUFFICES ASSUME NEW n \in 0..m, NEW f \in ToSet(v[n+1]), NEW e \in ToSet(f.entries),
                    e.key = k, e.seq <= s
             PROVE  \E i \in 1..Len(r) : r[i].level = n /\ r[i].file = f
  BY DEF Finds
<1>5. CASE n \in 0..l
  <2>1. \E i \in 1..Len(p) : p[i].level = n /\ p[i].file = f
    BY <1>5 DEF Finds
  <2> QED
    BY <1>3, <2>1
<1>6. CASE n = m
  <2>1. PICK i \in 1..Len(q) : q[i].file = f
    BY <1>6
  <2> QED
    BY <1>4, <1>6, <2>1
<1>7. n \in 0..l \/ n = m
  OBVIOUS
<1> QED
  BY <1>5, <1>6, <1>7

LEMMA DownsStepwise ==
    ASSUME NEW v, NEW recent, NEW old, Version(v, recent, old), NEW k \in Nat, NEW s \in Nat
    PROVE  /\ Downs(v, k, s)[0] = Top(v, k)
           /\ \A l \in 1..kNumLevels-1 : Downs(v, k, s)[l] = Downs(v, k, s)[l-1] \o At(v, k, s, l)
<1> DEFINE n == kNumLevels - 1
           W == Seq(Found)
           step == [x \in (1..n) \X W |-> x[2] \o At(v, k, s, x[1])]
           F == Downs(v, k, s)
<1>1. n \in Nat /\ kNumLevels \in Nat
  BY LevelsAssumption
<1>2. Top(v, k) \in W
  <2>1. 1 \in 1..kNumLevels
    BY <1>1
  <2> QED
    BY <2>1, VersionLevels, TopInOrder
<1>3. ASSUME NEW l \in 1..n
      PROVE  At(v, k, s, l) \in W
  <2>1. l \in Nat /\ l + 1 \in 1..kNumLevels /\ l + 1 # 1
    BY <1>1
  <2> QED
    BY <2>1, VersionLevels, AtFinds
<1>4. step \in [(1..n) \X W -> W]
      /\ \A l \in 1..n, w \in W : step[<<l, w>>] = w \o At(v, k, s, l)
  <2> HIDE DEF W
  <2>1. \A l \in 1..n, w \in W : w \o At(v, k, s, l) \in W
    BY <1>3, ConcatProperties DEF W
  <2> QED
    BY <2>1
<1> HIDE DEF step, W
<1>5. PICK f : Follows(f, W, n, Top(v, k), step)
  <2> HIDE DEF n
  <2> QED
    BY <1>1, <1>2, <1>4, Recursion
<1>6. f \in [0..n -> W] /\ f[0] = Top(v, k) /\ \A l \in 1..n : f[l] = f[l-1] \o At(v, k, s, l)
  <2>1. \A l \in 1..n : l - 1 \in 0..n
    BY <1>1
  <2> QED
    BY <1>4, <1>5, <2>1 DEF Follows
<1>7. f = [l \in 0..n |-> IF l = 0 THEN Top(v, k) ELSE f[l-1] \o At(v, k, s, l)]
  <2> DEFINE at(l) == At(v, k, s, l)
  <2> HIDE DEF n, at
  <2>1. f = [l \in 0..n |-> f[l]]
    BY <1>6
  <2>2. \A l \in 0..n : l = 0 \/ l \in 1..n
    BY <1>1
  <2>3. \A l \in 0..n : f[l] = IF l = 0 THEN Top(v, k) ELSE f[l-1] \o at(l)
    BY <1>6, <2>2 DEF at
  <2>4. f = [l \in 0..n |-> IF l = 0 THEN Top(v, k) ELSE f[l-1] \o at(l)]
    BY <2>1, <2>3
  <2> QED
    BY <2>4 DEF at
<1>8. F = [l \in 0..n |-> IF l = 0 THEN Top(v, k) ELSE F[l-1] \o At(v, k, s, l)]
  BY <1>7 DEF Downs
<1>9. 0 \in 0..n /\ \A l \in 1..n : l \in 0..n /\ l # 0
  BY <1>1
<1> HIDE DEF F, n
<1>10. F[0] = Top(v, k) /\ \A l \in 1..n : F[l] = F[l-1] \o At(v, k, s, l)
  BY <1>8, <1>9
<1> QED
  BY <1>10 DEF F, n

LEMMA SearchedInTurn ==
    ASSUME NEW v, NEW recent, NEW old, Version(v, recent, old), NEW k \in Nat, NEW s \in Nat
    PROVE  /\ InTurn(v, Searched(v, k, s), kNumLevels - 1)
           /\ Finds(v, Searched(v, k, s), kNumLevels - 1, k, s)
<1> DEFINE n == kNumLevels - 1
           F == Downs(v, k, s)
           I == {l \in Nat : l <= n => InTurn(v, F[l], l) /\ Finds(v, F[l], l, k, s)}
<1>1. n \in Nat /\ kNumLevels \in Nat
  BY LevelsAssumption
<1>2. F[0] = Top(v, k) /\ \A l \in 1..n : F[l] = F[l-1] \o At(v, k, s, l)
  BY DownsStepwise
<1>3. Searched(v, k, s) = F[n]
  BY DEF Searched, Downs, Top, At
<1> HIDE DEF F
<1>4. 0 \in I
  <2> DEFINE t == Top(v, k)
  <2>1. Level(v[1])
    BY <1>1, VersionLevels
  <2>2. /\ t \in Seq(Found) /\ \A i \in 1..Len(t) : t[i].level = 0 /\ t[i].file \in ToSet(v[1])
        /\ \A f \in ToSet(v[1]) : Overlaps(f, Interval(k, k)) => \E i \in 1..Len(t) : t[i].file = f
        /\ \A i, j \in 1..Len(t) : i < j => t[i].file.number > t[j].file.number
    BY <2>1, TopInOrder
  <2> HIDE DEF t
  <2>3. 0 \in 0..0 /\ 0 + 1 = 1
    OBVIOUS
  <2>4. InTurn(v, t, 0)
    BY <2>2, <2>3 DEF InTurn
  <2>5. Finds(v, t, 0, k, s)
    <3> SUFFICES ASSUME NEW f \in ToSet(v[1]), NEW e \in ToSet(f.entries), e.key = k
                 PROVE  \E i \in 1..Len(t) : t[i].level = 0 /\ t[i].file = f
      BY DEF Finds
    <3>1. f \in Table
      BY <2>1, LevelParts
    <3>2. Lo(f) <= k /\ k <= Hi(f) /\ Lo(f) \in Nat /\ Hi(f) \in Nat
      BY <3>1, InTable
    <3>3. Overlaps(f, Interval(k, k))
      BY <3>2 DEF Overlaps, Interval, Lo, Hi
    <3> QED
      BY <2>2, <3>3
  <2>6. InTurn(v, F[0], 0) /\ Finds(v, F[0], 0, k, s)
    BY <1>2, <2>4, <2>5 DEF t
  <2> QED
    BY <2>6
<1>5. ASSUME NEW l \in Nat, l \in I
      PROVE  l + 1 \in I
  <2>1. PICK m : m = l + 1
    OBVIOUS
  <2> SUFFICES ASSUME m <= n
               PROVE  InTurn(v, F[m], m) /\ Finds(v, F[m], m, k, s)
    BY <2>1
  <2>2. m \in 1..n /\ m - 1 = l /\ m \in Nat /\ m + 1 \in 1..kNumLevels /\ m + 1 # 1 /\ l <= n
    BY <1>1, <2>1
  <2>3. InTurn(v, F[l], l) /\ Finds(v, F[l], l, k, s)
    BY <1>5, <2>2
  <2>4. F[m] = F[l] \o At(v, k, s, m)
    BY <1>2, <2>2
  <2> DEFINE q == At(v, k, s, m)
  <2>5. Level(v[m+1]) /\ Disjoint(v[m+1])
    BY <2>2, VersionLevels
  <2>6. /\ q \in Seq(Found) /\ Len(q) <= 1
        /\ \A i \in 1..Len(q) : q[i].level = m /\ q[i].file \in ToSet(v[m+1])
        /\ \A f \in ToSet(v[m+1]) : \A e \in ToSet(f.entries) : e.key = k /\ e.seq <= s =>
              \E i \in 1..Len(q) : q[i].file = f
    BY <2>2, <2>5, AtFinds
  <2> HIDE DEF q, I
  <2>7. InTurn(v, F[l] \o q, m)
    BY <2>1, <2>3, <2>6, NextInTurn
  <2>8. F[l] \in Seq(Found)
    BY <2>3 DEF InTurn
  <2>9. Finds(v, F[l] \o q, m, k, s)
    BY <2>1, <2>3, <2>6, <2>8, NextFinds
  <2> QED
    BY <2>4, <2>7, <2>9 DEF q
<1>6. n \in I
  <2> HIDE DEF I
  <2> QED
    BY <1>1, <1>4, <1>5, Induction
<1> QED
  BY <1>1, <1>3, <1>6
LEMMA ReaderParts ==
    ASSUME Counted, Listed(files), Good(Sets(files)),
           NEW k \in use.keys, NEW s \in {last_sequence} \cup ToSet(snapshots)
    PROVE  k \in Keys /\ k \in Nat /\ s \in Nat /\ s \in SmallestSnapshot..MaxWrites
<1>1. /\ last_sequence \in 0..MaxWrites /\ last_sequence \in Nat /\ MaxWrites \in Nat
      /\ SmallestSnapshot \in 0..last_sequence
  BY StateParts
<1>2. use \in Use
  BY LevelsAssumption DEF Counted
<1>3. k \in Keys /\ k \in Nat
  BY <1>2, LevelsAssumption DEF Use
<1>4. CASE s = last_sequence
  BY <1>1, <1>3, <1>4
<1>5. CASE s \in ToSet(snapshots)
  <2>1. PICK S : S = 0..last_sequence
    OBVIOUS
  <2>2. snapshots \in Seq(S) /\ \A i, j \in 1..Len(snapshots) : i <= j => snapshots[i] <= snapshots[j]
    BY <2>1 DEF Counted
  <2>3. PICK i \in 1..Len(snapshots) : s = snapshots[i]
    BY <1>5, <2>2, ListIsFinite
  <2>4. s \in S
    BY <2>2, <2>3
  <2>5. snapshots # <<>> /\ 1 \in 1..Len(snapshots) /\ 1 <= i /\ Head(snapshots) = snapshots[1]
    BY <2>2, <2>3
  <2>6. SmallestSnapshot = snapshots[1]
    BY <2>5 DEF SmallestSnapshot
  <2>7. SmallestSnapshot <= s
    BY <2>2, <2>3, <2>5, <2>6
  <2> QED
    BY <1>1, <1>3, <2>1, <2>4, <2>7
<1> QED
  BY <1>4, <1>5

LEMMA ChargeIsGood ==
    ASSUME LevelsInv, NEW k \in use.keys, NEW s \in {last_sequence} \cup ToSet(snapshots),
           Charge(k, s)
    PROVE  LevelsInv'
<1> DEFINE p == Searched(files, k, s)
<1>1. /\ Len(p) >= 2
      /\ file_to_compact' = [level |-> p[1].level, number |-> p[1].file.number]
      /\ UNCHANGED <<last_sequence, snapshots, mem, imm, files, compact_pointer,
                     next_file_number, merge, merges, use, written>>
  BY DEF Charge
<1>2. /\ Counted /\ Version(files, Recent, written) /\ k \in Nat /\ s \in Nat
      /\ kNumLevels \in Nat /\ kNumLevels >= 2
  BY StateParts, ReaderParts DEF LevelsInv
<1>3. InTurn(files, p, kNumLevels - 1)
  BY <1>2, SearchedInTurn
<1> HIDE DEF p
<1>4. /\ p \in Seq(Found) /\ Len(p) \in Nat /\ 1 \in 1..Len(p) /\ 2 \in 1..Len(p)
  BY <1>1, <1>3 DEF InTurn
<1>5. /\ p[1].level \in 0..kNumLevels-1 /\ p[2].level \in 0..kNumLevels-1
      /\ p[1].file \in ToSet(files[p[1].level + 1])
      /\ p[1].level < p[2].level \/ p[1].level = 0
  BY <1>3, <1>4 DEF InTurn
<1>6. p[1].level \in 0..kNumLevels-2
  BY <1>2, <1>5
<1>7. Charged'
  BY <1>1, <1>5, <1>6 DEF Charged
<1>8. Recent' = Recent /\ SmallestSnapshot' = SmallestSnapshot
  BY <1>1 DEF Recent, SmallestSnapshot
<1>9. Counted'
  BY <1>1, <1>2, <1>8 DEF Counted
<1> QED
  BY <1>1, <1>7, <1>8, <1>9, TablesStay

-----------------------------------------------------------------------------
(* What a Get finds.                                                       *)

\* The first place that knows the key has its newest entry, if what is searched
\* first is newer.
LEMMA LookupIsNewest ==
    ASSUME NEW es, Told(es), NEW P \in Seq(SUBSET es), NEW k, NEW s \in Nat,
           \A i, j \in 1..Len(P) : i < j => Newer(P[i], P[j]),
           \A e \in Seen(es, k, s) : \E i \in 1..Len(P) : e \in P[i]
    PROVE  Lookup(P, k, s) = Value(Newest(es, k, s))
<1> DEFINE known == {i \in DOMAIN P : Newest(P[i], k, s) # None}
<1>1. Len(P) \in Nat /\ DOMAIN P = 1..Len(P) /\ \A i \in 1..Len(P) : P[i] \subseteq es
  OBVIOUS
<1>2. \A i \in 1..Len(P) : Told(P[i])
  BY <1>1, ToldSubset
<1>3. \A i \in 1..Len(P) :
         /\ i \notin known => Seen(P[i], k, s) = {}
         /\ i \in known => /\ Newest(P[i], k, s) \in Seen(P[i], k, s)
                           /\ \A d \in Seen(P[i], k, s) : d.seq <= Newest(P[i], k, s).seq
  BY <1>1, <1>2, NewestIs
<1>4. known \subseteq 1..Len(P)
  BY <1>1
<1>5. Lookup(P, k, s) = ValueAt(P, Place(known), k, s)
  BY DEF Lookup, FoundAt
<1> HIDE DEF known
<1>6. ASSUME NEW d \in Seen(es, k, s)
      PROVE  \E j \in known : d \in Seen(P[j], k, s)
  <2>1. PICK j \in 1..Len(P) : d \in P[j]
    OBVIOUS
  <2>2. d \in Seen(P[j], k, s)
    BY <2>1 DEF Seen
  <2> QED
    BY <1>3, <2>2
<1>7. CASE known = {}
  <2>1. Seen(es, k, s) = {}
    BY <1>6, <1>7
  <2>2. Newest(es, k, s) = None
    BY <2>1, NewestIs
  <2>3. Value(None) = 0
    BY DEF Value
  <2>4. ValueAt(P, 0, k, s) = 0 /\ Place(known) = 0
    BY <1>7 DEF ValueAt, Place
  <2> QED
    BY <1>5, <2>2, <2>3, <2>4
<1>8. CASE known # {}
  <2> DEFINE i == Min(known)
  <2>1. IsFiniteSet(known) /\ known \in SUBSET Nat
    <3>1. IsFiniteSet(1..Len(P))
      <4>1. PICK a, b : a = 1 /\ b = Len(P)
        OBVIOUS
      <4>2. a \in Int /\ b \in Int
        BY <1>1, <4>1
      <4>3. IsFiniteSet(a..b)
        BY <4>2, FS_Interval
      <4> QED
        BY <4>1, <4>3
    <3>2. PICK S : S = 1..Len(P)
      OBVIOUS
    <3>3. IsFiniteSet(known)
      <4>1. IsFiniteSet(S) /\ known \in SUBSET S
        BY <1>4, <3>1, <3>2
      <4> QED
        BY <4>1, FS_Subset
    <3> QED
      BY <1>1, <1>4, <3>3
  <2>2. i \in known /\ \A j \in known : i <= j
    BY <1>8, <2>1, MinMax
  <2>3. Place(known) = i
    BY <1>8 DEF Place
  <2> HIDE DEF i
  <2>4. i \in 1..Len(P) /\ i # 0
    BY <1>1, <1>4, <2>2
  <2> DEFINE n == Newest(P[i], k, s)
  <2>5. n \in Seen(P[i], k, s) /\ \A d \in Seen(P[i], k, s) : d.seq <= n.seq
    BY <1>3, <2>2, <2>4
  <2>6. Lookup(P, k, s) = Value(n)
    BY <1>5, <2>3, <2>4 DEF ValueAt
  <2> HIDE DEF n
  <2>7. n \in P[i] /\ n.key = k /\ n \in Seen(es, k, s)
    BY <1>1, <2>4, <2>5 DEF Seen
  <2>8. ASSUME NEW d \in Seen(es, k, s)
        PROVE  d.seq <= n.seq
    <3>1. PICK j \in known : d \in Seen(P[j], k, s)
      BY <1>6
    <3>2. i <= j /\ j \in 1..Len(P)
      BY <1>4, <2>2, <3>1
    <3>3. CASE i = j
      BY <2>5, <3>1, <3>3
    <3>4. CASE i # j
      <4>1. i < j
        BY <1>1, <2>4, <3>2, <3>4
      <4>2. Newer(P[i], P[j])
        BY <2>4, <3>2, <4>1
      <4>3. d \in P[j] /\ d.key = k
        BY <3>1 DEF Seen
      <4>4. n.seq > d.seq
        BY <2>7, <4>2, <4>3 DEF Newer
      <4>5. n \in Update /\ d \in Update
        BY <2>7 DEF Told, Seen
      <4>6. n.seq \in Nat /\ d.seq \in Nat
        BY <4>5, KeysAreNumbers
      <4> QED
        BY <4>4, <4>6
    <3> QED
      BY <3>3, <3>4
  <2>9. Newest(es, k, s) = n
    BY <2>7, <2>8, NewestIs
  <2> QED
    BY <2>6, <2>9
<1> QED
  BY <1>7, <1>8
\* A Get finds the newest entry there is.
LEMMA GetIsNewest ==
    ASSUME Counted, Listed(files), Good(Sets(files)),
           NEW k \in use.keys, NEW s \in {last_sequence} \cup ToSet(snapshots)
    PROVE  Get(k, s) = Value(Newest(Recent \cup All(Sets(files)), k, s))
<1> DEFINE T == Sets(files)
           es == Recent \cup All(T)
           p == Searched(files, k, s)
           q == Entries(p)
           P == <<mem, imm>> \o q
<1>1. /\ Version(files, Recent, written) /\ Told(written) /\ Recent \subseteq written
      /\ kNumLevels \in Nat /\ kNumLevels >= 2 /\ k \in Nat /\ s \in Nat
      /\ T \in [1..kNumLevels -> SUBSET Table]
  BY StateParts, ReaderParts
<1>2. Fine(T, Recent, written) /\ Newer(mem, imm)
  BY DEF Good, Counted
<1>3. InTurn(files, p, kNumLevels - 1) /\ Finds(files, p, kNumLevels - 1, k, s)
  BY <1>1, SearchedInTurn
<1>4. Get(k, s) = Lookup(P, k, s)
  BY DEF Get
<1>5. \A m \in 1..kNumLevels : ToSet(files[m]) = T[m]
  BY DEF Sets
<1> HIDE DEF p, T
<1>6. p \in Seq(Found) /\ Len(p) \in Nat /\ DOMAIN p = 1..Len(p)
  BY <1>3 DEF InTurn
<1>7. /\ DOMAIN q = 1..Len(p) /\ Len(q) = Len(p)
      /\ \A i \in 1..Len(p) : q[i] = ToSet(p[i].file.entries)
      /\ q = [i \in 1..Len(p) |-> ToSet(p[i].file.entries)]
  BY <1>6 DEF Entries
<1>8. ASSUME NEW i \in 1..Len(p)
      PROVE  /\ p[i].level + 1 \in 1..kNumLevels /\ p[i].level \in Nat
             /\ p[i].file \in T[p[i].level + 1] /\ q[i] \subseteq EntriesOf(T[p[i].level + 1])
  <2>1. p[i].level \in 0..kNumLevels-1 /\ p[i].file \in ToSet(files[p[i].level + 1])
    BY <1>3 DEF InTurn
  <2>2. p[i].level + 1 \in 1..kNumLevels /\ p[i].level \in Nat
    BY <1>1, <2>1
  <2>3. p[i].file \in T[p[i].level + 1]
    BY <1>5, <2>1, <2>2
  <2>4. q[i] \subseteq EntriesOf(T[p[i].level + 1])
    BY <1>7, <2>3, EntryOf
  <2> QED
    BY <2>2, <2>3, <2>4
<1> HIDE DEF q
<1>9. /\ Len(P) = Len(p) + 2 /\ P[1] = mem /\ P[2] = imm
      /\ \A i \in 1..Len(p) : P[i + 2] = q[i]
      /\ \A i \in 1..Len(P) : i = 1 \/ i = 2 \/ \E j \in 1..Len(p) : i = j + 2
  <2> DEFINE S == SUBSET (Recent \cup EntriesOf(UNION {T[m] : m \in 1..kNumLevels}))
  <2>1. \A i \in 1..Len(p) : q[i] \in S
    <3> SUFFICES ASSUME NEW i \in 1..Len(p), NEW e \in q[i]
                 PROVE  e \in EntriesOf(UNION {T[m] : m \in 1..kNumLevels})
      OBVIOUS
    <3>1. PICK m \in 1..kNumLevels : e \in EntriesOf(T[m])
      BY <1>8
    <3> QED
      BY <3>1, EntryOf
  <2>2. q \in Seq(S) /\ <<mem, imm>> \in Seq(S)
    <3>1. mem \in S /\ imm \in S
      BY DEF Recent
    <3> HIDE DEF S
    <3>2. <<mem, imm>> \in Seq(S)
      BY <3>1
    <3>3. q \in [1..Len(p) -> S]
      BY <1>7, <2>1
    <3>4. q \in Seq(S)
      BY <1>6, <3>3
    <3> QED
      BY <3>2, <3>4
  <2> HIDE DEF S
  <2>3. /\ Len(P) = Len(<<mem, imm>>) + Len(q)
        /\ \A i \in 1..Len(<<mem, imm>>) + Len(q) :
              P[i] = IF i <= Len(<<mem, imm>>) THEN <<mem, imm>>[i] ELSE q[i - Len(<<mem, imm>>)]
    BY <2>2, ConcatProperties
  <2>4. Len(<<mem, imm>>) = 2 /\ <<mem, imm>>[1] = mem /\ <<mem, imm>>[2] = imm
    OBVIOUS
  <2> HIDE DEF P
  <2>5. Len(P) = 2 + Len(p) /\ \A i \in 1..2 + Len(p) : P[i] = IF i <= 2 THEN <<mem, imm>>[i] ELSE q[i - 2]
    BY <1>7, <2>3, <2>4
  <2>6. P[1] = mem /\ P[2] = imm
    <3>1. 1 \in 1..2 + Len(p) /\ 2 \in 1..2 + Len(p) /\ 1 <= 2 /\ 2 <= 2
      BY <1>6
    <3> QED
      BY <2>4, <2>5, <3>1
  <2>7. \A i \in 1..Len(p) : P[i + 2] = q[i]
    <3> SUFFICES ASSUME NEW i \in 1..Len(p)
                 PROVE  P[i + 2] = q[i]
      OBVIOUS
    <3>1. PICK j : j = i + 2
      OBVIOUS
    <3>2. j \in 1..2 + Len(p) /\ ~(j <= 2) /\ j - 2 = i
      BY <1>6, <3>1
    <3> QED
      BY <2>5, <3>1, <3>2
  <2>8. \A i \in 1..Len(P) : i = 1 \/ i = 2 \/ \E j \in 1..Len(p) : i = j + 2
    <3> SUFFICES ASSUME NEW i \in 1..Len(P), i # 1, i # 2
                 PROVE  i - 2 \in 1..Len(p) /\ i = (i - 2) + 2
      OBVIOUS
    <3> QED
      BY <1>6, <2>5
  <2> QED
    BY <1>6, <2>5, <2>6, <2>7, <2>8
<1> HIDE DEF P
<1>10. ASSUME NEW m \in 1..kNumLevels
       PROVE  EntriesOf(T[m]) \subseteq es /\ EntriesOf(T[m]) \subseteq written
  BY <1>2, EntryOfAll DEF Fine
<1>11. es \subseteq written
  BY <1>1, <1>10, EntryOfAll
<1> HIDE DEF es
<1>12. mem \subseteq es /\ imm \subseteq es
  BY DEF es, Recent
<1>13. \A i \in 1..Len(P) : P[i] \in SUBSET es
  <2> SUFFICES ASSUME NEW i \in 1..Len(P)
               PROVE  P[i] \in SUBSET es
    OBVIOUS
  <2>1. ASSUME NEW j \in 1..Len(p)
        PROVE  q[j] \subseteq es
    BY <1>8, <1>10
  <2> QED
    BY <1>9, <1>12, <2>1
<1>14. P \in Seq(SUBSET es)
  <2>1. mem \in SUBSET es /\ imm \in SUBSET es
    BY <1>12
  <2>2. <<mem, imm>> \in Seq(SUBSET es)
    BY <2>1
  <2>3. q \in [1..Len(p) -> SUBSET es]
    <3>1. \A j \in 1..Len(p) : q[j] \in SUBSET es
      BY <1>8, <1>10
    <3> QED
      BY <1>7, <3>1
  <2>4. q \in Seq(SUBSET es)
    BY <1>6, <2>3
  <2> QED
    BY <2>2, <2>4, ConcatProperties DEF P
<1>15. ASSUME NEW i \in 1..Len(P), NEW j \in 1..Len(P), i < j
       PROVE  Newer(P[i], P[j])
  <2>1. CASE j = 2
    <3>1. i = 1
      BY <1>15, <2>1
    <3> QED
      BY <1>2, <1>9, <2>1, <3>1
  <2>2. ASSUME NEW b \in 1..Len(p), j = b + 2
        PROVE  Newer(P[i], P[j])
    <3>1. P[j] = q[b]
      BY <1>9, <2>2
    <3>2. CASE i = 1 \/ i = 2
      <4>1. P[i] \subseteq Recent
        BY <1>9, <3>2 DEF Recent
      <4>2. Newer(Recent, EntriesOf(T[p[b].level + 1]))
        BY <1>2, <1>8 DEF Fine
      <4> QED
        BY <1>8, <3>1, <4>1, <4>2 DEF Newer
    <3>3. ASSUME NEW a \in 1..Len(p), i = a + 2
          PROVE  Newer(P[i], P[j])
      <4>1. P[i] = q[a] /\ a < b
        BY <1>9, <1>15, <2>2, <3>3
      <4>2. \/ p[a].level < p[b].level
            \/ p[a].level = 0 /\ p[b].level = 0 /\ p[a].file.number > p[b].file.number
        BY <1>3, <4>1 DEF InTurn
      <4>3. CASE p[a].level < p[b].level
        <5>5. PICK c, d : c = p[a].level /\ d = p[b].level
          OBVIOUS
        <5>6. c \in Nat /\ d \in Nat /\ c + 1 \in 1..kNumLevels /\ d + 1 \in 1..kNumLevels
          BY <1>8, <5>5
        <5>7. c < d
          BY <4>3, <5>5
        <5>1. PICK m, n : m = c + 1 /\ n = d + 1
          OBVIOUS
        <5>2. m \in 1..kNumLevels /\ n \in 1..kNumLevels /\ m < n
          BY <5>1, <5>6, <5>7
        <5>3. Newer(EntriesOf(T[m]), EntriesOf(T[n]))
          BY <1>2, <5>2 DEF Fine
        <5>4. q[a] \subseteq EntriesOf(T[m]) /\ q[b] \subseteq EntriesOf(T[n])
          BY <1>8, <5>1, <5>5
        <5> QED
          BY <3>1, <4>1, <5>3, <5>4 DEF Newer
      <4>4. CASE p[a].level = 0 /\ p[b].level = 0 /\ p[a].file.number > p[b].file.number
        <5>1. p[a].file \in T[1] /\ p[b].file \in T[1]
          BY <1>8, <4>4
        <5>2. Newer(ToSet(p[a].file.entries), ToSet(p[b].file.entries))
          BY <1>2, <4>4, <5>1 DEF Fine
        <5> QED
          BY <1>7, <3>1, <4>1, <5>2
      <4> QED
        BY <4>2, <4>3, <4>4
    <3> QED
      BY <1>9, <3>2, <3>3
  <2>3. j # 1
    BY <1>15
  <2> QED
    BY <1>9, <2>1, <2>2, <2>3
<1>16. ASSUME NEW e \in Seen(es, k, s)
       PROVE  \E i \in 1..Len(P) : e \in P[i]
  <2>1. 1 \in 1..Len(P) /\ 2 \in 1..Len(P) /\ \A i \in 1..Len(p) : i + 2 \in 1..Len(P)
    BY <1>6, <1>9
  <2>2. e.key = k /\ e.seq <= s /\ (e \in mem \/ e \in imm \/ e \in All(T))
    BY DEF Seen, es, Recent
  <2>3. CASE e \in mem \/ e \in imm
    BY <1>9, <2>1, <2>3
  <2>4. CASE e \in All(T)
    <3>1. PICK m \in 1..kNumLevels : e \in EntriesOf(T[m])
      BY <2>4, EntryOfAll
    <3>2. PICK f \in T[m] : e \in ToSet(f.entries)
      BY <3>1, EntryOf
    <3>3. PICK l : l = m - 1
      OBVIOUS
    <3>4. l \in 0..kNumLevels-1 /\ l + 1 = m
      BY <1>1, <3>3
    <3>5. f \in ToSet(files[l+1])
      BY <1>5, <3>2, <3>4
    <3>6. PICK i \in 1..Len(p) : p[i].file = f
      BY <1>3, <2>2, <3>2, <3>4, <3>5 DEF Finds
    <3>7. e \in P[i + 2]
      BY <1>7, <1>9, <3>2, <3>6
    <3> QED
      BY <2>1, <3>7
  <2> QED
    BY <2>2, <2>3, <2>4
<1>17. Told(es)
  BY <1>1, <1>11, ToldSubset
<1> QED
  BY <1>1, <1>4, <1>14, <1>15, <1>16, <1>17, LookupIsNewest DEF es, T
-----------------------------------------------------------------------------
(* What the invariant says.                                                *)

LEMMA InvShowsLatest ==
    ASSUME LevelsInv
    PROVE  GetIsLatest
<1> SUFFICES ASSUME NEW k \in use.keys, NEW s \in {last_sequence} \cup ToSet(snapshots)
             PROVE  Get(k, s) = Value(Newest(written, k, s))
  BY DEF GetIsLatest
<1>1. Counted /\ Listed(files) /\ Good(Sets(files))
  BY DEF LevelsInv
<1>2. k \in Keys /\ s \in SmallestSnapshot..MaxWrites
  BY <1>1, ReaderParts
<1>3. Value(Newest(Recent \cup All(Sets(files)), k, s)) = Value(Newest(written, k, s))
  BY <1>1, <1>2 DEF Good, Shows
<1>4. Get(k, s) = Value(Newest(Recent \cup All(Sets(files)), k, s))
  BY <1>1, GetIsNewest
<1> QED
  BY <1>3, <1>4

LEMMA InvIsOrdered ==
    ASSUME LevelsInv
    PROVE  LevelsAreOrdered
<1> DEFINE T == Sets(files)
           In(l) == UNION {ToSet(files[l][i].entries) : i \in DOMAIN files[l]}
<1>1. /\ Version(files, Recent, written) /\ Fine(T, Recent, written) /\ Newer(mem, imm)
      /\ DOMAIN files = 1..kNumLevels /\ kNumLevels \in Nat
      /\ \A l \in 1..kNumLevels : files[l] \in Seq(Table) /\ T[l] = ToSet(files[l])
  BY StateParts DEF LevelsInv, Good, Counted, Listed, Sets
<1>2. LevelsAreDisjoint
  <2> SUFFICES ASSUME NEW l \in 2..kNumLevels, NEW i \in 2..Len(files[l])
               PROVE  Less(Largest(files[l][i-1]), Smallest(files[l][i]))
    BY DEF LevelsAreDisjoint
  <2>1. l \in 1..kNumLevels /\ l # 1
    BY <1>1
  <2>2. Level(files[l]) /\ Disjoint(files[l])
    BY <1>1, <2>1, VersionLevels
  <2>3. Len(files[l]) \in Nat
    BY <2>2, LevelParts
  <2>4. PICK j : j = i - 1
    OBVIOUS
  <2>5. j \in 1..Len(files[l]) /\ i \in 1..Len(files[l]) /\ j < i
    BY <2>3, <2>4
  <2>6. Hi(files[l][j]) < Lo(files[l][i])
    BY <2>2, <2>5, DisjointRises
  <2> QED
    BY <2>4, <2>6 DEF Less, Hi, Lo
<1>3. \A l \in 1..kNumLevels : In(l) = EntriesOf(T[l])
  <2> SUFFICES ASSUME NEW l \in 1..kNumLevels
               PROVE  In(l) = EntriesOf(T[l])
    OBVIOUS
  <2>1. DOMAIN files[l] = 1..Len(files[l]) /\ T[l] = {files[l][i] : i \in 1..Len(files[l])}
    <3>1. files[l] \in Seq(Table)
      BY <1>1
    <3> QED
      BY <1>1, <3>1, ListIsFinite
  <2> QED
    BY <2>1 DEF EntriesOf
<1>4. \A l \in 1..kNumLevels : /\ Newer(mem \cup imm, EntriesOf(T[l]))
                               /\ \A m \in l+1..kNumLevels : Newer(EntriesOf(T[l]), EntriesOf(T[m]))
  <2> SUFFICES ASSUME NEW l \in 1..kNumLevels
               PROVE  /\ Newer(Recent, EntriesOf(T[l]))
                      /\ \A m \in l+1..kNumLevels : Newer(EntriesOf(T[l]), EntriesOf(T[m]))
    BY DEF Recent
  <2>1. \A m \in l+1..kNumLevels : m \in 1..kNumLevels /\ l < m
    BY <1>1
  <2> HIDE DEF T
  <2> QED
    BY <1>1, <2>1 DEF Fine
<1>5. \A f, g \in ToSet(files[1]) : f.number > g.number => Newer(ToSet(f.entries), ToSet(g.entries))
  <2>1. 1 \in 1..kNumLevels
    BY <1>1, LevelsAssumption
  <2>2. T[1] = ToSet(files[1])
    BY <1>1, <2>1
  <2> HIDE DEF T
  <2> QED
    BY <1>1, <2>2 DEF Fine
<1> HIDE DEF T, In
<1>6. NewerAbove
  <2>1. Newer(mem, imm)
    BY <1>1
  <2>2. \A l \in DOMAIN files : /\ Newer(mem \cup imm, In(l))
                                /\ \A m \in l+1..kNumLevels : Newer(In(l), In(m))
    <3> SUFFICES ASSUME NEW l \in 1..kNumLevels
                 PROVE  /\ Newer(mem \cup imm, In(l))
                        /\ \A m \in l+1..kNumLevels : Newer(In(l), In(m))
      BY <1>1
    <3>1. \A m \in l+1..kNumLevels : m \in 1..kNumLevels
      BY <1>1
    <3> QED
      BY <1>3, <1>4, <3>1
  <2> QED
    BY <1>5, <2>1, <2>2 DEF NewerAbove, Newer, In
<1> QED
  BY <1>2, <1>6 DEF LevelsAreOrdered

-----------------------------------------------------------------------------
(* The invariant is one.                                                   *)

LEMMA InvAtFirst ==
    ASSUME Init
    PROVE  LevelsInv
<1> DEFINE T == Sets(files)
<1>1. /\ last_sequence = 0 /\ snapshots = <<>> /\ mem = {} /\ imm = {} /\ written = {}
      /\ files = [i \in 1..kNumLevels |-> <<>>] /\ file_to_compact = None
      /\ next_file_number = 1 /\ merge = None /\ use \in Uses
  BY DEF Init
<1>2. kNumLevels \in Nat /\ MaxWrites \in Nat
  BY LevelsAssumption
<1>3. \A l \in 1..kNumLevels : files[l] = <<>> /\ T[l] = {}
  BY <1>1 DEF Sets, ToSet
<1>4. T \in [1..kNumLevels -> SUBSET Table]
  <2>1. T = [l \in 1..kNumLevels |-> T[l]]
    BY DEF Sets
  <2> HIDE DEF T
  <2>2. \A l \in 1..kNumLevels : T[l] \in SUBSET Table
    BY <1>3
  <2>3. [l \in 1..kNumLevels |-> T[l]] \in [1..kNumLevels -> SUBSET Table]
    BY <2>2
  <2> QED
    BY <2>1, <2>3
<1> HIDE DEF T
<1>5. EntriesOf({}) = {} /\ IsFiniteSet({})
  BY FS_EmptySet DEF EntriesOf
<1>6. Recent = {}
  BY <1>1 DEF Recent
<1>7. Counted
  <2>1. <<>> \in Seq(0..0) /\ Len(<<>>) = 0 /\ 0 \in 0..MaxWrites
    BY <1>2
  <2>2. \A i, j \in 1..0 : FALSE
    OBVIOUS
  <2> QED
    BY <1>1, <1>5, <1>6, <2>1, <2>2 DEF Counted, Newer
<1>8. Charged
  BY <1>1 DEF Charged
<1>9. Listed(files)
  <2>1. files \in [1..kNumLevels -> Seq(Table)]
    BY <1>1
  <2> QED
    BY <1>3, <2>1 DEF Listed
<1>10. Fine(T, Recent, written)
  <2>0. \A l \in 1..kNumLevels : IsFiniteSet(T[l]) /\ EntriesOf(T[l]) = {}
    BY <1>3, <1>5
  <2>1. \A l \in 1..kNumLevels : IsFiniteSet(T[l]) /\ EntriesOf(T[l]) \subseteq written
    BY <2>0
  <2>2. \A l, m \in 1..kNumLevels : \A f \in T[l], g \in T[m] : f.number = g.number => l = m /\ f = g
    BY <1>3
  <2>3. \A l \in 2..kNumLevels : \A f, g \in T[l] : f = g \/ Apart(f, g)
    <3>1. \A l \in 2..kNumLevels : l \in 1..kNumLevels
      BY <1>2
    <3> QED
      BY <1>3, <3>1
  <2>4. \A l \in 1..kNumLevels : Newer(Recent, EntriesOf(T[l]))
    BY <1>6 DEF Newer
  <2>5. \A l, m \in 1..kNumLevels : l < m => Newer(EntriesOf(T[l]), EntriesOf(T[m]))
    BY <2>0 DEF Newer
  <2>6. \A f, g \in T[1] : f.number > g.number => Newer(ToSet(f.entries), ToSet(g.entries))
    <3>1. 1 \in 1..kNumLevels
      BY <1>2, LevelsAssumption
    <3> QED
      BY <1>3, <3>1
  <2> QED
    BY <1>4, <2>1, <2>2, <2>3, <2>4, <2>5, <2>6 DEF Fine
<1>11. Recent \cup All(T) = written
  <2>1. \A e : e \notin All(T)
    BY <1>3, <1>5, EntryOfAll
  <2> QED
    BY <1>1, <1>6, <2>1
<1>12. Shows(Recent \cup All(T), written, SmallestSnapshot)
  BY <1>11 DEF Shows
<1>13. NumberedBelow(T, next_file_number)
  BY <1>3 DEF NumberedBelow
<1> QED
  BY <1>1, <1>7, <1>8, <1>9, <1>10, <1>12, <1>13 DEF LevelsInv, Good, T

\* CompactRange is called only where no memtable fills up during a compaction.
ManualIsAlone == \A u \in Uses : ~(u.manual /\ u.yields)

LEMMA BackgroundIsGood ==
    ASSUME LevelsInv, KeysAreWhole', BackgroundCompaction
    PROVE  LevelsInv'
<1> DEFINE c == PickCompaction(files)
<1>1. Version(files, Recent, written) /\ use \in Uses /\ Charged
  BY StateParts DEF LevelsInv, Counted
<1>2. /\ MayMerge /\ NeedsCompaction
      /\ \/ IsTrivialMove(c) /\ TrivialMove(c)
         \/ ~IsTrivialMove(c) /\ Start(c)
  BY DEF BackgroundCompaction
<1>3. Sound(files, c) /\ HullCovered(c)
  BY <1>1, <1>2, PickIsSound
<1>4. merge = None
  BY <1>2 DEF MayMerge
<1> HIDE DEF c
<1>5. CASE IsTrivialMove(c) /\ TrivialMove(c)
  BY <1>3, <1>4, <1>5, MoveIsGood
<1>6. CASE Start(c)
  BY <1>3, <1>6, StartMerges
<1> QED
  BY <1>2, <1>5, <1>6

LEMMA ManualIsGood ==
    ASSUME ManualIsAlone, LevelsInv, KeysAreWhole',
           NEW level \in 0..kNumLevels-2, NEW r \in Ranges, StartManual(level, r)
    PROVE  LevelsInv'
<1> DEFINE in == CompactRange(files, level, r)
           c == SetupOtherInputs(files, level, in)
<1>1. Version(files, Recent, written) /\ use \in Uses
  BY StateParts DEF LevelsInv, Counted
<1>2. use.manual /\ MayMerge /\ in # <<>> /\ Start(c)
  BY DEF StartManual
<1>3. r \in Span
  <2>1. use.keys \subseteq Nat
    BY <1>1, LevelsAssumption DEF Use
  <2> QED
    BY <2>1 DEF Ranges, Interval, Span
<1>4. Sound(files, c)
  BY <1>1, <1>2, <1>3, RangeIsSound
<1>5. ~use.yields /\ imm = {}
  BY <1>1, <1>2 DEF ManualIsAlone, MayMerge
<1> HIDE DEF c, in
<1> QED
  BY <1>2, <1>4, <1>5, StartMerges

LEMMA InvStays ==
    ASSUME ManualIsAlone, LevelsInv, KeysAreWhole', [Next]_vars
    PROVE  LevelsInv'
<1>1. CASE \E k \in use.keys, del \in BOOLEAN : Write(k, del)
  BY <1>1, WriteIsGood
<1>2. CASE SwitchMemTable
  BY <1>2, SwitchIsGood
<1>3. CASE GetSnapshot \/ ReleaseSnapshot
  BY <1>3, SnapshotsAreGood
<1>4. CASE \E k \in use.keys, s \in {last_sequence} \cup ToSet(snapshots) : Charge(k, s)
  BY <1>4, ChargeIsGood
<1>5. CASE CompactMemTable
  BY <1>5, FlushIsGood
<1>6. CASE BackgroundCompaction
  BY <1>6, BackgroundIsGood
<1>7. CASE InstallCompactionResults
  BY <1>7, ResultsAreGood
<1>8. CASE \E level \in 0..kNumLevels-2, r \in Ranges : StartManual(level, r)
  BY <1>8, ManualIsGood
<1>9. CASE UNCHANGED vars
  <2>1. UNCHANGED <<last_sequence, snapshots, mem, imm, files, file_to_compact,
                    next_file_number, merge, use, written>>
    BY <1>9 DEF vars
  <2>2. Recent' = Recent /\ SmallestSnapshot' = SmallestSnapshot
    BY <2>1 DEF Recent, SmallestSnapshot
  <2>3. Counted'
    BY <2>1, <2>2 DEF LevelsInv, Counted
  <2>4. Charged'
    BY <2>1, ChargedStays
  <2> QED
    BY <2>1, <2>2, <2>3, <2>4, TablesStay
<1> QED
  BY <1>1, <1>2, <1>3, <1>4, <1>5, <1>6, <1>7, <1>8, <1>9 DEF Next, BackgroundStep

LEMMA InvAlways == ASSUME ManualIsAlone PROVE Spec /\ []KeysAreWhole => []LevelsInv
<1>1. Init => LevelsInv
  BY InvAtFirst
<1>2. LevelsInv /\ KeysAreWhole' /\ [Next]_vars => LevelsInv'
  BY InvStays
<1> QED
  BY <1>1, <1>2, PTL DEF Spec

\* version_set.cc:765 and 349-351, for every database: tables of a level do not
\* overlap and entries never hop across levels, as long as no compaction splits
\* the versions of a key over two of its outputs.
THEOREM LevelsAreOrderedSafe ==
    ASSUME ManualIsAlone
    PROVE  Spec /\ []KeysAreWhole => []LevelsAreOrdered
<1>1. LevelsInv => LevelsAreOrdered
  BY InvIsOrdered
<1> QED
  BY <1>1, InvAlways, PTL

\* db.h:80-115, for every database, snapshot and key: under the same condition a
\* Get returns the last value written.
THEOREM GetIsLatestSafe ==
    ASSUME ManualIsAlone
    PROVE  Spec /\ []KeysAreWhole => []GetIsLatest
<1>1. LevelsInv => GetIsLatest
  BY InvShowsLatest
<1> QED
  BY <1>1, InvAlways, PTL
-----------------------------------------------------------------------------
(* Without snapshots no compaction splits the versions of a key, since it  *)
(* keeps one of each.                                                      *)

NoSnapshots == \A u \in Uses : u.snapshots = 0

LEMMA KeptOnce ==
    ASSUME NEW v, NEW c, NEW input \in Seq(Update), Rising(input), NEW s \in Nat,
           \A j \in 1..Len(input) : input[j].seq <= s,
           NEW d \in Kept(v, c, input, s, Len(input)), NEW e \in Kept(v, c, input, s, Len(input)),
           d.key = e.key
    PROVE  d = e
<1>1. PICK j \in 1..Len(input) : j \notin Drops(v, c, input, s) /\ d = input[j]
  BY KeptUpTo
<1>2. PICK m \in 1..Len(input) : m \notin Drops(v, c, input, s) /\ e = input[m]
  BY KeptUpTo
<1>3. input[j].key = input[m].key
  BY <1>1, <1>2
<1>4. ~(j < m)
  BY <1>1, <1>2, <1>3, HiddenIsDropped
<1>5. ~(m < j)
  BY <1>1, <1>2, <1>3, HiddenIsDropped
<1>6. j = m
  BY <1>4, <1>5
<1> QED
  BY <1>1, <1>2, <1>6

LEMMA OutputsAreWhole ==
    ASSUME NEW outs, NEW K, Parts(outs, K), \A d, e \in K : d.key = e.key => d = e, NEW n \in Nat
    PROVE  Whole(Outputs(outs, n))
<1>1. outs \in Seq(Seq(Update)) /\ Len(outs) \in Nat
  BY DEF Parts
<1>2. ASSUME NEW a \in 1..Len(outs), NEW b \in 1..Len(outs), a < b,
             NEW d \in ToSet(outs[a]), NEW e \in ToSet(outs[b])
      PROVE  d.key # e.key
  <2>1. Less(d, e)
    BY <1>2 DEF Parts
  <2>2. d \in K /\ e \in K
    BY DEF Parts, Holds
  <2>3. d \in Update /\ e \in Update
    <3>1. outs[a] \in Seq(Update) /\ outs[b] \in Seq(Update)
      BY <1>1
    <3> QED
      BY <3>1, ListIsFinite
  <2>4. d # e
    <3>1. d.key \in Nat /\ d.seq \in Nat
      BY <2>3, KeysAreNumbers
    <3> QED
      BY <2>1, <3>1 DEF Less
  <2> QED
    BY <2>2, <2>4
<1>3. ASSUME NEW f \in Outputs(outs, n), NEW g \in Outputs(outs, n), f # g,
             NEW d \in ToSet(f.entries), NEW e \in ToSet(g.entries)
      PROVE  d.key # e.key
  <2>1. PICK a \in 1..Len(outs) : f = [number |-> n + a - 1, entries |-> outs[a]]
    BY DEF Outputs
  <2>2. PICK b \in 1..Len(outs) : g = [number |-> n + b - 1, entries |-> outs[b]]
    BY DEF Outputs
  <2>3. a < b \/ b < a
    BY <1>3, <2>1, <2>2
  <2>4. d \in ToSet(outs[a]) /\ e \in ToSet(outs[b])
    BY <2>1, <2>2
  <2> QED
    BY <1>2, <2>3, <2>4
<1> QED
  BY <1>3 DEF Whole

LEMMA StartsWhole ==
    ASSUME LevelsInv, snapshots = <<>>, NEW c, Sound(files, c), Start(c)
    PROVE  KeysAreWhole'
<1> DEFINE n == next_file_number
           s == SmallestSnapshot
           input == MakeInputIterator(c)
           outs == DoCompactionWork(files, c, input, s)
           O == Outputs(outs, n)
           K == Kept(files, c, input, s, Len(input))
           I == ToSet(c.inputs0) \cup ToSet(c.inputs1)
<1>1. /\ Version(files, Recent, written) /\ IsFiniteSet(written) /\ written \subseteq Update
      /\ n \in Nat /\ kNumLevels \in Nat /\ last_sequence \in Nat
      /\ \A e \in written : e.seq <= last_sequence
  BY StateParts DEF LevelsInv, Counted
<1>2. s = last_sequence
  BY DEF SmallestSnapshot
<1>3. input \in Seq(Update) /\ Rising(input) /\ ToSet(input) = EntriesOf(I)
  BY <1>1, InputParts
<1>4. c.grandparents \in Seq(Table)
  BY DEF Sound
<1>5. EntriesOf(I) \subseteq written
  <2> DEFINE l == c.level + 1
  <2>1. /\ c.level \in 0..kNumLevels-2
        /\ ToSet(c.inputs0) \subseteq Sets(files)[l] /\ ToSet(c.inputs1) \subseteq Sets(files)[l+1]
    BY DEF Sound, Mergeable
  <2>2. l \in 1..kNumLevels /\ l + 1 \in 1..kNumLevels
    BY <1>1, <2>1
  <2>3. EntriesOf(Sets(files)[l]) \subseteq written /\ EntriesOf(Sets(files)[l+1]) \subseteq written
    BY <1>1, <2>2 DEF Version, Fine
  <2> HIDE DEF l
  <2> SUFFICES ASSUME NEW e \in EntriesOf(I)
               PROVE  e \in written
    OBVIOUS
  <2>4. PICK f \in I : e \in ToSet(f.entries)
    BY EntryOf
  <2>5. e \in EntriesOf(Sets(files)[l]) \/ e \in EntriesOf(Sets(files)[l+1])
    BY <2>1, <2>4, EntryOf
  <2> QED
    BY <2>3, <2>5
<1>6. Begin(c, outs)
  BY DEF Start
<1> HIDE DEF input, s, I
<1>7. \A j \in 1..Len(input) : input[j].seq <= s
  <2>1. \A j \in 1..Len(input) : input[j] \in ToSet(input)
    BY <1>3, ListIsFinite
  <2> QED
    BY <1>1, <1>2, <1>3, <1>5, <2>1
<1>8. Parts(outs, K)
  BY <1>3, <1>4, OutputsAreParts
<1>9. \A d, e \in K : d.key = e.key => d = e
  BY <1>1, <1>2, <1>3, <1>7, KeptOnce
<1> HIDE DEF outs, K
<1>10. Whole(O)
  BY <1>1, <1>8, <1>9, OutputsAreWhole
<1>11. {a[2] : a \in merge'.add} = O
  <2>1. outs \in Seq(Seq(Update))
    BY <1>8 DEF Parts
  <2>2. DOMAIN outs = 1..Len(outs)
    BY <2>1
  <2>3. merge'.add = Placed(c.level + 1, O)
    BY <1>6, <2>2 DEF Begin, Placed, Outputs
  <2> QED
    BY <2>3, PlacedTables
<1> QED
  BY <1>10, <1>11 DEF KeysAreWhole

LEMMA WholeStays ==
    ASSUME NoSnapshots, LevelsInv, KeysAreWhole, snapshots = <<>>, [Next]_vars
    PROVE  KeysAreWhole' /\ snapshots' = <<>>
<1>1. Version(files, Recent, written) /\ use \in Uses /\ Charged
  BY StateParts DEF LevelsInv, Counted
<1>2. ASSUME merge' = merge
      PROVE  KeysAreWhole'
  BY <1>2 DEF KeysAreWhole
<1>3. ASSUME NEW c, Start(c)
      PROVE  snapshots' = <<>>
  BY <1>3 DEF Start, Begin
<1>4. CASE \E k \in use.keys, del \in BOOLEAN : Write(k, del)
  BY <1>2, <1>4 DEF Write
<1>5. CASE SwitchMemTable
  BY <1>2, <1>5 DEF SwitchMemTable
<1>6. CASE GetSnapshot
  <2>1. Len(snapshots) = 0 /\ use.snapshots = 0
    BY <1>1 DEF NoSnapshots
  <2> QED
    BY <1>6, <2>1 DEF GetSnapshot
<1>7. CASE ReleaseSnapshot
  <2>1. DOMAIN snapshots = {}
    OBVIOUS
  <2> QED
    BY <1>7, <2>1 DEF ReleaseSnapshot
<1>8. CASE \E k \in use.keys, s \in {last_sequence} \cup ToSet(snapshots) : Charge(k, s)
  BY <1>2, <1>8 DEF Charge
<1>9. CASE CompactMemTable
  BY <1>2, <1>9 DEF CompactMemTable
<1>10. CASE BackgroundCompaction
  <2> DEFINE c == PickCompaction(files)
  <2>1. /\ NeedsCompaction
        /\ \/ IsTrivialMove(c) /\ TrivialMove(c)
           \/ ~IsTrivialMove(c) /\ Start(c)
    BY <1>10 DEF BackgroundCompaction
  <2>2. Sound(files, c)
    BY <1>1, <2>1, PickIsSound
  <2> HIDE DEF c
  <2>3. CASE TrivialMove(c)
    BY <1>2, <2>3 DEF TrivialMove
  <2>4. CASE Start(c)
    BY <1>3, <2>2, <2>4, StartsWhole
  <2> QED
    BY <2>1, <2>3, <2>4
<1>11. CASE InstallCompactionResults
  BY <1>11 DEF InstallCompactionResults, KeysAreWhole
<1>12. ASSUME NEW level \in 0..kNumLevels-2, NEW r \in Ranges, StartManual(level, r)
       PROVE  KeysAreWhole' /\ snapshots' = <<>>
  <2> DEFINE in == CompactRange(files, level, r)
             c == SetupOtherInputs(files, level, in)
  <2>1. in # <<>> /\ Start(c)
    BY <1>12 DEF StartManual
  <2>2. r \in Span
    BY <1>1, LevelsAssumption DEF Use, Ranges, Interval, Span
  <2>3. Sound(files, c)
    BY <1>1, <2>1, <2>2, RangeIsSound
  <2> HIDE DEF c, in
  <2> QED
    BY <1>3, <2>1, <2>3, StartsWhole
<1>13. CASE UNCHANGED vars
  BY <1>2, <1>13 DEF vars
<1> QED
  BY <1>4, <1>5, <1>6, <1>7, <1>8, <1>9, <1>10, <1>11, <1>12, <1>13 DEF Next, BackgroundStep

LEMMA WholeAlways ==
    ASSUME ManualIsAlone, NoSnapshots
    PROVE  Spec => [](LevelsInv /\ KeysAreWhole /\ snapshots = <<>>)
<1> DEFINE I == LevelsInv /\ KeysAreWhole /\ snapshots = <<>>
<1>1. Init => I
  BY InvAtFirst DEF Init, KeysAreWhole
<1>2. I /\ [Next]_vars => I'
  BY WholeStays, InvStays
<1> HIDE DEF I
<1>3. Spec => []I
  BY <1>1, <1>2, PTL DEF Spec
<1> QED
  BY <1>3 DEF I

\* For every database whose readers take no snapshot, without any condition on the
\* compactions: tables of a level do not overlap, entries never hop across levels.
THEOREM OrderedWithoutSnapshots ==
    ASSUME ManualIsAlone, NoSnapshots
    PROVE  Spec => []LevelsAreOrdered
<1>1. LevelsInv /\ KeysAreWhole /\ snapshots = <<>> => LevelsAreOrdered
  BY InvIsOrdered
<1> QED
  BY <1>1, WholeAlways, PTL

\* And a Get returns the last value written.
THEOREM LatestWithoutSnapshots ==
    ASSUME ManualIsAlone, NoSnapshots
    PROVE  Spec => []GetIsLatest
<1>1. LevelsInv /\ KeysAreWhole /\ snapshots = <<>> => GetIsLatest
  BY InvShowsLatest
<1> QED
  BY <1>1, WholeAlways, PTL
-----------------------------------------------------------------------------
(* The tables of a version and the inputs of a compaction.                 *)

LEMMA InvIsTyped ==
    ASSUME LevelsInv
    PROVE  TypeOK
<1> DEFINE T == Sets(files)
<1>1. /\ Fine(T, Recent, written) /\ Listed(files) /\ NumberedBelow(T, next_file_number)
      /\ DOMAIN files = 1..kNumLevels
      /\ \A l \in 1..kNumLevels : files[l] \in Seq(Table) /\ T[l] = ToSet(files[l])
  BY DEF LevelsInv, Good, Listed, Sets
<1>2. \A l \in 1..kNumLevels : /\ DOMAIN files[l] = 1..Len(files[l]) /\ Len(files[l]) \in Nat
                               /\ T[l] = {files[l][i] : i \in 1..Len(files[l])}
                               /\ T[l] \subseteq Table
  <2> SUFFICES ASSUME NEW l \in 1..kNumLevels
               PROVE  /\ DOMAIN files[l] = 1..Len(files[l]) /\ Len(files[l]) \in Nat
                      /\ T[l] = {files[l][i] : i \in 1..Len(files[l])}
                      /\ T[l] \subseteq Table
    OBVIOUS
  <2>1. files[l] \in Seq(Table) /\ T[l] = ToSet(files[l])
    BY <1>1
  <2> QED
    BY <2>1, ListIsFinite
<1> HIDE DEF T
<1>3. ASSUME merge # None, NEW d \in merge.del
      PROVE  \E i \in DOMAIN files[d[1] + 1] : files[d[1] + 1][i].number = d[2]
  <2>1. Merging
    BY <1>3 DEF LevelsInv
  <2>2. PICK l \in 1..kNumLevels-1 :
          \E inputs0 \in SUBSET ToSet(files[l]), inputs1 \in SUBSET ToSet(files[l+1]) :
            merge.del = {<<l - 1, f.number>> : f \in inputs0} \cup {<<l, f.number>> : f \in inputs1}
    BY <2>1 DEF Merging
  <2>3. PICK m \in 1..kNumLevels : \E f \in ToSet(files[m]) : d[1] + 1 = m /\ d[2] = f.number
    <3>1. l \in 1..kNumLevels /\ l + 1 \in 1..kNumLevels /\ (l - 1) + 1 = l
      BY LevelsAssumption
    <3>2. (\E f \in ToSet(files[l]) : d = <<l - 1, f.number>>)
          \/ (\E f \in ToSet(files[l+1]) : d = <<l, f.number>>)
      BY <1>3, <2>2
    <3> QED
      BY <3>1, <3>2
  <2>4. PICK f \in T[m] : d[2] = f.number
    BY <1>1, <2>3
  <2>5. PICK i \in 1..Len(files[m]) : f = files[m][i]
    BY <1>2
  <2> QED
    BY <1>2, <2>3, <2>4, <2>5
<1>4. ASSUME NEW l \in DOMAIN files, NEW m \in DOMAIN files,
             NEW i \in DOMAIN files[l], NEW j \in DOMAIN files[m],
             files[l][i].number = files[m][j].number
      PROVE  l = m /\ i = j
  <2>1. /\ l \in 1..kNumLevels /\ m \in 1..kNumLevels
        /\ files[l][i] \in T[l] /\ files[m][j] \in T[m]
    BY <1>1, <1>2
  <2>2. l = m /\ files[l][i] = files[m][j]
    BY <1>1, <1>4, <2>1 DEF Fine
  <2>3. i \in 1..Len(files[l]) /\ j \in 1..Len(files[l])
    BY <1>2, <2>1, <2>2
  <2>4. ASSUME NEW a \in 1..Len(files[l]), NEW b \in 1..Len(files[l]), a < b
        PROVE  files[l][a] # files[l][b]
    <3>1. BySmallestKey(files[l][a], files[l][b])
      BY <1>1, <2>1, <2>4 DEF Listed
    <3>2. files[l][a] \in Table
      BY <1>2, <2>1
    <3> DEFINE f == files[l][a]
    <3>4. Smallest(f) \in Update /\ f.number \in Nat
      BY <3>2, Ends
    <3> HIDE DEF f
    <3>3. /\ Smallest(files[l][a]).key \in Nat /\ Smallest(files[l][a]).seq \in Nat
          /\ files[l][a].number \in Nat
      BY <3>4, KeysAreNumbers DEF f
    <3> QED
      BY <3>1, <3>3 DEF BySmallestKey, Less
  <2>5. ~(i < j) /\ ~(j < i)
    BY <2>2, <2>3, <2>4
  <2> QED
    BY <2>2, <2>3, <2>5
<1>5. \A l \in DOMAIN files : \A i \in DOMAIN files[l] : files[l][i].number < next_file_number
  BY <1>1, <1>2 DEF NumberedBelow
<1> QED
  BY <1>3, <1>4, <1>5 DEF TypeOK

\* An input of a compaction is in the version until the compaction is installed,
\* whatever is flushed in the meantime, and no number names two tables: for every
\* database, under the same condition.
THEOREM TypeOKSafe ==
    ASSUME ManualIsAlone
    PROVE  Spec /\ []KeysAreWhole => []TypeOK
<1>1. LevelsInv => TypeOK
  BY InvIsTyped
<1> QED
  BY <1>1, InvAlways, PTL
=============================================================================
