-------------------------- MODULE TableCacheProofs --------------------------
(***************************************************************************)
(* Proofs about the cache of open tables: for any number of threads, files *)
(* and entries, a reference count is the number of those who refer to the  *)
(* entry, so a table is open for whoever holds it and closed when it is    *)
(* held by nobody.                                                         *)
(*                                                                         *)
(* The operations of the cache come first, for any counts of the handles   *)
(* that are out; then the threads, whose handles are what is counted.      *)
(***************************************************************************)
EXTENDS TableCache, FiniteSetTheorems, SequenceTheorems, TLAPS

-----------------------------------------------------------------------------
(* The list.                                                               *)

Distinct(s) == \A i, j \in 1..Len(s) : s[i] = s[j] => i = j

\* A list without duplicates loses one element.
LEMMA RemoveFirstIs ==
    ASSUME NEW S, NEW s \in Seq(S), Distinct(s), NEW e
    PROVE  /\ RemoveFirst(s, e) \in Seq(S)
           /\ Distinct(RemoveFirst(s, e))
           /\ Range(RemoveFirst(s, e)) = Range(s) \ {e}
           /\ e \in Range(s) => Len(RemoveFirst(s, e)) = Len(s) - 1
           /\ Len(RemoveFirst(s, e)) <= Len(s)
<1>1. DOMAIN s = 1..Len(s) /\ Len(s) \in Nat
  OBVIOUS
<1>2. CASE e \notin Range(s)
  <2>1. ~ \E i \in 1..Len(s) : s[i] = e
    BY <1>1, <1>2 DEF Range
  <2>2. RemoveFirst(s, e) = s
    BY <2>1 DEF RemoveFirst
  <2>3. Range(s) \ {e} = Range(s)
    BY <1>2
  <2>4. Len(s) <= Len(s)
    BY <1>1
  <2>5. /\ s \in Seq(S) /\ Distinct(s) /\ Range(s) = Range(s) \ {e}
        /\ (e \in Range(s) => Len(s) = Len(s) - 1)
        /\ Len(s) <= Len(s)
    <3>1. e \in Range(s) => Len(s) = Len(s) - 1
      BY <1>2
    <3>2. s \in Seq(S) /\ Distinct(s)
      OBVIOUS
    <3> QED
      BY <2>3, <2>4, <3>1, <3>2
  <2> QED
    BY <2>2, <2>5, Zenon
<1>3. CASE e \in Range(s)
  <2>1. PICK k \in 1..Len(s) : s[k] = e
    BY <1>1, <1>3 DEF Range
  <2> DEFINE I == {i \in 1..Len(s) : s[i] = e}
  <2>2. I = {k}
    BY <2>1 DEF Distinct
  <2>3. Min(I) = k
    BY <2>1, <2>2 DEF Min
  <2>4. SelectInSeq(s, LAMBDA v : v = e) = k
    BY <2>2, <2>3 DEF SelectInSeq
  <2> DEFINE a == SubSeq(s, 1, k - 1)
             b == SubSeq(s, k + 1, Len(s))
             r == RemoveFirst(s, e)
  <2>5. r = a \o b
    BY <2>1, <2>4 DEF RemoveFirst, RemoveAt
  <2>6. a \in Seq(S) /\ Len(a) = k - 1 /\ \A i \in 1..k - 1 : a[i] = s[i]
    BY <2>1, <1>1
  <2>7. b \in Seq(S) /\ Len(b) = Len(s) - k /\ \A i \in 1..Len(s) - k : b[i] = s[k + i]
    <3>1. k + 1 \in 1..Len(s) + 1 /\ Len(s) \in k..Len(s)
      BY <2>1, <1>1
    <3>2. /\ b \in Seq(S)
          /\ Len(b) = (IF k + 1 <= Len(s) THEN Len(s) - (k + 1) + 1 ELSE 0)
          /\ \A i \in 1..Len(s) - (k + 1) + 1 : b[i] = s[k + 1 + i - 1]
      BY <3>1, <2>1, <1>1, SubSeqProperties
    <3> HIDE DEF b
    <3>3. \A i \in 1..Len(s) - k : k + 1 + i - 1 = k + i /\ i \in 1..Len(s) - (k + 1) + 1
      BY <2>1, <1>1
    <3>4. Len(b) = Len(s) - k
      <4>1. Len(b) = IF k + 1 <= Len(s) THEN Len(s) - (k + 1) + 1 ELSE 0
        BY <3>2
      <4>2. k \in Nat /\ Len(s) \in Nat /\ k <= Len(s)
        BY <2>1, <1>1
      <4> QED
        BY <4>1, <4>2
    <3>5. ASSUME NEW i \in 1..Len(s) - k PROVE b[i] = s[k + i]
      BY <3>2, <3>3
    <3> QED
      BY <3>2, <3>4, <3>5
  <2> HIDE DEF a, b, r
  <2>8. /\ a \o b \in Seq(S) /\ Len(a \o b) = Len(a) + Len(b)
        /\ \A i \in 1..Len(a) + Len(b) :
             (a \o b)[i] = IF i <= Len(a) THEN a[i] ELSE b[i - Len(a)]
    BY <2>6, <2>7, ConcatProperties
  <2>9. r \in Seq(S) /\ Len(r) = Len(s) - 1
    BY <2>5, <2>6, <2>7, <2>8, <1>1
  <2>10. \A i \in 1..Len(r) : r[i] = IF i < k THEN s[i] ELSE s[i + 1]
    <3> TAKE i \in 1..Len(r)
    <3>1. CASE i < k
      BY <3>1, <2>1, <2>5, <2>6, <2>7, <2>8, <2>9, <1>1
    <3>2. CASE ~(i < k)
      <4>1. i - Len(a) \in 1..Len(s) - k /\ k + (i - Len(a)) = i + 1
        BY <3>2, <2>1, <2>6, <2>9, <1>1
      <4> QED
        BY <4>1, <3>2, <2>1, <2>5, <2>6, <2>7, <2>8, <2>9, <1>1
    <3> QED
      BY <3>1, <3>2
  <2>11. Distinct(r)
    BY <2>9, <2>10, <2>1, <1>1 DEF Distinct
  <2>12. DOMAIN r = 1..Len(r)
    BY <2>9
  <2>13. Range(r) \subseteq Range(s) \ {e}
    <3> SUFFICES ASSUME NEW i \in 1..Len(r) PROVE r[i] \in Range(s) \ {e}
      BY <2>12 DEF Range
    <3> DEFINE j == IF i < k THEN i ELSE i + 1
    <3>1. j \in 1..Len(s) /\ j # k
      BY <2>9, <2>1, <1>1
    <3>2. r[i] = s[j]
      BY <2>10
    <3> HIDE DEF j
    <3> QED
      BY <3>1, <3>2, <2>1, <1>1 DEF Distinct, Range
  <2>14. Range(s) \ {e} \subseteq Range(r)
    <3> SUFFICES ASSUME NEW j \in 1..Len(s), s[j] # e PROVE s[j] \in Range(r)
      BY <1>1 DEF Range
    <3> DEFINE i == IF j < k THEN j ELSE j - 1
    <3>1. j # k
      BY <2>1
    <3>2. i \in 1..Len(r) /\ (IF i < k THEN i ELSE i + 1) = j
      BY <3>1, <2>9, <2>1, <1>1
    <3>3. r[i] = s[j]
      BY <3>2, <2>10
    <3> HIDE DEF i
    <3> QED
      BY <3>2, <3>3, <2>12 DEF Range
  <2> QED
    BY <2>9, <2>11, <2>13, <2>14, <1>1, <1>3 DEF r
<1> QED
  BY <1>2, <1>3

\* ... and gets one at its new end.
LEMMA AppendIs ==
    ASSUME NEW S, NEW s \in Seq(S), Distinct(s), NEW e \in S, e \notin Range(s)
    PROVE  /\ Append(s, e) \in Seq(S)
           /\ Distinct(Append(s, e))
           /\ Range(Append(s, e)) = Range(s) \cup {e}
<1> DEFINE r == Append(s, e)
<1>1. /\ r \in Seq(S) /\ Len(r) = Len(s) + 1 /\ r[Len(s) + 1] = e
      /\ \A i \in 1..Len(s) : r[i] = s[i]
  BY AppendProperties
<1>2. DOMAIN s = 1..Len(s) /\ Len(s) \in Nat /\ DOMAIN r = 1..Len(r)
  BY <1>1
<1> HIDE DEF r
<1>3. \A i \in 1..Len(s) : s[i] # e
  BY <1>2 DEF Range
<1>4. Distinct(r)
  BY <1>1, <1>2, <1>3 DEF Distinct
<1>5. Range(r) = Range(s) \cup {e}
  <2>1. \A i \in 1..Len(r) : i \in 1..Len(s) \/ i = Len(s) + 1
    BY <1>1, <1>2
  <2>2. \A i \in 1..Len(s) : i \in 1..Len(r)
    BY <1>1, <1>2
  <2>3. Len(s) + 1 \in 1..Len(r)
    BY <1>1, <1>2
  <2> QED
    BY <2>1, <2>2, <2>3, <1>1, <1>2 DEF Range
<1> QED
  BY <1>1, <1>4, <1>5 DEF r

-----------------------------------------------------------------------------
(* What the operations do to the members.                                  *)

IsCache(c) ==
    c = [entries |-> c.entries, table |-> c.table, lru |-> c.lru,
         in_use |-> c.in_use, usage |-> c.usage]

LEMMA RefIs ==
    ASSUME NEW c, IsCache(c), NEW e, NEW d, d = Ref(c, e)
    PROVE  /\ IsCache(d)
           /\ d.entries = [c.entries EXCEPT ![e].refs = @ + 1]
           /\ d.table = c.table /\ d.usage = c.usage
           /\ IF c.entries[e].refs = 1 /\ c.entries[e].in_cache
              THEN d.lru = RemoveFirst(c.lru, e) /\ d.in_use = (c.in_use \ {e}) \cup {e}
              ELSE d.lru = c.lru /\ d.in_use = c.in_use
<1> DEFINE b == c.entries[e].refs = 1 /\ c.entries[e].in_cache
           r == RemoveFirst(c.lru, e)
           m == [c.entries EXCEPT ![e].refs = @ + 1]
<1>1. CASE b
  <2>1. d = [[[c EXCEPT !.lru = r, !.in_use = @ \ {e}] EXCEPT !.in_use = @ \cup {e}]
               EXCEPT !.entries = m]
    BY <1>1 DEF Ref, LRU_Remove, IsCache
  <2> HIDE DEF r, m
  <2>2. /\ d = [entries |-> d.entries, table |-> d.table, lru |-> d.lru,
                in_use |-> d.in_use, usage |-> d.usage]
        /\ d.entries = m /\ d.table = c.table /\ d.usage = c.usage
        /\ d.lru = r /\ d.in_use = (c.in_use \ {e}) \cup {e}
    BY <2>1 DEF IsCache
  <2> QED
    BY <1>1, <2>2 DEF IsCache, r, m
<1>2. CASE ~b
  <2>1. d = [c EXCEPT !.entries = m]
    BY <1>2 DEF Ref, IsCache
  <2> HIDE DEF m
  <2>2. /\ d = [entries |-> d.entries, table |-> d.table, lru |-> d.lru,
                in_use |-> d.in_use, usage |-> d.usage]
        /\ d.entries = m /\ d.table = c.table /\ d.usage = c.usage
        /\ d.lru = c.lru /\ d.in_use = c.in_use
    BY <2>1 DEF IsCache
  <2> QED
    BY <1>2, <2>2 DEF IsCache, m
<1> QED
  BY <1>1, <1>2

\* The last reference goes.
LEMMA UnrefLast ==
    ASSUME NEW c, IsCache(c), NEW e, c.entries[e].refs - 1 = 0, NEW d, d = Unref(c, e)
    PROVE  /\ IsCache(d)
           /\ d.entries = Without(c.entries, e)
           /\ d.table = c.table /\ d.usage = c.usage
           /\ d.lru = c.lru /\ d.in_use = c.in_use
<1> DEFINE m == Without(c.entries, e)
<1>1. d = [c EXCEPT !.entries = m]
  BY DEF Unref, IsCache
<1> HIDE DEF m
<1>2. /\ d = [entries |-> d.entries, table |-> d.table, lru |-> d.lru,
              in_use |-> d.in_use, usage |-> d.usage]
      /\ d.entries = m /\ d.table = c.table /\ d.usage = c.usage
      /\ d.lru = c.lru /\ d.in_use = c.in_use
  BY <1>1 DEF IsCache
<1> QED
  BY <1>2 DEF IsCache, m

\* The last reference but the cache's goes.
LEMMA UnrefToLRU ==
    ASSUME NEW c, IsCache(c), NEW e, e \in DOMAIN c.entries,
           DOMAIN c.entries[e] = {"key", "charge", "in_cache", "refs"},
           c.entries[e].refs - 1 # 0, c.entries[e].refs - 1 = 1, c.entries[e].in_cache,
           NEW d, d = Unref(c, e)
    PROVE  /\ IsCache(d)
           /\ d.entries = [c.entries EXCEPT ![e].refs = c.entries[e].refs - 1]
           /\ d.table = c.table /\ d.usage = c.usage
           /\ d.lru = Append(RemoveFirst(c.lru, e), e) /\ d.in_use = c.in_use \ {e}
<1> DEFINE m == [c.entries EXCEPT ![e].refs = c.entries[e].refs - 1]
           f == [c EXCEPT !.entries = m]
           r == RemoveFirst(c.lru, e)
<1>1. m[e].in_cache = c.entries[e].in_cache
  OBVIOUS
<1>2. f = [entries |-> m, table |-> c.table, lru |-> c.lru, in_use |-> c.in_use,
           usage |-> c.usage]
  <2> HIDE DEF m
  <2> QED
    BY DEF IsCache
<1>3. d = [[f EXCEPT !.lru = r, !.in_use = @ \ {e}] EXCEPT !.lru = Append(@, e)]
  <2>1. f.lru = c.lru
    BY <1>2
  <2> QED
    BY <2>1 DEF Unref, LRU_Remove
<1> HIDE DEF m, f, r
<1>4. /\ d = [entries |-> d.entries, table |-> d.table, lru |-> d.lru,
              in_use |-> d.in_use, usage |-> d.usage]
      /\ d.entries = m /\ d.table = c.table /\ d.usage = c.usage
      /\ d.lru = Append(r, e) /\ d.in_use = c.in_use \ {e}
  BY <1>2, <1>3
<1> QED
  BY <1>4 DEF IsCache, m, r

\* A reference goes, and others are left.
LEMMA UnrefOne ==
    ASSUME NEW c, IsCache(c), NEW e, e \in DOMAIN c.entries,
           c.entries[e].refs - 1 # 0,
           ~(c.entries[e].refs - 1 = 1 /\ c.entries[e].in_cache),
           NEW d, d = Unref(c, e)
    PROVE  /\ IsCache(d)
           /\ d.entries = [c.entries EXCEPT ![e].refs = c.entries[e].refs - 1]
           /\ d.table = c.table /\ d.usage = c.usage
           /\ d.lru = c.lru /\ d.in_use = c.in_use
<1> DEFINE m == [c.entries EXCEPT ![e].refs = c.entries[e].refs - 1]
<1>1. d = [c EXCEPT !.entries = m]
  BY DEF Unref, IsCache
<1> HIDE DEF m
<1>2. /\ d = [entries |-> d.entries, table |-> d.table, lru |-> d.lru,
              in_use |-> d.in_use, usage |-> d.usage]
      /\ d.entries = m /\ d.table = c.table /\ d.usage = c.usage
      /\ d.lru = c.lru /\ d.in_use = c.in_use
  BY <1>1 DEF IsCache
<1> QED
  BY <1>2 DEF IsCache, m

\* An entry leaves the table: the cache lets go of it, and it is freed unless
\* somebody else holds it.
Released(entries, e) ==
    IF entries[e].refs = 1 THEN Without(entries, e)
    ELSE [entries EXCEPT ![e].in_cache = FALSE, ![e].refs = entries[e].refs - 1]

LEMMA FinishEraseIs ==
    ASSUME NEW c, IsCache(c), NEW e, e # Null, e \in DOMAIN c.entries,
           DOMAIN c.entries[e] = {"key", "charge", "in_cache", "refs"},
           c.entries[e].refs \in Nat, NEW d, d = FinishErase(c, e)
    PROVE  /\ IsCache(d)
           /\ d.entries = Released(c.entries, e)
           /\ d.table = c.table /\ d.usage = c.usage - c.entries[e].charge
           /\ d.lru = RemoveFirst(c.lru, e) /\ d.in_use = c.in_use \ {e}
<1> DEFINE m == [c.entries EXCEPT ![e].in_cache = FALSE]
           r == RemoveFirst(c.lru, e)
           f == [[c EXCEPT !.lru = r, !.in_use = @ \ {e}]
                   EXCEPT !.entries[e].in_cache = FALSE,
                          !.usage = @ - c.entries[e].charge]
<1>1. d = Unref(f, e)
  BY DEF FinishErase, LRU_Remove
<1>2. f = [entries |-> m, table |-> c.table, lru |-> r, in_use |-> c.in_use \ {e},
           usage |-> c.usage - c.entries[e].charge]
  <2> HIDE DEF r
  <2>1. f = [[c EXCEPT !.lru = r, !.in_use = @ \ {e}]
               EXCEPT !.entries = m, !.usage = @ - c.entries[e].charge]
    BY DEF IsCache
  <2> HIDE DEF m, f
  <2> QED
    BY <2>1 DEF IsCache
<1>3. /\ e \in DOMAIN m /\ m[e].in_cache = FALSE /\ m[e].refs = c.entries[e].refs
      /\ DOMAIN m = DOMAIN c.entries
      /\ \A x \in DOMAIN m : x # e => m[x] = c.entries[x]
  OBVIOUS
<1> HIDE DEF m, f, r
<1>4. IsCache(f) /\ f.entries = m
  BY <1>2 DEF IsCache
<1>5. CASE c.entries[e].refs = 1
  <2>1. f.entries[e].refs - 1 = 0
    BY <1>3, <1>4, <1>5
  <2>2. /\ IsCache(d) /\ d.entries = Without(m, e)
        /\ d.table = f.table /\ d.usage = f.usage /\ d.lru = f.lru /\ d.in_use = f.in_use
    BY <1>1, <1>4, <2>1, UnrefLast
  <2>3. Without(m, e) = Without(c.entries, e)
    BY <1>3 DEF Without
  <2> QED
    BY <1>2, <1>5, <2>2, <2>3 DEF Released, r
<1>6. CASE c.entries[e].refs # 1
  <2>1. f.entries[e].refs - 1 # 0 /\ ~(f.entries[e].refs - 1 = 1 /\ f.entries[e].in_cache)
    BY <1>3, <1>4, <1>6
  <2>2. e \in DOMAIN f.entries
    BY <1>3, <1>4
  <2>3. /\ IsCache(d) /\ d.entries = [f.entries EXCEPT ![e].refs = f.entries[e].refs - 1]
        /\ d.table = f.table /\ d.usage = f.usage /\ d.lru = f.lru /\ d.in_use = f.in_use
    BY <1>1, <1>4, <2>1, <2>2, UnrefOne
  <2>4. d.entries = [m EXCEPT ![e].refs = c.entries[e].refs - 1]
    BY <2>3, <1>3, <1>4
  <2>5. d.entries = Released(c.entries, e)
    BY <2>4, <1>6 DEF Released, m
  <2> QED
    BY <1>2, <2>3, <2>5 DEF r
<1> QED
  BY <1>5, <1>6

-----------------------------------------------------------------------------
(* A sound cache, when n[e] handles of entry e are out.                    *)

Entry == [key : Files, charge : {1}, in_cache : BOOLEAN, refs : Nat]

InTable(c, e) == c.entries[e].key \in DOMAIN c.table /\ c.table[c.entries[e].key] = e

\* The table leads to entries, and to those of the keys it is asked for.
Tabled(c) ==
    /\ DOMAIN c.entries \subseteq Slots
    /\ c.entries \in [DOMAIN c.entries -> Entry]
    /\ DOMAIN c.table \subseteq Files
    /\ c.table = [k \in DOMAIN c.table |-> c.table[k]]
    /\ \A k \in DOMAIN c.table :
         c.table[k] \in DOMAIN c.entries /\ c.entries[c.table[k]].key = k

\* A count is that of the handles and of the cache's own reference.
Counted(c, n) ==
    /\ \A e \in DOMAIN c.entries :
         /\ c.entries[e].refs = n[e] + (IF c.entries[e].in_cache THEN 1 ELSE 0)
         /\ c.entries[e].refs > 0
         /\ c.entries[e].in_cache <=> InTable(c, e)
    /\ \A e \in Slots \ DOMAIN c.entries : n[e] = 0

Unused(c) == {e \in DOMAIN c.entries : c.entries[e].in_cache /\ c.entries[e].refs = 1}
InUse(c) == {e \in DOMAIN c.entries : c.entries[e].in_cache /\ c.entries[e].refs # 1}

Listed(c) ==
    /\ c.lru \in Seq(Slots) /\ Distinct(c.lru)
    /\ Range(c.lru) = Unused(c)
    /\ c.in_use = InUse(c)

Sound(c, n) ==
    /\ IsCache(c) /\ Tabled(c) /\ Counted(c, n) /\ Listed(c)
    /\ c.usage = Cardinality(DOMAIN c.table)

\* The entries that are left are what they were.
KeysKept(c, d) ==
    \A e \in DOMAIN d.entries : e \in DOMAIN c.entries /\ d.entries[e].key = c.entries[e].key

UsageKept(c, d) == d.usage = c.usage

LEMMA EntryFields ==
    ASSUME NEW c, Tabled(c), NEW e \in DOMAIN c.entries
    PROVE  /\ e \in Slots /\ c.entries[e] \in Entry
           /\ DOMAIN c.entries[e] = {"key", "charge", "in_cache", "refs"}
           /\ c.entries[e].key \in Files /\ c.entries[e].charge = 1
           /\ c.entries[e].in_cache \in BOOLEAN /\ c.entries[e].refs \in Nat
<1>1. e \in Slots /\ c.entries[e] \in Entry
  BY DEF Tabled
<1> QED
  BY <1>1 DEF Entry

\* One entry changes its count, and nothing else of it.
LEMMA CountChanges ==
    ASSUME NEW c, NEW d, Tabled(c), NEW e \in DOMAIN c.entries, NEW r \in Nat,
           d.entries = [c.entries EXCEPT ![e].refs = r], d.table = c.table
    PROVE  /\ Tabled(d) /\ KeysKept(c, d)
           /\ DOMAIN d.entries = DOMAIN c.entries
           /\ d.entries[e].refs = r
           /\ \A x \in DOMAIN c.entries : d.entries[x].in_cache = c.entries[x].in_cache
           /\ \A x \in DOMAIN c.entries : x # e => d.entries[x] = c.entries[x]
           /\ \A x \in DOMAIN c.entries : InTable(d, x) <=> InTable(c, x)
<1>1. /\ c.entries[e] \in Entry
      /\ DOMAIN c.entries[e] = {"key", "charge", "in_cache", "refs"}
  BY EntryFields
<1>2. /\ DOMAIN d.entries = DOMAIN c.entries
      /\ d.entries[e] = [c.entries[e] EXCEPT !.refs = r]
      /\ \A x \in DOMAIN c.entries : x # e => d.entries[x] = c.entries[x]
  OBVIOUS
<1>3. /\ d.entries[e].refs = r /\ d.entries[e] \in Entry
      /\ d.entries[e].key = c.entries[e].key
      /\ d.entries[e].in_cache = c.entries[e].in_cache
  BY <1>1, <1>2 DEF Entry
<1>4. \A x \in DOMAIN c.entries : d.entries[x].key = c.entries[x].key /\ d.entries[x] \in Entry
  BY <1>2, <1>3 DEF Tabled
<1>5. d.entries = [x \in DOMAIN d.entries |-> d.entries[x]]
  OBVIOUS
<1>6. Tabled(d)
  BY <1>2, <1>4, <1>5 DEF Tabled
<1>7. KeysKept(c, d)
  BY <1>2, <1>4 DEF KeysKept
<1>8. \A x \in DOMAIN c.entries : d.entries[x].in_cache = c.entries[x].in_cache
  BY <1>2, <1>3
<1>9. \A x \in DOMAIN c.entries : InTable(d, x) <=> InTable(c, x)
  BY <1>4 DEF InTable
<1> QED
  BY <1>2, <1>3, <1>6, <1>7, <1>8, <1>9

\* A handle of an entry goes out.
LEMMA RefSound ==
    ASSUME NEW n \in [Slots -> Nat], NEW c, Sound(c, n), NEW e \in DOMAIN c.entries,
           c.entries[e].in_cache, NEW d, d = Ref(c, e)
    PROVE  Sound(d, [n EXCEPT ![e] = @ + 1]) /\ KeysKept(c, d) /\ UsageKept(c, d)
<1> DEFINE m == [n EXCEPT ![e] = @ + 1]
           r == c.entries[e].refs + 1
<1>1. IsCache(c) /\ Tabled(c) /\ Counted(c, n) /\ Listed(c)
  BY DEF Sound
<1>2. e \in Slots /\ c.entries[e].refs \in Nat /\ c.entries[e].refs > 0
  BY <1>1, EntryFields DEF Counted
<1>3. r \in Nat /\ r # 1
  BY <1>2
<1>4. /\ IsCache(d)
      /\ d.entries = [c.entries EXCEPT ![e].refs = r]
      /\ d.table = c.table /\ d.usage = c.usage
      /\ IF c.entries[e].refs = 1
         THEN d.lru = RemoveFirst(c.lru, e) /\ d.in_use = (c.in_use \ {e}) \cup {e}
         ELSE d.lru = c.lru /\ d.in_use = c.in_use
  BY <1>1, RefIs
<1> HIDE DEF r
<1>5. /\ Tabled(d) /\ KeysKept(c, d)
      /\ DOMAIN d.entries = DOMAIN c.entries
      /\ d.entries[e].refs = r
      /\ \A x \in DOMAIN c.entries : d.entries[x].in_cache = c.entries[x].in_cache
      /\ \A x \in DOMAIN c.entries : x # e => d.entries[x] = c.entries[x]
      /\ \A x \in DOMAIN c.entries : InTable(d, x) <=> InTable(c, x)
  BY <1>1, <1>3, <1>4, CountChanges
<1>6. Counted(d, m)
  <2>1. \A x \in Slots : x # e => m[x] = n[x]
    OBVIOUS
  <2>2. m[e] = n[e] + 1 /\ n[e] \in Nat
    BY <1>2
  <2>3. d.entries[e].refs = m[e] + 1 /\ d.entries[e].in_cache
    BY <1>1, <1>2, <1>5, <2>2 DEF Counted, r
  <2>4. ASSUME NEW x \in DOMAIN d.entries
        PROVE  /\ d.entries[x].refs = m[x] + (IF d.entries[x].in_cache THEN 1 ELSE 0)
               /\ d.entries[x].refs > 0
               /\ d.entries[x].in_cache <=> InTable(d, x)
    <3>1. CASE x = e
      BY <3>1, <2>2, <2>3, <1>1, <1>5 DEF Counted
    <3>2. CASE x # e
      <4>1. m[x] = n[x]
        BY <2>1, <3>2, <1>1, <1>5 DEF Tabled
      <4> QED
        BY <3>2, <4>1, <1>1, <1>5 DEF Counted
    <3> QED
      BY <3>1, <3>2
  <2>5. \A x \in Slots \ DOMAIN d.entries : m[x] = 0
    BY <2>1, <1>1, <1>5 DEF Counted
  <2> QED
    BY <2>4, <2>5 DEF Counted
<1>7. Unused(d) = Unused(c) \ {e}
  BY <1>3, <1>5 DEF Unused
<1>8. InUse(d) = InUse(c) \cup {e}
  BY <1>3, <1>5 DEF InUse
<1>9. Listed(d)
  <2>1. CASE c.entries[e].refs = 1
    <3>1. e \notin InUse(c)
      BY <2>1 DEF InUse
    <3>2. d.in_use = InUse(d)
      BY <1>1, <1>4, <1>8, <2>1, <3>1 DEF Listed
    <3>3. d.lru = RemoveFirst(c.lru, e)
      BY <1>4, <2>1
    <3>4. d.lru \in Seq(Slots) /\ Distinct(d.lru) /\ Range(d.lru) = Range(c.lru) \ {e}
      BY <1>1, <3>3, RemoveFirstIs DEF Listed
    <3> QED
      BY <1>1, <1>7, <3>2, <3>4 DEF Listed
  <2>2. CASE c.entries[e].refs # 1
    <3>1. e \in InUse(c) /\ e \notin Unused(c)
      BY <2>2 DEF InUse, Unused
    <3> QED
      BY <1>1, <1>4, <1>7, <1>8, <2>2, <3>1 DEF Listed
  <2> QED
    BY <2>1, <2>2
<1> QED
  BY <1>4, <1>5, <1>6, <1>9 DEF Sound, UsageKept

\* An entry that is not in the table is freed.
LEMMA EntryFreed ==
    ASSUME NEW c, NEW d, Tabled(c), NEW e \in DOMAIN c.entries,
           \A k \in DOMAIN c.table : c.table[k] # e,
           d.entries = Without(c.entries, e), d.table = c.table
    PROVE  /\ Tabled(d) /\ KeysKept(c, d)
           /\ DOMAIN d.entries = DOMAIN c.entries \ {e}
           /\ \A x \in DOMAIN d.entries : d.entries[x] = c.entries[x]
           /\ \A x \in DOMAIN d.entries : InTable(d, x) <=> InTable(c, x)
<1>1. /\ DOMAIN d.entries = DOMAIN c.entries \ {e}
      /\ \A x \in DOMAIN d.entries : d.entries[x] = c.entries[x]
      /\ d.entries = [x \in DOMAIN d.entries |-> d.entries[x]]
  BY DEF Without
<1>2. \A x \in DOMAIN d.entries : d.entries[x] \in Entry
  BY <1>1 DEF Tabled
<1>3. Tabled(d)
  BY <1>1, <1>2 DEF Tabled
<1>4. KeysKept(c, d)
  BY <1>1 DEF KeysKept
<1>5. \A x \in DOMAIN d.entries : InTable(d, x) <=> InTable(c, x)
  BY <1>1 DEF InTable
<1> QED
  BY <1>1, <1>3, <1>4, <1>5

\* A handle comes back.
LEMMA UnrefSound ==
    ASSUME NEW n \in [Slots -> Nat], NEW c, Sound(c, n), NEW e \in DOMAIN c.entries,
           n[e] > 0, NEW d, d = Unref(c, e)
    PROVE  Sound(d, [n EXCEPT ![e] = @ - 1]) /\ KeysKept(c, d) /\ UsageKept(c, d)
<1> DEFINE m == [n EXCEPT ![e] = @ - 1]
           r == c.entries[e].refs - 1
<1>1. IsCache(c) /\ Tabled(c) /\ Counted(c, n) /\ Listed(c)
  BY DEF Sound
<1>2. /\ e \in Slots /\ c.entries[e].refs \in Nat
      /\ DOMAIN c.entries[e] = {"key", "charge", "in_cache", "refs"}
      /\ c.entries[e].in_cache \in BOOLEAN
  BY <1>1, EntryFields
<1>3. c.entries[e].refs = n[e] + (IF c.entries[e].in_cache THEN 1 ELSE 0)
  BY <1>1 DEF Counted
<1>4. n[e] \in Nat /\ m[e] = n[e] - 1 /\ \A x \in Slots : x # e => m[x] = n[x]
  BY <1>2
<1> HIDE DEF m
<1>5. CASE r = 0
  <2>1. ~c.entries[e].in_cache /\ n[e] = 1
    BY <1>2, <1>3, <1>4, <1>5
  <2>2. /\ IsCache(d) /\ d.entries = Without(c.entries, e)
        /\ d.table = c.table /\ d.usage = c.usage
        /\ d.lru = c.lru /\ d.in_use = c.in_use
    BY <1>1, <1>5, UnrefLast
  <2>3. \A k \in DOMAIN c.table : c.table[k] # e
    <3> SUFFICES ASSUME NEW k \in DOMAIN c.table, c.table[k] = e PROVE FALSE
      OBVIOUS
    <3>1. InTable(c, e)
      BY <1>1 DEF Tabled, InTable
    <3> QED
      BY <3>1, <2>1, <1>1 DEF Counted
  <2>4. /\ Tabled(d) /\ KeysKept(c, d)
        /\ DOMAIN d.entries = DOMAIN c.entries \ {e}
        /\ \A x \in DOMAIN d.entries : d.entries[x] = c.entries[x]
        /\ \A x \in DOMAIN d.entries : InTable(d, x) <=> InTable(c, x)
    BY <1>1, <2>2, <2>3, EntryFreed
  <2>5. Counted(d, m)
    <3>1. \A x \in DOMAIN d.entries : x \in Slots /\ x # e /\ x \in DOMAIN c.entries
      BY <2>4, <1>1 DEF Tabled
    <3>2. ASSUME NEW x \in DOMAIN d.entries
          PROVE  /\ d.entries[x].refs = m[x] + (IF d.entries[x].in_cache THEN 1 ELSE 0)
                 /\ d.entries[x].refs > 0
                 /\ d.entries[x].in_cache <=> InTable(d, x)
      <4>1. m[x] = n[x] /\ d.entries[x] = c.entries[x] /\ (InTable(d, x) <=> InTable(c, x))
        BY <3>1, <1>4, <2>4
      <4> QED
        BY <3>1, <4>1, <1>1 DEF Counted
    <3>3. ASSUME NEW x \in Slots \ DOMAIN d.entries PROVE m[x] = 0
      BY <1>1, <1>4, <2>1, <2>4 DEF Counted
    <3> QED
      BY <3>2, <3>3 DEF Counted
  <2>6. Unused(d) = Unused(c) /\ InUse(d) = InUse(c)
    BY <2>1, <2>4 DEF Unused, InUse
  <2> QED
    BY <1>1, <2>2, <2>4, <2>5, <2>6 DEF Sound, Listed, UsageKept, m
<1>6. CASE r # 0
  <2>1. r \in Nat
    <3>1. c.entries[e].refs > 0
      BY <1>1 DEF Counted
    <3> QED
      BY <3>1, <1>2
  <2>2. /\ IsCache(d) /\ d.entries = [c.entries EXCEPT ![e].refs = r]
        /\ d.table = c.table /\ d.usage = c.usage
        /\ IF r = 1 /\ c.entries[e].in_cache
           THEN d.lru = Append(RemoveFirst(c.lru, e), e) /\ d.in_use = c.in_use \ {e}
           ELSE d.lru = c.lru /\ d.in_use = c.in_use
    <3>1. CASE r = 1 /\ c.entries[e].in_cache
      BY <1>1, <1>2, <1>6, <3>1, UnrefToLRU
    <3>2. CASE ~(r = 1 /\ c.entries[e].in_cache)
      BY <1>1, <1>6, <3>2, UnrefOne
    <3> QED
      BY <3>1, <3>2
  <2> HIDE DEF r
  <2>3. /\ Tabled(d) /\ KeysKept(c, d)
        /\ DOMAIN d.entries = DOMAIN c.entries
        /\ d.entries[e].refs = r
        /\ \A x \in DOMAIN c.entries : d.entries[x].in_cache = c.entries[x].in_cache
        /\ \A x \in DOMAIN c.entries : x # e => d.entries[x] = c.entries[x]
        /\ \A x \in DOMAIN c.entries : InTable(d, x) <=> InTable(c, x)
    <3>1. d.entries = [c.entries EXCEPT ![e].refs = r] /\ d.table = c.table
      BY <2>2
    <3> QED
      BY <1>1, <2>1, <3>1, CountChanges
  <2>4. Counted(d, m)
    <3>1. r = m[e] + (IF c.entries[e].in_cache THEN 1 ELSE 0) /\ r > 0
      BY <1>2, <1>3, <1>4, <1>6, <2>1 DEF r
    <3>2. ASSUME NEW x \in DOMAIN d.entries
          PROVE  /\ d.entries[x].refs = m[x] + (IF d.entries[x].in_cache THEN 1 ELSE 0)
                 /\ d.entries[x].refs > 0
                 /\ d.entries[x].in_cache <=> InTable(d, x)
      <4>1. CASE x = e
        BY <4>1, <3>1, <1>1, <2>3 DEF Counted
      <4>2. CASE x # e
        <5>1. m[x] = n[x]
          BY <1>4, <4>2, <1>1, <2>3 DEF Tabled
        <5> QED
          BY <4>2, <5>1, <1>1, <2>3 DEF Counted
      <4> QED
        BY <4>1, <4>2
    <3>3. \A x \in Slots \ DOMAIN d.entries : m[x] = 0
      BY <1>1, <1>4, <2>3 DEF Counted
    <3> QED
      BY <3>2, <3>3 DEF Counted
  <2>5. c.entries[e].refs # 1
    BY <1>2, <1>6 DEF r
  <2>6. Listed(d)
    <3>1. CASE r = 1 /\ c.entries[e].in_cache
      <4>1. e \notin Unused(c)
        BY <2>5 DEF Unused
      <4>2. Unused(d) = Unused(c) \cup {e} /\ InUse(d) = InUse(c) \ {e}
        BY <2>3, <3>1 DEF Unused, InUse
      <4>3. /\ RemoveFirst(c.lru, e) \in Seq(Slots) /\ Distinct(RemoveFirst(c.lru, e))
            /\ Range(RemoveFirst(c.lru, e)) = Range(c.lru) \ {e}
        BY <1>1, RemoveFirstIs DEF Listed
      <4>4. e \notin Range(RemoveFirst(c.lru, e))
        BY <4>3
      <4>5. /\ d.lru \in Seq(Slots) /\ Distinct(d.lru)
            /\ Range(d.lru) = Range(RemoveFirst(c.lru, e)) \cup {e}
        <5>1. d.lru = Append(RemoveFirst(c.lru, e), e)
          BY <2>2, <3>1
        <5> DEFINE s == RemoveFirst(c.lru, e)
        <5>2. s \in Seq(Slots) /\ Distinct(s) /\ e \notin Range(s) /\ e \in Slots
          BY <4>3, <4>4, <1>2
        <5> HIDE DEF s
        <5>3. /\ Append(s, e) \in Seq(Slots) /\ Distinct(Append(s, e))
              /\ Range(Append(s, e)) = Range(s) \cup {e}
          BY <5>2, AppendIs
        <5> QED
          BY <5>1, <5>3 DEF s
      <4>6. Range(d.lru) = Unused(d)
        BY <4>1, <4>2, <4>3, <4>5, <1>1 DEF Listed
      <4>7. d.in_use = InUse(d)
        BY <2>2, <3>1, <4>2, <1>1 DEF Listed
      <4> QED
        BY <4>5, <4>6, <4>7 DEF Listed
    <3>2. CASE ~(r = 1 /\ c.entries[e].in_cache)
      <4>1. Unused(d) = Unused(c) /\ InUse(d) = InUse(c)
        BY <2>3, <2>5, <3>2 DEF Unused, InUse
      <4> QED
        BY <1>1, <2>2, <3>2, <4>1 DEF Listed
    <3> QED
      BY <3>1, <3>2
  <2> QED
    BY <1>1, <2>2, <2>3, <2>4, <2>6 DEF Sound, UsageKept, m
<1> QED
  BY <1>5, <1>6

\* What Erase does to the members when the key is in the table, and what it
\* does when it is not.
Dropped(c, key, d) ==
    LET e == c.table[key] IN
    /\ IsCache(d)
    /\ d.entries = Released(c.entries, e)
    /\ d.table = Without(c.table, key)
    /\ d.usage = c.usage - 1
    /\ d.lru = RemoveFirst(c.lru, e)
    /\ d.in_use = c.in_use \ {e}

LEMMA CacheSlots == \A e \in Slots : e # Null
BY CacheAssumption

LEMMA EraseIs ==
    ASSUME NEW c, IsCache(c), Tabled(c), NEW key, NEW d, d = Erase(c, key)
    PROVE  IF key \in DOMAIN c.table THEN Dropped(c, key, d) ELSE d = c
<1> DEFINE t == Without(c.table, key)
           b == [c EXCEPT !.table = t]
           e == c.table[key]
<1>1. /\ b.entries = c.entries /\ b.table = t /\ b.lru = c.lru
      /\ b.in_use = c.in_use /\ b.usage = c.usage /\ IsCache(b)
  <2> HIDE DEF t
  <2> QED
    BY DEF IsCache
<1>2. d = FinishErase(b, TableLookup(c, key))
  BY DEF Erase, IsCache
<1>3. CASE key \notin DOMAIN c.table
  <2>1. d = b
    BY <1>2, <1>3 DEF FinishErase, TableLookup
  <2>2. t = c.table
    <3>1. DOMAIN c.table \ {key} = DOMAIN c.table
      BY <1>3
    <3> QED
      BY <3>1 DEF Without, Tabled
  <2>3. b = c
    <3>1. b = [entries |-> b.entries, table |-> b.table, lru |-> b.lru,
               in_use |-> b.in_use, usage |-> b.usage]
      BY <1>1 DEF IsCache
    <3>2. b = [entries |-> c.entries, table |-> c.table, lru |-> c.lru,
               in_use |-> c.in_use, usage |-> c.usage]
      <4> HIDE DEF b
      <4> QED
        BY <1>1, <2>2, <3>1
    <3> HIDE DEF b, t
    <3> QED
      BY <3>2 DEF IsCache
  <2> QED
    BY <1>3, <2>1, <2>3
<1>4. CASE key \in DOMAIN c.table
  <2>1. TableLookup(c, key) = e
    BY <1>4 DEF TableLookup
  <2>2. e \in DOMAIN c.entries /\ e # Null
    BY <1>4, CacheSlots DEF Tabled
  <2>3. /\ DOMAIN c.entries[e] = {"key", "charge", "in_cache", "refs"}
        /\ c.entries[e].charge = 1 /\ c.entries[e].refs \in Nat
    BY <2>2, EntryFields
  <2> HIDE DEF b, t, e
  <2>4. d = FinishErase(b, e)
    BY <1>2, <2>1
  <2>5. /\ e \in DOMAIN b.entries
        /\ DOMAIN b.entries[e] = {"key", "charge", "in_cache", "refs"}
        /\ b.entries[e].refs \in Nat
    BY <1>1, <2>2, <2>3
  <2>6. /\ IsCache(d)
        /\ d.entries = Released(b.entries, e)
        /\ d.table = b.table /\ d.usage = b.usage - b.entries[e].charge
        /\ d.lru = RemoveFirst(b.lru, e) /\ d.in_use = b.in_use \ {e}
    BY <1>1, <2>2, <2>4, <2>5, FinishEraseIs
  <2> QED
    BY <1>1, <1>4, <2>3, <2>6 DEF Dropped, e, t
<1> QED
  BY <1>3, <1>4

\* A key leaves the table.  Its entry stays while it is held.
LEMMA DroppedSound ==
    ASSUME NEW n \in [Slots -> Nat], NEW c, Sound(c, n),
           NEW key \in DOMAIN c.table, NEW d, Dropped(c, key, d)
    PROVE  /\ Sound(d, n) /\ KeysKept(c, d)
           /\ DOMAIN d.table = DOMAIN c.table \ {key}
           /\ c.table[key] \in Range(c.lru) => Len(d.lru) = Len(c.lru) - 1
           /\ Len(d.lru) <= Len(c.lru)
<1> DEFINE e == c.table[key]
<1>1. IsCache(c) /\ Tabled(c) /\ Counted(c, n) /\ Listed(c)
  BY DEF Sound
<1>2. e \in DOMAIN c.entries /\ c.entries[e].key = key /\ InTable(c, e)
  BY <1>1 DEF Tabled, InTable
<1>3. c.entries[e].in_cache /\ c.entries[e].refs = n[e] + 1
  BY <1>1, <1>2 DEF Counted
<1>4. /\ e \in Slots /\ c.entries[e] \in Entry /\ c.entries[e].refs \in Nat
      /\ DOMAIN c.entries[e] = {"key", "charge", "in_cache", "refs"}
  BY <1>1, <1>2, EntryFields
<1>5. n[e] \in Nat
  BY <1>4
<1>6. /\ IsCache(d)
      /\ d.entries = Released(c.entries, e)
      /\ d.table = Without(c.table, key)
      /\ d.usage = c.usage - 1
      /\ d.lru = RemoveFirst(c.lru, e)
      /\ d.in_use = c.in_use \ {e}
  BY DEF Dropped
<1>7. /\ DOMAIN d.table = DOMAIN c.table \ {key}
      /\ \A k \in DOMAIN d.table : d.table[k] = c.table[k]
      /\ d.table = [k \in DOMAIN d.table |-> d.table[k]]
  BY <1>6 DEF Without
<1>8. \A k \in DOMAIN d.table : d.table[k] # e /\ d.table[k] \in DOMAIN c.entries
                                /\ c.entries[d.table[k]].key = k
  BY <1>1, <1>2, <1>7 DEF Tabled
<1>9. \A x \in DOMAIN c.entries : x # e =>
        ((c.entries[x].key \in DOMAIN d.table /\ d.table[c.entries[x].key] = x) <=> InTable(c, x))
  BY <1>7 DEF InTable
<1> HIDE DEF e
<1>10. /\ d.lru \in Seq(Slots) /\ Distinct(d.lru) /\ Range(d.lru) = Range(c.lru) \ {e}
       /\ (e \in Range(c.lru) => Len(d.lru) = Len(c.lru) - 1) /\ Len(d.lru) <= Len(c.lru)
  <2>1. c.lru \in Seq(Slots) /\ Distinct(c.lru)
    BY <1>1 DEF Listed
  <2> DEFINE s == c.lru
  <2> HIDE DEF s
  <2>2. s \in Seq(Slots) /\ Distinct(s)
    BY <2>1 DEF s
  <2>3. /\ RemoveFirst(s, e) \in Seq(Slots) /\ Distinct(RemoveFirst(s, e))
        /\ Range(RemoveFirst(s, e)) = Range(s) \ {e}
        /\ e \in Range(s) => Len(RemoveFirst(s, e)) = Len(s) - 1
        /\ Len(RemoveFirst(s, e)) <= Len(s)
    BY <2>2, RemoveFirstIs
  <2>4. d.lru = RemoveFirst(s, e)
    BY <1>6 DEF s
  <2> QED
    BY <2>3, <2>4 DEF s
<1>11. d.usage = Cardinality(DOMAIN d.table)
  <2>1. IsFiniteSet(DOMAIN c.table)
    BY <1>1, FS_Subset, CacheAssumption DEF Tabled
  <2>2. Cardinality(DOMAIN c.table \ {key}) = Cardinality(DOMAIN c.table) - 1
    BY <2>1, FS_RemoveElement
  <2> QED
    BY <1>6, <1>7, <2>2 DEF Sound
<1>12. CASE c.entries[e].refs = 1
  <2>1. d.entries = Without(c.entries, e) /\ n[e] = 0
    BY <1>3, <1>5, <1>6, <1>12 DEF Released
  <2>2. /\ DOMAIN d.entries = DOMAIN c.entries \ {e}
        /\ \A x \in DOMAIN d.entries : d.entries[x] = c.entries[x]
        /\ d.entries = [x \in DOMAIN d.entries |-> d.entries[x]]
    BY <2>1 DEF Without
  <2>3. \A x \in DOMAIN d.entries : d.entries[x] \in Entry /\ x \in Slots
    BY <1>1, <2>2 DEF Tabled
  <2>4. Tabled(d)
    <3>1. DOMAIN d.entries \subseteq Slots /\ d.entries \in [DOMAIN d.entries -> Entry]
      BY <2>2, <2>3
    <3>2. DOMAIN d.table \subseteq Files
      BY <1>1, <1>7 DEF Tabled
    <3>3. ASSUME NEW k \in DOMAIN d.table
          PROVE  d.table[k] \in DOMAIN d.entries /\ d.entries[d.table[k]].key = k
      BY <1>8, <2>2
    <3> QED
      BY <1>7, <3>1, <3>2, <3>3 DEF Tabled
  <2>5. KeysKept(c, d)
    BY <2>2 DEF KeysKept
  <2>6. \A x \in DOMAIN d.entries : InTable(d, x) <=> InTable(c, x)
    BY <1>9, <2>2 DEF InTable
  <2>7. Counted(d, n)
    <3>1. ASSUME NEW x \in DOMAIN d.entries
          PROVE  /\ d.entries[x].refs = n[x] + (IF d.entries[x].in_cache THEN 1 ELSE 0)
                 /\ d.entries[x].refs > 0
                 /\ d.entries[x].in_cache <=> InTable(d, x)
      BY <1>1, <2>2, <2>6 DEF Counted
    <3>2. \A x \in Slots \ DOMAIN d.entries : n[x] = 0
      BY <1>1, <2>1, <2>2 DEF Counted
    <3> QED
      BY <3>1, <3>2 DEF Counted
  <2>8. Unused(d) = Unused(c) \ {e} /\ InUse(d) = InUse(c) \ {e}
    BY <2>2 DEF Unused, InUse
  <2>9. Listed(d)
    BY <1>1, <1>6, <1>10, <2>8 DEF Listed
  <2> QED
    BY <1>6, <1>7, <1>10, <1>11, <2>4, <2>5, <2>7, <2>9 DEF Sound, e
<1>13. CASE c.entries[e].refs # 1
  <2> DEFINE r == c.entries[e].refs - 1
             f == [c.entries[e] EXCEPT !.in_cache = FALSE, !.refs = r]
  <2>1. r \in Nat /\ r > 0 /\ r = n[e]
    BY <1>3, <1>4, <1>5, <1>13
  <2>2. /\ DOMAIN d.entries = DOMAIN c.entries
        /\ d.entries[e] = f
        /\ \A x \in DOMAIN c.entries : x # e => d.entries[x] = c.entries[x]
        /\ d.entries = [x \in DOMAIN d.entries |-> d.entries[x]]
    BY <1>2, <1>6, <1>13 DEF Released
  <2>3. f \in Entry /\ f.key = c.entries[e].key /\ f.in_cache = FALSE /\ f.refs = r
    <3> HIDE DEF r
    <3> QED
      BY <1>4, <2>1 DEF Entry
  <2> HIDE DEF r, f
  <2>4. \A x \in DOMAIN d.entries : /\ d.entries[x] \in Entry /\ x \in Slots
                                    /\ d.entries[x].key = c.entries[x].key
    BY <1>1, <2>2, <2>3 DEF Tabled
  <2>5. Tabled(d)
    BY <1>1, <1>7, <1>8, <2>2, <2>4 DEF Tabled
  <2>6. KeysKept(c, d)
    BY <2>2, <2>4 DEF KeysKept
  <2>7. \A x \in DOMAIN d.entries : x # e => (InTable(d, x) <=> InTable(c, x))
    BY <1>9, <2>2 DEF InTable
  <2>8. ~InTable(d, e)
    BY <1>2, <1>7, <2>2, <2>3 DEF InTable
  <2>9. Counted(d, n)
    <3>1. ASSUME NEW x \in DOMAIN d.entries
          PROVE  /\ d.entries[x].refs = n[x] + (IF d.entries[x].in_cache THEN 1 ELSE 0)
                 /\ d.entries[x].refs > 0
                 /\ d.entries[x].in_cache <=> InTable(d, x)
      <4>1. CASE x = e
        BY <4>1, <2>1, <2>2, <2>3, <2>8, <1>5
      <4>2. CASE x # e
        BY <4>2, <1>1, <2>2, <2>7 DEF Counted
      <4> QED
        BY <4>1, <4>2
    <3>2. \A x \in Slots \ DOMAIN d.entries : n[x] = 0
      BY <1>1, <2>2 DEF Counted
    <3> QED
      BY <3>1, <3>2 DEF Counted
  <2>10. Unused(d) = Unused(c) \ {e} /\ InUse(d) = InUse(c) \ {e}
    BY <2>2, <2>3 DEF Unused, InUse
  <2>11. Listed(d)
    BY <1>1, <1>6, <1>10, <2>10 DEF Listed
  <2> QED
    BY <1>6, <1>7, <1>10, <1>11, <2>5, <2>6, <2>9, <2>11 DEF Sound, e
<1> QED
  BY <1>12, <1>13

LEMMA EraseSound ==
    ASSUME NEW n \in [Slots -> Nat], NEW c, Sound(c, n), NEW key,
           NEW d, d = Erase(c, key)
    PROVE  /\ Sound(d, n) /\ KeysKept(c, d)
           /\ DOMAIN d.table = DOMAIN c.table \ {key}
           /\ Len(d.lru) <= Len(c.lru)
<1>1. IsCache(c) /\ Tabled(c) /\ c.lru \in Seq(Slots)
  BY DEF Sound, Listed
<1>2. IF key \in DOMAIN c.table THEN Dropped(c, key, d) ELSE d = c
  BY <1>1, EraseIs
<1>3. CASE key \in DOMAIN c.table
  BY <1>2, <1>3, DroppedSound
<1>4. CASE key \notin DOMAIN c.table
  <2>1. d = c /\ DOMAIN c.table \ {key} = DOMAIN c.table /\ Len(c.lru) <= Len(c.lru)
    BY <1>1, <1>2, <1>4
  <2> QED
    BY <2>1 DEF KeysKept
<1> QED
  BY <1>3, <1>4

-----------------------------------------------------------------------------
(* Insert.                                                                 *)

\* The smallest of some numbers.
LEMMA SmallestOf ==
    ASSUME NEW T \in SUBSET Nat, T # {}
    PROVE  \E x \in T : \A y \in T : x <= y
<1>1. PICK b \in T : \A c \in T : <<c, b>> \notin OpToRel(<, Nat)
  BY NatLessThanWellFounded, WFMin
<1>2. ASSUME NEW y \in T PROVE b <= y
  <2>1. ~(y < b)
    BY <1>1 DEF OpToRel
  <2> QED
    BY <2>1
<1> QED
  BY <1>2

\* What a turn of the loop leaves is a sound cache with as much in it or less.
LEMMA EvictOldestSound ==
    ASSUME NEW n \in [Slots -> Nat], NEW c, Sound(c, n), NEW limit,
           NEW d, d = EvictOldest(c, limit)
    PROVE  /\ Sound(d, n) /\ KeysKept(c, d)
           /\ Len(d.lru) <= Len(c.lru)
           /\ c.usage > limit /\ c.lru # <<>> => Len(d.lru) < Len(c.lru)
           /\ ~(c.usage > limit /\ c.lru # <<>>) => d = c
<1>1. c.lru \in Seq(Slots) /\ Tabled(c) /\ Listed(c) /\ Counted(c, n) /\ IsCache(c)
  BY DEF Sound, Listed
<1>2. CASE c.usage > limit /\ c.lru # <<>>
  <2> DEFINE e == Head(c.lru)
             key == c.entries[e].key
  <2>1. e \in Range(c.lru)
    BY <1>1, <1>2 DEF Range
  <2>2. e \in DOMAIN c.entries /\ c.entries[e].in_cache
    BY <1>1, <2>1 DEF Listed, Unused
  <2>3. key \in DOMAIN c.table /\ c.table[key] = e
    BY <1>1, <2>2 DEF Counted, InTable
  <2>4. d = Erase(c, key)
    BY <1>2 DEF EvictOldest
  <2> HIDE DEF e, key
  <2>5. Dropped(c, key, d)
    BY <1>1, <2>3, <2>4, EraseIs
  <2>6. /\ Sound(d, n) /\ KeysKept(c, d)
        /\ c.table[key] \in Range(c.lru) => Len(d.lru) = Len(c.lru) - 1
    BY <2>3, <2>5, DroppedSound
  <2>7. Len(d.lru) = Len(c.lru) - 1 /\ Len(c.lru) \in Nat
    BY <1>1, <2>1, <2>3, <2>6
  <2> QED
    BY <1>2, <2>6, <2>7
<1>3. CASE ~(c.usage > limit /\ c.lru # <<>>)
  <2>1. d = c /\ Len(c.lru) <= Len(c.lru)
    BY <1>1, <1>3 DEF EvictOldest
  <2> QED
    BY <1>3, <2>1 DEF KeysKept
<1> QED
  BY <1>2, <1>3

\* The turns of the loop.
Turns(c, limit, N, g) ==
    g = [k \in 0..N |-> IF k = 0 THEN c ELSE EvictOldest(g[k - 1], limit)]

\* They are a function of the number of turns.
LEMMA TurnsExist ==
    ASSUME NEW c, NEW limit, NEW N \in Nat
    PROVE  \E g : Turns(c, limit, N, g)
<1> DEFINE T == {k \in Nat : ~ \E g : Turns(c, limit, k, g)}
<1> SUFFICES T = {}
  OBVIOUS
<1> SUFFICES ASSUME T # {} PROVE FALSE
  OBVIOUS
<1>1. PICK m \in T : \A k \in T : m <= k
  <2>1. T \in SUBSET Nat
    OBVIOUS
  <2> HIDE DEF T
  <2> QED
    BY <2>1, SmallestOf
<1>2. CASE m = 0
  <2> DEFINE g == [k \in 0..0 |-> c]
  <2>1. \A k \in 0..0 : k = 0
    OBVIOUS
  <2>2. g = [k \in 0..0 |-> IF k = 0 THEN c ELSE EvictOldest(g[k - 1], limit)]
    BY <2>1
  <2>3. Turns(c, limit, 0, g)
    BY <2>2 DEF Turns
  <2> QED
    BY <1>2, <2>3
<1>3. CASE m # 0
  <2>1. m - 1 \in Nat /\ m - 1 < m /\ m \in Nat
    BY <1>3
  <2>2. PICK g : Turns(c, limit, m - 1, g)
    BY <1>1, <2>1
  <2> DEFINE h == [k \in 0..m |-> IF k = m THEN EvictOldest(g[m - 1], limit) ELSE g[k]]
  <2>3. g = [k \in 0..m - 1 |-> IF k = 0 THEN c ELSE EvictOldest(g[k - 1], limit)]
    BY <2>2 DEF Turns
  <2>4. \A k \in 0..m : h[k] = IF k = 0 THEN c ELSE EvictOldest(h[k - 1], limit)
    <3> TAKE k \in 0..m
    <3>1. CASE k = m
      BY <3>1, <1>3, <2>1
    <3>2. CASE k # m
      <4>1. k \in 0..m - 1 /\ h[k] = g[k]
        BY <3>2, <2>1
      <4>2. g[k] = IF k = 0 THEN c ELSE EvictOldest(g[k - 1], limit)
        BY <4>1, <2>3
      <4>3. k # 0 => k - 1 \in 0..m /\ k - 1 # m
        BY <4>1, <2>1
      <4>4. k # 0 => h[k - 1] = g[k - 1]
        BY <4>3
      <4> HIDE DEF h
      <4> QED
        BY <4>1, <4>2, <4>4
    <3> QED
      BY <3>1, <3>2
  <2>5. h = [k \in 0..m |-> h[k]]
    OBVIOUS
  <2> HIDE DEF h
  <2>6. Turns(c, limit, m, h)
    BY <2>4, <2>5 DEF Turns
  <2> QED
    BY <2>6
<1> QED
  BY <1>2, <1>3

\* The loop ends with a sound cache, and with no more than the limit unless
\* all that is left is in use.
LEMMA EvictedSound ==
    ASSUME NEW n \in [Slots -> Nat], NEW c, Sound(c, n), NEW limit \in Nat,
           NEW d, d = Evicted(c, limit)
    PROVE  /\ Sound(d, n) /\ KeysKept(c, d)
           /\ d.usage <= limit \/ d.lru = <<>>
<1> DEFINE N == Len(c.lru)
           g == CHOOSE f : Turns(c, limit, N, f)
<1>1. N \in Nat
  BY DEF Sound, Listed
<1>2. Turns(c, limit, N, g)
  <2> HIDE DEF N
  <2> QED
    BY <1>1, TurnsExist
<1>3. d = g[N]
  BY DEF Evicted, Turns
<1> HIDE DEF N, g
<1>4. /\ g[0] = c
      /\ \A k \in 0..N : k # 0 => g[k] = EvictOldest(g[k - 1], limit)
  <2>1. \A k \in 0..N : g[k] = IF k = 0 THEN c ELSE EvictOldest(g[k - 1], limit)
    BY <1>2 DEF Turns
  <2>2. 0 \in 0..N
    BY <1>1
  <2> QED
    BY <2>1, <2>2
<1> DEFINE Good(k) == /\ Sound(g[k], n) /\ KeysKept(c, g[k])
                      /\ g[k].usage <= limit \/ g[k].lru = <<>> \/ Len(g[k].lru) <= N - k
           Bad == {k \in 0..N : ~Good(k)}
<1>5. Bad = {}
  <2> SUFFICES ASSUME Bad # {} PROVE FALSE
    OBVIOUS
  <2>1. PICK m \in Bad : \A k \in Bad : m <= k
    <3>1. Bad \in SUBSET Nat
      BY <1>1
    <3> HIDE DEF Bad
    <3> QED
      BY <3>1, SmallestOf
  <2>2. Good(0)
    <3>1. Len(g[0].lru) <= N - 0
      BY <1>1, <1>4 DEF N
    <3> QED
      BY <3>1, <1>4 DEF KeysKept
  <2>3. m \in 0..N /\ m # 0 /\ ~Good(m)
    <3> HIDE DEF Good
    <3> QED
      BY <2>1, <2>2
  <2>4. m - 1 \in 0..N /\ m - 1 < m
    BY <2>3, <1>1
  <2>5. Good(m - 1)
    <3> HIDE DEF Good
    <3> QED
      BY <2>1, <2>4
  <2> DEFINE a == g[m - 1]
             b == g[m]
  <2>6. b = EvictOldest(a, limit)
    BY <1>4, <2>3
  <2>7. Sound(a, n) /\ KeysKept(c, a) /\ (a.usage <= limit \/ a.lru = <<>> \/ Len(a.lru) <= N - (m - 1))
    BY <2>5
  <2> HIDE DEF a, b
  <2>8. /\ Sound(b, n) /\ KeysKept(a, b)
        /\ Len(b.lru) <= Len(a.lru)
        /\ a.usage > limit /\ a.lru # <<>> => Len(b.lru) < Len(a.lru)
        /\ ~(a.usage > limit /\ a.lru # <<>>) => b = a
    BY <2>6, <2>7, EvictOldestSound
  <2>9. KeysKept(c, b)
    BY <2>7, <2>8 DEF KeysKept
  <2>10. b.usage <= limit \/ b.lru = <<>> \/ Len(b.lru) <= N - m
    <3>1. Len(a.lru) \in Nat /\ Len(b.lru) \in Nat /\ a.usage \in Nat
      <4>1. a.lru \in Seq(Slots) /\ b.lru \in Seq(Slots)
        BY <2>7, <2>8 DEF Sound, Listed
      <4>2. a.usage \in Nat
        <5>1. IsFiniteSet(DOMAIN a.table)
          BY <2>7, FS_Subset, CacheAssumption DEF Sound, Tabled
        <5> QED
          BY <5>1, <2>7, FS_CardinalityType DEF Sound
      <4> QED
        BY <4>1, <4>2
    <3>2. CASE a.usage > limit /\ a.lru # <<>>
      BY <3>1, <3>2, <2>3, <2>7, <2>8, <1>1
    <3>3. CASE ~(a.usage > limit /\ a.lru # <<>>)
      BY <3>1, <3>3, <2>8
    <3> QED
      BY <3>2, <3>3
  <2>11. Good(m)
    BY <2>8, <2>9, <2>10 DEF b
  <2> QED
    BY <2>3, <2>11
<1>6. Good(N)
  <2>1. N \in 0..N
    BY <1>1
  <2> HIDE DEF Good
  <2> QED
    BY <2>1, <1>5
<1>7. Sound(d, n) /\ KeysKept(c, d) /\ (d.usage <= limit \/ d.lru = <<>> \/ Len(d.lru) <= N - N)
  BY <1>3, <1>6
<1>8. Len(d.lru) <= 0 => d.lru = <<>>
  <2>1. d.lru \in Seq(Slots)
    BY <1>7 DEF Sound, Listed
  <2>2. Len(d.lru) <= 0 => Len(d.lru) = 0
    BY <2>1
  <2> QED
    BY <2>1, <2>2, EmptySeq
<1>9. N - N = 0
  BY <1>1
<1> QED
  BY <1>7, <1>8, <1>9

\* A new entry, with one handle out; cached when there is a capacity.
NewEntry(key, refs) ==
    [key |-> key, charge |-> 1, in_cache |-> refs = 2, refs |-> refs]

Added(c, e, key, refs, d) ==
    /\ IsCache(d)
    /\ d.entries = With(c.entries, e, NewEntry(key, refs))
    /\ d.lru = c.lru
    /\ IF refs = 2
       THEN /\ d.table = With(c.table, key, e)
            /\ d.usage = c.usage + 1
            /\ d.in_use = c.in_use \cup {e}
       ELSE /\ d.table = c.table /\ d.usage = c.usage /\ d.in_use = c.in_use

LEMMA AddedSound ==
    ASSUME NEW n \in [Slots -> Nat], NEW c, Sound(c, n),
           NEW e \in Slots \ DOMAIN c.entries, NEW key \in Files, NEW refs \in {1, 2},
           refs = 2 => key \notin DOMAIN c.table,
           NEW d, Added(c, e, key, refs, d), NEW m,
           m[e] = 1, \A x \in Slots : x # e => m[x] = n[x]
    PROVE  /\ Sound(d, m)
           /\ DOMAIN d.entries = DOMAIN c.entries \cup {e}
           /\ d.entries[e].key = key
           /\ \A x \in DOMAIN c.entries : d.entries[x] = c.entries[x]
<1> DEFINE f == NewEntry(key, refs)
<1>1. IsCache(c) /\ Tabled(c) /\ Counted(c, n) /\ Listed(c)
  BY DEF Sound
<1>2. /\ f \in Entry /\ f.key = key /\ f.refs = 1 + (IF refs = 2 THEN 1 ELSE 0) /\ f.refs > 0
      /\ f.in_cache = (refs = 2)
      /\ f.in_cache <=> f.refs # 1
  <2>1. /\ f.key = key /\ f.refs = refs
        /\ f.in_cache = (refs = 2)
    BY DEF NewEntry
  <2>2. f \in Entry
    BY DEF NewEntry, Entry
  <2>3. refs = 1 \/ refs = 2
    OBVIOUS
  <2> HIDE DEF f
  <2>4. CASE refs = 1
    <3>1. refs # 2
      BY <2>4
    <3>2. (refs = 2) = FALSE
      BY <3>1
    <3>3. ~ f.in_cache
      BY <2>1, <3>2, Zenon
    <3> QED
      BY <2>1, <2>2, <2>4, <3>1, <3>3
  <2>5. CASE refs = 2
    <3>1. f.in_cache
      BY <2>1, <2>5
    <3> QED
      BY <2>1, <2>2, <2>5, <3>1
  <2> QED
    BY <2>3, <2>4, <2>5
<1> HIDE DEF f
<1>3. /\ IsCache(d) /\ d.entries = With(c.entries, e, f) /\ d.lru = c.lru
  BY DEF Added, f
<1>4. /\ DOMAIN d.entries = DOMAIN c.entries \cup {e}
      /\ d.entries[e] = f
      /\ \A x \in DOMAIN c.entries : x # e /\ d.entries[x] = c.entries[x]
      /\ d.entries = [x \in DOMAIN d.entries |-> d.entries[x]]
  BY <1>3 DEF With
<1>5. \A x \in DOMAIN d.entries : d.entries[x] \in Entry /\ x \in Slots
  BY <1>1, <1>2, <1>4 DEF Tabled
<1>6. /\ DOMAIN d.table = DOMAIN c.table \cup (IF refs = 2 THEN {key} ELSE {})
      /\ refs = 2 => d.table[key] = e
      /\ \A k \in DOMAIN c.table : d.table[k] = c.table[k]
      /\ d.table = [k \in DOMAIN d.table |-> d.table[k]]
  <2>1. CASE refs = 2
    <3>1. d.table = With(c.table, key, e)
      BY <2>1 DEF Added
    <3> QED
      BY <2>1, <3>1 DEF With
  <2>2. CASE refs # 2
    <3>1. d.table = c.table
      BY <2>2 DEF Added
    <3> QED
      BY <2>2, <3>1, <1>1 DEF Tabled
  <2> QED
    BY <2>1, <2>2
<1>7. \A k \in DOMAIN c.table : c.table[k] \in DOMAIN c.entries /\ c.entries[c.table[k]].key = k
  BY <1>1 DEF Tabled
<1>8. Tabled(d)
  <2>1. DOMAIN d.entries \subseteq Slots /\ d.entries \in [DOMAIN d.entries -> Entry]
    BY <1>4, <1>5
  <2>2. DOMAIN d.table \subseteq Files
    BY <1>1, <1>6 DEF Tabled
  <2>3. ASSUME NEW k \in DOMAIN d.table
        PROVE  d.table[k] \in DOMAIN d.entries /\ d.entries[d.table[k]].key = k
    <3>1. CASE k \in DOMAIN c.table
      BY <3>1, <1>4, <1>6, <1>7
    <3>2. CASE k \notin DOMAIN c.table
      <4>1. refs = 2 /\ k = key
        BY <3>2, <1>6
      <4> QED
        BY <4>1, <1>2, <1>4, <1>6
    <3> QED
      BY <3>1, <3>2
  <2> QED
    BY <1>6, <2>1, <2>2, <2>3 DEF Tabled
<1>9. \A x \in DOMAIN c.entries : InTable(d, x) <=> InTable(c, x)
  <2> TAKE x \in DOMAIN c.entries
  <2>1. x # e /\ d.entries[x].key = c.entries[x].key
    BY <1>4
  <2>2. CASE c.entries[x].key \in DOMAIN c.table
    BY <2>1, <2>2, <1>6 DEF InTable
  <2>3. CASE c.entries[x].key \notin DOMAIN c.table
    BY <2>1, <2>3, <1>6 DEF InTable
  <2> QED
    BY <2>2, <2>3
<1>10. InTable(d, e) <=> refs = 2
  <2>1. CASE refs = 2
    BY <2>1, <1>2, <1>4, <1>6 DEF InTable
  <2>2. CASE refs # 2
    <3>1. d.table = c.table
      BY <2>2 DEF Added
    <3> QED
      BY <2>2, <3>1, <1>7 DEF InTable
  <2> QED
    BY <2>1, <2>2
<1>11. Counted(d, m)
  <2>1. m[e] = 1 /\ \A x \in Slots : x # e => m[x] = n[x]
    OBVIOUS
  <2>2. ASSUME NEW x \in DOMAIN d.entries
        PROVE  /\ d.entries[x].refs = m[x] + (IF d.entries[x].in_cache THEN 1 ELSE 0)
               /\ d.entries[x].refs > 0
               /\ d.entries[x].in_cache <=> InTable(d, x)
    <3>1. CASE x = e
      BY <3>1, <2>1, <1>2, <1>4, <1>10
    <3>2. CASE x # e
      <4>1. x \in DOMAIN c.entries /\ x \in Slots
        BY <3>2, <1>4, <1>5
      <4> QED
        BY <3>2, <4>1, <2>1, <1>1, <1>4, <1>9 DEF Counted
    <3> QED
      BY <3>1, <3>2
  <2>3. \A x \in Slots \ DOMAIN d.entries : m[x] = 0
    BY <2>1, <1>1, <1>4 DEF Counted
  <2> QED
    BY <2>2, <2>3 DEF Counted
<1>12. Unused(d) = Unused(c)
  BY <1>2, <1>4 DEF Unused
<1>13. InUse(d) = InUse(c) \cup (IF refs = 2 THEN {e} ELSE {})
  BY <1>2, <1>4 DEF InUse
<1>14. Listed(d)
  <2>1. d.in_use = InUse(d)
    <3>1. d.in_use = c.in_use \cup (IF refs = 2 THEN {e} ELSE {})
      BY DEF Added
    <3> QED
      BY <3>1, <1>1, <1>13 DEF Listed
  <2> QED
    BY <2>1, <1>1, <1>3, <1>12 DEF Listed
<1>15. d.usage = Cardinality(DOMAIN d.table)
  <2>1. CASE refs = 2
    <3>1. IsFiniteSet(DOMAIN c.table)
      BY <1>1, FS_Subset, CacheAssumption DEF Tabled
    <3>2. Cardinality(DOMAIN c.table \cup {key}) = Cardinality(DOMAIN c.table) + 1
      BY <2>1, <3>1, FS_AddElement
    <3> QED
      BY <2>1, <3>2, <1>6 DEF Added, Sound
  <2>2. CASE refs # 2
    BY <2>2 DEF Added, Sound
  <2> QED
    BY <2>1, <2>2
<1>16. Sound(d, m)
  BY <1>3, <1>8, <1>11, <1>14, <1>15 DEF Sound
<1> QED
  BY <1>2, <1>4, <1>16

\* Insert before its loop: the entry that had the key has left, the new one
\* has come.
LEMMA CachedIs ==
    ASSUME NEW n \in [Slots -> Nat], NEW c, Sound(c, n),
           NEW e \in Slots \ DOMAIN c.entries, NEW key \in Files,
           NEW limit \in Nat, limit > 0,
           NEW d, d = Insert(c, e, key, 1, limit)
    PROVE  \E a : Added(Erase(c, key), e, key, 2, a) /\ d = Evicted(a, limit)
<1> DEFINE f == NewEntry(key, 2)
           es == With(c.entries, e, f)
           new == [c EXCEPT !.entries = es]
           cached == [new EXCEPT !.in_use = @ \cup {e}, !.usage = @ + 1,
                                 !.table = With(@, key, e)]
           old == TableLookup(c, key)
           a == FinishErase(cached, old)
           b == Erase(c, key)
<1>1. IsCache(c) /\ Tabled(c)
  BY DEF Sound
<1>2. d = Evicted(a, limit)
  <2>1. (limit > 0) = TRUE
    OBVIOUS
  <2>2. f = [key |-> key, charge |-> 1, in_cache |-> limit > 0,
             refs |-> IF limit > 0 THEN 2 ELSE 1]
    BY <2>1 DEF NewEntry
  <2> HIDE DEF f
  <2> QED
    BY <2>2 DEF Insert
<1> HIDE DEF f
<1>3. /\ IsCache(new) /\ new.entries = es /\ new.table = c.table /\ new.lru = c.lru
      /\ new.in_use = c.in_use /\ new.usage = c.usage
  <2> HIDE DEF es
  <2> QED
    BY <1>1 DEF IsCache
<1>4. Added(b, e, key, 2, a)
  <2> DEFINE t == With(c.table, key, e)
  <2>1. /\ IsCache(cached) /\ cached.entries = es /\ cached.table = t
        /\ cached.lru = c.lru /\ cached.in_use = c.in_use \cup {e}
        /\ cached.usage = c.usage + 1
    <3>1. cached = [[new EXCEPT !.in_use = @ \cup {e}, !.usage = @ + 1] EXCEPT !.table = t]
      BY <1>3 DEF IsCache
    <3> HIDE DEF new, t, cached
    <3> QED
      BY <1>3, <3>1 DEF IsCache
  <2>2. a = FinishErase(cached, old) /\ b = Erase(c, key)
    OBVIOUS
  <2>3. /\ DOMAIN es = DOMAIN c.entries \cup {e} /\ es[e] = f
        /\ \A x \in DOMAIN c.entries : x # e /\ es[x] = c.entries[x]
        /\ DOMAIN t = DOMAIN c.table \cup {key} /\ t[key] = e
        /\ \A k \in DOMAIN c.table : k # key => t[k] = c.table[k]
    BY DEF With
  <2> HIDE DEF cached, a, b
  <2>4. CASE key \notin DOMAIN c.table
    <3>1. old = Null
      BY <2>4 DEF TableLookup
    <3>2. a = cached
      BY <2>2, <3>1 DEF FinishErase
    <3>3. b = c
      BY <2>2, <2>4, <1>1, EraseIs
    <3> QED
      BY <2>1, <3>2, <3>3 DEF Added, es, f, t
  <2>5. CASE key \in DOMAIN c.table
    <3>1. old = c.table[key]
      BY <2>5 DEF TableLookup
    <3> HIDE DEF old, es, t
    <3>2. old \in DOMAIN c.entries /\ old # Null
      BY <1>1, <2>5, <3>1, CacheSlots DEF Tabled
    <3>3. /\ DOMAIN c.entries[old] = {"key", "charge", "in_cache", "refs"}
          /\ c.entries[old].charge = 1 /\ c.entries[old].refs \in Nat
      BY <1>1, <3>2, EntryFields
    <3>4. old # e /\ old \in DOMAIN es /\ es[old] = c.entries[old]
      BY <2>3, <3>2
    <3>5. /\ old \in DOMAIN cached.entries
          /\ DOMAIN cached.entries[old] = {"key", "charge", "in_cache", "refs"}
          /\ cached.entries[old].refs \in Nat
      BY <2>1, <3>3, <3>4
    <3>6. /\ IsCache(a)
          /\ a.entries = Released(cached.entries, old)
          /\ a.table = cached.table /\ a.usage = cached.usage - cached.entries[old].charge
          /\ a.lru = RemoveFirst(cached.lru, old) /\ a.in_use = cached.in_use \ {old}
      BY <2>1, <2>2, <3>2, <3>5, FinishEraseIs
    <3>7. Dropped(c, key, b)
      BY <1>1, <2>2, <2>5, EraseIs
    <3>8. /\ IsCache(b)
          /\ b.entries = Released(c.entries, old)
          /\ b.table = Without(c.table, key)
          /\ b.usage = c.usage - 1
          /\ b.lru = RemoveFirst(c.lru, old)
          /\ b.in_use = c.in_use \ {old}
      BY <3>7, <3>1 DEF Dropped
    <3>9. a.lru = b.lru
      BY <2>1, <3>6, <3>8
    <3>10. a.in_use = b.in_use \cup {e}
      BY <2>1, <3>4, <3>6, <3>8
    <3>11. a.usage = b.usage + 1
      <4>1. c.usage \in Int
        <5>1. IsFiniteSet(DOMAIN c.table)
          BY <1>1, FS_Subset, CacheAssumption DEF Tabled
        <5> QED
          BY <5>1, FS_CardinalityType DEF Sound
      <4>2. cached.usage = c.usage + 1 /\ cached.entries[old].charge = 1
        BY <2>1, <3>3, <3>4, Zenon
      <4>3. a.usage = cached.usage - cached.entries[old].charge
        BY <3>6, Zenon
      <4>4. a.usage = (c.usage + 1) - 1
        BY <4>2, <4>3, Zenon
      <4> QED
        BY <4>1, <4>4, <3>8
    <3>12. a.table = With(b.table, key, e)
      <4>1. a.table = With(c.table, key, e)
        BY <2>1, <3>6 DEF t
      <4>2. With(b.table, key, e) = With(c.table, key, e)
        <5>1. /\ DOMAIN b.table = DOMAIN c.table \ {key}
              /\ \A k \in DOMAIN b.table : b.table[k] = c.table[k]
          BY <3>8 DEF Without
        <5>2. DOMAIN b.table \cup {key} = DOMAIN c.table \cup {key}
          BY <5>1
        <5>3. \A k \in DOMAIN c.table \cup {key} : k # key => b.table[k] = c.table[k]
          BY <5>1
        <5> QED
          BY <5>2, <5>3 DEF With
      <4> QED
        BY <4>1, <4>2
    <3>13. a.entries = With(b.entries, e, f)
      <4>1. a.entries = Released(es, old)
        BY <2>1, <3>6
      <4> DEFINE r == [c.entries[old] EXCEPT !.in_cache = FALSE,
                                             !.refs = c.entries[old].refs - 1]
      <4>2. CASE c.entries[old].refs = 1
        <5>1. a.entries = Without(es, old) /\ b.entries = Without(c.entries, old)
          BY <4>1, <4>2, <3>4, <3>8 DEF Released
        <5>2. DOMAIN es \ {old} = (DOMAIN c.entries \ {old}) \cup {e}
          BY <2>3, <3>4
        <5>3. /\ DOMAIN b.entries = DOMAIN c.entries \ {old}
              /\ \A x \in DOMAIN b.entries : b.entries[x] = c.entries[x]
          BY <5>1 DEF Without
        <5>4. a.entries = [x \in (DOMAIN c.entries \ {old}) \cup {e} |-> es[x]]
          BY <5>1, <5>2 DEF Without
        <5>5. With(b.entries, e, f) =
                [x \in (DOMAIN c.entries \ {old}) \cup {e} |-> IF x = e THEN f ELSE b.entries[x]]
          BY <5>3 DEF With
        <5>6. \A x \in (DOMAIN c.entries \ {old}) \cup {e} :
                es[x] = IF x = e THEN f ELSE b.entries[x]
          BY <5>3, <2>3
        <5> QED
          BY <5>4, <5>5, <5>6
      <4>3. CASE c.entries[old].refs # 1
        <5>1. /\ a.entries = [es EXCEPT ![old].in_cache = FALSE, ![old].refs = es[old].refs - 1]
              /\ b.entries = [c.entries EXCEPT ![old].in_cache = FALSE,
                                               ![old].refs = c.entries[old].refs - 1]
          BY <4>1, <4>3, <3>4, <3>8 DEF Released
        <5>2. /\ DOMAIN b.entries = DOMAIN c.entries
              /\ b.entries[old] = r
              /\ \A x \in DOMAIN c.entries : x # old => b.entries[x] = c.entries[x]
          BY <5>1, <3>2
        <5>3. /\ DOMAIN a.entries = DOMAIN c.entries \cup {e}
              /\ a.entries[old] = r
              /\ \A x \in DOMAIN a.entries : x # old => a.entries[x] = es[x]
              /\ a.entries = [x \in DOMAIN a.entries |-> a.entries[x]]
          BY <5>1, <2>3, <3>4
        <5> HIDE DEF r
        <5>4. With(b.entries, e, f) =
                [x \in DOMAIN c.entries \cup {e} |-> IF x = e THEN f ELSE b.entries[x]]
          BY <5>2 DEF With
        <5>5. \A x \in DOMAIN c.entries \cup {e} :
                a.entries[x] = IF x = e THEN f ELSE b.entries[x]
          BY <5>2, <5>3, <2>3, <3>4
        <5>6. a.entries = [x \in DOMAIN c.entries \cup {e} |-> a.entries[x]]
          BY <5>3
        <5> QED
          BY <5>4, <5>5, <5>6
      <4> QED
        BY <4>2, <4>3
    <3> QED
      BY <3>6, <3>9, <3>10, <3>11, <3>12, <3>13 DEF Added, f
  <2> QED
    BY <2>4, <2>5
<1>5. Added(b, e, key, 2, a) /\ d = Evicted(a, limit)
  BY <1>2, <1>4
<1> HIDE DEF a
<1> QED
  BY <1>5

LEMMA UncachedIs ==
    ASSUME NEW c, IsCache(c), NEW e, NEW key, NEW limit \in Nat, ~(limit > 0),
           NEW d, d = Insert(c, e, key, 1, limit)
    PROVE  \E a : Added(c, e, key, 1, a) /\ d = Evicted(a, limit)
<1> DEFINE f == NewEntry(key, 1)
           es == With(c.entries, e, f)
           a == [c EXCEPT !.entries = es]
<1>1. d = Evicted(a, limit)
  <2>1. (limit > 0) = FALSE
    OBVIOUS
  <2>2. f = [key |-> key, charge |-> 1, in_cache |-> limit > 0,
             refs |-> IF limit > 0 THEN 2 ELSE 1]
    BY <2>1 DEF NewEntry
  <2> HIDE DEF f
  <2> QED
    BY <2>2 DEF Insert
<1> HIDE DEF f
<1>2. /\ IsCache(a) /\ a.entries = es /\ a.table = c.table /\ a.lru = c.lru
      /\ a.in_use = c.in_use /\ a.usage = c.usage
  <2> HIDE DEF es
  <2> QED
    BY DEF IsCache
<1> HIDE DEF a
<1>3. Added(c, e, key, 1, a)
  BY <1>2 DEF Added, es, f
<1> QED
  BY <1>1, <1>3

\* What is in the cache afterwards, and how much.
Inserted(c, e, key, d) ==
    /\ \A x \in DOMAIN d.entries \ {e} :
         x \in DOMAIN c.entries /\ d.entries[x].key = c.entries[x].key
    /\ e \in DOMAIN d.entries /\ d.entries[e].key = key

NoMore(d, limit) == d.usage <= limit \/ d.lru = <<>>

LEMMA InsertSound ==
    ASSUME NEW n \in [Slots -> Nat], NEW c, Sound(c, n),
           NEW e \in Slots \ DOMAIN c.entries, NEW key \in Files, NEW limit \in Nat,
           NEW d, d = Insert(c, e, key, 1, limit)
    PROVE  /\ Sound(d, [n EXCEPT ![e] = 1])
           /\ Inserted(c, e, key, d) /\ NoMore(d, limit)
<1> DEFINE m == [n EXCEPT ![e] = 1]
<1>1. IsCache(c)
  BY DEF Sound
<1>2. m = [n EXCEPT ![e] = 1] /\ m \in [Slots -> Nat] /\ m[e] = 1
  OBVIOUS
<1> HIDE DEF m
<1>3. PICK k, b, a :
        /\ k \in {1, 2}
        /\ k = 2 => key \notin DOMAIN b.table
        /\ Sound(b, n) /\ KeysKept(c, b)
        /\ Added(b, e, key, k, a)
        /\ d = Evicted(a, limit)
  <2>1. CASE limit > 0
    <3>1. PICK a : Added(Erase(c, key), e, key, 2, a) /\ d = Evicted(a, limit)
      BY <2>1, CachedIs
    <3> DEFINE b == Erase(c, key)
    <3>2. Sound(b, n) /\ KeysKept(c, b) /\ DOMAIN b.table = DOMAIN c.table \ {key}
      <4> HIDE DEF b
      <4>1. b = Erase(c, key)
        BY DEF b
      <4> QED
        BY <4>1, EraseSound
    <3>3. Added(b, e, key, 2, a)
      BY <3>1
    <3> HIDE DEF b
    <3>4. key \notin DOMAIN b.table
      BY <3>2
    <3> QED
      BY <3>1, <3>2, <3>3, <3>4
  <2>2. CASE ~(limit > 0)
    <3>1. PICK a : Added(c, e, key, 1, a) /\ d = Evicted(a, limit)
      BY <1>1, <2>2, UncachedIs
    <3>2. KeysKept(c, c)
      BY DEF KeysKept
    <3> QED
      BY <3>1, <3>2
  <2> QED
    BY <2>1, <2>2
<1>4. e \in Slots \ DOMAIN b.entries
  BY <1>3 DEF KeysKept
<1>5. /\ Sound(a, m)
      /\ DOMAIN a.entries = DOMAIN b.entries \cup {e}
      /\ a.entries[e].key = key
      /\ \A x \in DOMAIN b.entries : a.entries[x] = b.entries[x]
  <2>1. Sound(b, n) /\ (k = 2 => key \notin DOMAIN b.table)
    BY <1>3
  <2>2. Added(b, e, key, k, a)
    BY <1>3
  <2>3. m[e] = 1 /\ \A x \in Slots : x # e => m[x] = n[x]
    BY <1>2
  <2>4. k \in {1, 2}
    BY <1>3
  <2>5. Sound(a, m)
    BY <1>4, <2>1, <2>2, <2>3, <2>4, AddedSound
  <2>6. DOMAIN a.entries = DOMAIN b.entries \cup {e}
    BY <1>4, <2>1, <2>2, <2>3, <2>4, AddedSound
  <2>7. a.entries[e].key = key
    BY <1>4, <2>1, <2>2, <2>3, <2>4, AddedSound
  <2>8. \A x \in DOMAIN b.entries : a.entries[x] = b.entries[x]
    BY <1>4, <2>1, <2>2, <2>3, <2>4, AddedSound
  <2> QED
    BY <2>5, <2>6, <2>7, <2>8
<1>6. Sound(d, m) /\ KeysKept(a, d) /\ (d.usage <= limit \/ d.lru = <<>>)
  <2>1. d = Evicted(a, limit) /\ m \in [Slots -> Nat]
    BY <1>3, <1>2
  <2>2. Sound(a, m)
    BY <1>5
  <2> QED
    BY <2>1, <2>2, EvictedSound
<1>7. e \in DOMAIN d.entries
  BY <1>2, <1>6 DEF Sound, Counted
<1>8. d.entries[e].key = key
  BY <1>5, <1>6, <1>7 DEF KeysKept
<1>9. ASSUME NEW x \in DOMAIN d.entries \ {e}
      PROVE  x \in DOMAIN c.entries /\ d.entries[x].key = c.entries[x].key
  <2>1. x \in DOMAIN a.entries /\ d.entries[x].key = a.entries[x].key
    BY <1>6 DEF KeysKept
  <2>2. x \in DOMAIN b.entries /\ a.entries[x] = b.entries[x]
    BY <1>5, <2>1
  <2> QED
    BY <1>3, <2>1, <2>2 DEF KeysKept
<1> QED
  BY <1>6, <1>7, <1>8, <1>9 DEF Inserted, NoMore, m

-----------------------------------------------------------------------------
(* The threads' handles.                                                   *)

HoldersIn(th, e) == {t \in Threads : th[t].handle = e}
HoldCount(th) == [e \in Slots |-> Cardinality(HoldersIn(th, e))]

LEMMA HoldersFinite ==
    ASSUME NEW th, NEW e
    PROVE  /\ IsFiniteSet(HoldersIn(th, e)) /\ Cardinality(HoldersIn(th, e)) \in Nat
           /\ Cardinality(HoldersIn(th, e)) > 0 <=> \E t \in Threads : th[t].handle = e
<1>1. HoldersIn(th, e) \subseteq Threads
  BY DEF HoldersIn
<1>2. IsFiniteSet(HoldersIn(th, e))
  BY <1>1, FS_Subset, CacheAssumption
<1>3. Cardinality(HoldersIn(th, e)) \in Nat
  BY <1>2, FS_CardinalityType
<1>4. Cardinality(HoldersIn(th, e)) = 0 <=> HoldersIn(th, e) = {}
  BY <1>2, FS_EmptySet
<1> QED
  BY <1>2, <1>3, <1>4 DEF HoldersIn

LEMMA HoldCountIs ==
    ASSUME NEW th
    PROVE  /\ HoldCount(th) \in [Slots -> Nat]
           /\ \A e \in Slots : HoldCount(th)[e] > 0 <=> \E t \in Threads : th[t].handle = e
<1>1. \A e \in Slots : /\ Cardinality(HoldersIn(th, e)) \in Nat
                       /\ Cardinality(HoldersIn(th, e)) > 0 <=> \E t \in Threads : th[t].handle = e
  BY HoldersFinite
<1> QED
  BY <1>1 DEF HoldCount

LEMMA HandlesSame ==
    ASSUME NEW th, NEW u, \A t \in Threads : u[t].handle = th[t].handle
    PROVE  HoldCount(u) = HoldCount(th)
<1>1. \A e \in Slots : HoldersIn(u, e) = HoldersIn(th, e)
  BY DEF HoldersIn
<1> QED
  BY <1>1 DEF HoldCount

\* One thread gets a handle: one more is out.
LEMMA HandleTaken ==
    ASSUME NEW th, NEW u, NEW t \in Threads, NEW e \in Slots,
           th[t].handle = Null, u[t].handle = e,
           \A x \in Threads \ {t} : u[x].handle = th[x].handle
    PROVE  /\ HoldCount(u)[e] = HoldCount(th)[e] + 1
           /\ \A x \in Slots \ {e} : HoldCount(u)[x] = HoldCount(th)[x]
<1>1. e # Null
  BY CacheSlots
<1>2. /\ HoldersIn(u, e) = HoldersIn(th, e) \cup {t} /\ t \notin HoldersIn(th, e)
      /\ \A x \in Slots \ {e} : HoldersIn(u, x) = HoldersIn(th, x)
  BY <1>1, CacheSlots DEF HoldersIn
<1>3. Cardinality(HoldersIn(u, e)) = Cardinality(HoldersIn(th, e)) + 1
  <2> DEFINE S == HoldersIn(th, e)
  <2>1. IsFiniteSet(S)
    BY HoldersFinite
  <2>2. t \notin S
    BY <1>2
  <2> HIDE DEF S
  <2>3. Cardinality(S \cup {t}) = Cardinality(S) + 1
    BY <2>1, <2>2, FS_AddElement
  <2> QED
    BY <1>2, <2>3 DEF S
<1> QED
  BY <1>2, <1>3 DEF HoldCount

-----------------------------------------------------------------------------
(* The threads and the cache.                                              *)

ThreadState == [pc : {"idle", "opening", "holding"}, file : Files \cup {0},
                handle : Slots \cup {Null}]

\* An idle thread has nothing in hand, and one at work knows its file.
ThreadsAre(th) ==
    /\ th \in [Threads -> ThreadState]
    /\ \A t \in Threads :
         /\ th[t].pc = "idle" => th[t] = Idle
         /\ th[t].pc # "idle" => th[t].file \in Files
         /\ th[t].pc = "holding" <=> th[t].handle # Null

\* What a thread holds is the table it asked for.
HeldIn(c, th) ==
    \A t \in Threads : th[t].handle # Null =>
        /\ th[t].handle \in DOMAIN c.entries
        /\ c.entries[th[t].handle].key = th[t].file

KeysIn(c, files) == \A e \in DOMAIN c.entries : c.entries[e].key \in files

CacheInv ==
    /\ capacity \in Capacities
    /\ ThreadsAre(thread)
    /\ currentFiles \subseteq onDisk /\ onDisk \subseteq Files
    /\ Sound(cache, HoldCount(thread))
    /\ HeldIn(cache, thread)
    /\ KeysIn(cache, onDisk)
    /\ cache.usage <= capacity \/ cache.usage <= Cardinality(Threads)

\* A handle is out, so its entry is there.
LEMMA HeldIsEntry ==
    ASSUME NEW th, ThreadsAre(th), NEW c, Sound(c, HoldCount(th)),
           NEW t \in Threads, th[t].handle # Null
    PROVE  th[t].handle \in DOMAIN c.entries
<1> DEFINE e == th[t].handle
           n == HoldCount(th)
<1>1. e \in Slots
  BY DEF ThreadsAre, ThreadState
<1>2. n[e] > 0
  BY <1>1, HoldCountIs
<1>3. Counted(c, n)
  BY DEF Sound
<1> HIDE DEF n, e
<1>4. e \in DOMAIN c.entries
  BY <1>1, <1>2, <1>3 DEF Counted
<1> QED
  BY <1>4 DEF e

\* Whatever else an operation does to the cache, the entries that are held
\* are there, and are what they were.
LEMMA HeldStays ==
    ASSUME NEW th, NEW u, ThreadsAre(u), NEW c, NEW d,
           HeldIn(c, th), Sound(d, HoldCount(u)), KeysKept(c, d),
           \A t \in Threads : u[t].handle # Null => u[t].handle = th[t].handle /\ u[t].file = th[t].file
    PROVE  HeldIn(d, u)
<1> SUFFICES ASSUME NEW t \in Threads, u[t].handle # Null
             PROVE  /\ u[t].handle \in DOMAIN d.entries
                    /\ d.entries[u[t].handle].key = u[t].file
  BY DEF HeldIn
<1>1. u[t].handle \in DOMAIN d.entries
  BY HeldIsEntry
<1>2. c.entries[u[t].handle].key = u[t].file
  BY DEF HeldIn
<1> QED
  BY <1>1, <1>2 DEF KeysKept

\* A cache with nothing in it is sound when nothing is held.
LEMMA EmptySound ==
    ASSUME NEW n, \A e \in Slots : n[e] = 0, NEW c, IsCache(c),
           DOMAIN c.entries = {}, c.entries = [x \in DOMAIN c.entries |-> c.entries[x]],
           DOMAIN c.table = {}, c.table = [x \in DOMAIN c.table |-> c.table[x]],
           c.lru = <<>>, c.in_use = {}, c.usage = 0
    PROVE  Sound(c, n)
<1>1. Tabled(c)
  BY DEF Tabled
<1>2. Counted(c, n)
  BY DEF Counted
<1>3. Unused(c) = {} /\ InUse(c) = {}
  BY DEF Unused, InUse
<1>4. c.lru \in Seq(Slots) /\ Distinct(c.lru) /\ Range(c.lru) = {}
  <2>1. c.lru \in Seq(Slots) /\ Len(c.lru) = 0
    OBVIOUS
  <2>2. DOMAIN c.lru = {}
    BY <2>1
  <2> QED
    BY <2>1, <2>2 DEF Distinct, Range
<1>5. Listed(c)
  BY <1>3, <1>4 DEF Listed
<1>6. c.usage = Cardinality(DOMAIN c.table)
  BY FS_EmptySet
<1> QED
  BY <1>1, <1>2, <1>5, <1>6 DEF Sound

LEMMA NullEntries == DOMAIN <<>> = {} /\ <<>> = [x \in DOMAIN <<>> |-> <<>>[x]]
<1>1. <<>> \in Seq({}) /\ Len(<<>>) = 0
  OBVIOUS
<1>2. <<>> \in [1..0 -> {}]
  BY <1>1
<1> QED
  BY <1>2

LEMMA NoneHeld ==
    ASSUME NEW th, \A t \in Threads : th[t].handle = Null
    PROVE  \A e \in Slots : HoldCount(th)[e] = 0
<1>1. \A e \in Slots : ~ HoldCount(th)[e] > 0
  BY HoldCountIs, CacheSlots
<1>2. \A e \in Slots : HoldCount(th)[e] \in Nat
  BY HoldCountIs
<1> QED
  BY <1>1, <1>2

LEMMA CacheInvInit == CacheInit => CacheInv
<1> SUFFICES ASSUME CacheInit PROVE CacheInv
  OBVIOUS
<1>1. ThreadsAre(thread) /\ \A t \in Threads : thread[t].handle = Null
  BY DEF CacheInit, ThreadsAre, ThreadState, Idle
<1>2. \A e \in Slots : HoldCount(thread)[e] = 0
  BY <1>1, NoneHeld
<1>3. /\ cache.entries = <<>> /\ cache.table = <<>> /\ cache.lru = <<>>
      /\ cache.in_use = {} /\ cache.usage = 0
      /\ IsCache(cache)
  BY DEF CacheInit, EmptyCache, IsCache
<1>4. Sound(cache, HoldCount(thread))
  <2> DEFINE n == HoldCount(thread)
  <2>1. \A e \in Slots : n[e] = 0
    BY <1>2
  <2> HIDE DEF n
  <2>2. Sound(cache, n)
    BY <1>3, <2>1, NullEntries, EmptySound
  <2> QED
    BY <2>2 DEF n
<1>5. DOMAIN cache.entries = {}
  BY <1>3, NullEntries
<1>6. HeldIn(cache, thread) /\ KeysIn(cache, onDisk)
  BY <1>1, <1>5 DEF HeldIn, KeysIn
<1>7. cache.usage <= capacity
  BY <1>3, CacheAssumption DEF CacheInit
<1> QED
  BY <1>1, <1>4, <1>6, <1>7 DEF CacheInit, CacheInv

-----------------------------------------------------------------------------
(* The steps.                                                              *)

\* FindTable finds the table open, or has to open it.
LEMMA FindTableStep ==
    ASSUME CacheInv, NEW t \in Threads, NEW f \in Files, FindTable(t, f)
    PROVE  CacheInv'
<1> DEFINE e == TableLookup(cache, f)
<1>1. /\ thread[t] = Idle /\ cache' = Lookup(cache, f)
      /\ thread' = [thread EXCEPT ![t] =
           [pc |-> IF e = Null THEN "opening" ELSE "holding", file |-> f, handle |-> e]]
      /\ capacity' = capacity /\ currentFiles' = currentFiles /\ onDisk' = onDisk
  BY DEF FindTable
<1>2. /\ ThreadsAre(thread) /\ Sound(cache, HoldCount(thread)) /\ HeldIn(cache, thread)
      /\ KeysIn(cache, onDisk)
  BY DEF CacheInv
<1>3. thread[t].handle = Null
  BY <1>1 DEF Idle
<1>4. Tabled(cache) /\ Counted(cache, HoldCount(thread))
  BY <1>2 DEF Sound
<1>5. CASE f \notin DOMAIN cache.table
  <2>1. e = Null
    BY <1>5 DEF TableLookup
  <2>2. cache' = cache
    BY <1>1, <2>1 DEF Lookup
  <2> HIDE DEF e
  <2>3. /\ thread'[t] = [pc |-> "opening", file |-> f, handle |-> Null]
        /\ \A x \in Threads \ {t} : thread'[x] = thread[x]
        /\ thread' = [x \in Threads |-> thread'[x]]
    BY <1>1, <1>2, <2>1 DEF ThreadsAre
  <2>4. \A x \in Threads : thread'[x].handle = thread[x].handle
    BY <2>3, <1>3
  <2>5. ThreadsAre(thread')
    BY <1>2, <2>3 DEF ThreadsAre, ThreadState
  <2>6. HoldCount(thread') = HoldCount(thread)
    BY <2>4, HandlesSame
  <2>7. HeldIn(cache', thread')
    BY <1>2, <2>2, <2>3 DEF HeldIn
  <2>8. Sound(cache', HoldCount(thread'))
    BY <1>2, <2>2, <2>6
  <2> QED
    BY <1>1, <2>2, <2>5, <2>7, <2>8 DEF CacheInv
<1>6. CASE f \in DOMAIN cache.table
  <2>1. e = cache.table[f]
    BY <1>6 DEF TableLookup
  <2> HIDE DEF e
  <2>2. /\ e \in DOMAIN cache.entries /\ e \in Slots /\ e # Null
        /\ cache.entries[e].key = f
    BY <1>4, <1>6, <2>1, CacheSlots DEF Tabled
  <2>3. cache.entries[e].in_cache
    BY <1>4, <1>6, <2>1, <2>2 DEF Counted, InTable
  <2>4. cache' = Ref(cache, e)
    BY <1>1, <2>2 DEF Lookup, e
  <2>5. /\ thread'[t] = [pc |-> "holding", file |-> f, handle |-> e]
        /\ \A x \in Threads \ {t} : thread'[x] = thread[x]
        /\ thread' = [x \in Threads |-> thread'[x]]
    BY <1>1, <1>2, <2>2 DEF ThreadsAre
  <2>6. ThreadsAre(thread')
    BY <1>2, <2>2, <2>5 DEF ThreadsAre, ThreadState
  <2> DEFINE n == HoldCount(thread)
             m == HoldCount(thread')
             d == cache'
  <2>7. /\ n \in [Slots -> Nat] /\ m \in [Slots -> Nat]
        /\ m[e] = n[e] + 1 /\ \A x \in Slots \ {e} : m[x] = n[x]
    <3>1. thread'[t].handle = e /\ \A x \in Threads \ {t} : thread'[x].handle = thread[x].handle
      BY <2>5
    <3>2. m[e] = n[e] + 1 /\ \A x \in Slots \ {e} : m[x] = n[x]
      BY <1>3, <2>2, <3>1, HandleTaken
    <3> QED
      BY <3>2, HoldCountIs
  <2>8. Sound(cache, n)
    BY <1>2
  <2> HIDE DEF n, m, d
  <2>9. Sound(d, m) /\ KeysKept(cache, d) /\ UsageKept(cache, d)
    <3>1. m = [n EXCEPT ![e] = @ + 1]
      BY <2>2, <2>7
    <3>2. d = Ref(cache, e)
      BY <2>4 DEF d
    <3>3. Sound(d, [n EXCEPT ![e] = @ + 1]) /\ KeysKept(cache, d) /\ UsageKept(cache, d)
      BY <2>2, <2>3, <2>7, <2>8, <3>2, RefSound
    <3> QED
      BY <3>1, <3>3, Zenon
  <2>10. HeldIn(d, thread')
    <3> SUFFICES ASSUME NEW x \in Threads, thread'[x].handle # Null
                 PROVE  /\ thread'[x].handle \in DOMAIN d.entries
                        /\ d.entries[thread'[x].handle].key = thread'[x].file
      BY DEF HeldIn
    <3>1. thread'[x].handle \in DOMAIN d.entries
      BY <2>6, <2>9, HeldIsEntry DEF m
    <3>2. cache.entries[thread'[x].handle].key = thread'[x].file
      BY <1>2, <2>2, <2>5 DEF HeldIn
    <3> QED
      BY <2>9, <3>1, <3>2 DEF KeysKept
  <2>11. KeysIn(d, onDisk)
    BY <1>2, <2>9 DEF KeysIn, KeysKept
  <2> QED
    BY <1>1, <2>6, <2>9, <2>10, <2>11 DEF CacheInv, UsageKept, d, m
<1> QED
  BY <1>5, <1>6

LEMMA FailToOpenStep ==
    ASSUME CacheInv, NEW t \in Threads, FailToOpen(t)
    PROVE  CacheInv'
<1>1. /\ thread[t].pc = "opening" /\ thread' = [thread EXCEPT ![t] = Idle]
      /\ capacity' = capacity /\ cache' = cache /\ currentFiles' = currentFiles /\ onDisk' = onDisk
  BY DEF FailToOpen
<1>2. ThreadsAre(thread) /\ Sound(cache, HoldCount(thread)) /\ HeldIn(cache, thread)
  BY DEF CacheInv
<1>3. /\ thread'[t] = Idle /\ \A x \in Threads \ {t} : thread'[x] = thread[x]
      /\ thread' = [x \in Threads |-> thread'[x]]
  BY <1>1, <1>2 DEF ThreadsAre
<1>4. thread[t].handle = Null
  BY <1>1, <1>2 DEF ThreadsAre
<1>5. ThreadsAre(thread') /\ \A x \in Threads : thread'[x].handle = thread[x].handle
  BY <1>2, <1>3, <1>4 DEF ThreadsAre, ThreadState, Idle
<1>6. HoldCount(thread') = HoldCount(thread)
  BY <1>5, HandlesSame
<1>7. HeldIn(cache, thread')
  <2>1. \A x \in Threads : thread'[x].handle # Null => thread'[x] = thread[x]
    BY <1>3 DEF Idle
  <2> QED
    BY <1>2, <2>1 DEF HeldIn
<1>8. Sound(cache, HoldCount(thread'))
  BY <1>2, <1>6
<1> QED
  BY <1>1, <1>5, <1>7, <1>8 DEF CacheInv

\* The last reference closes the table.
LEMMA ReleaseStep ==
    ASSUME CacheInv, NEW t \in Threads, Release(t)
    PROVE  CacheInv'
<1> DEFINE e == thread[t].handle
           n == HoldCount(thread)
           m == HoldCount(thread')
           d == cache'
<1>1. /\ thread[t].pc = "holding" /\ d = Unref(cache, e)
      /\ thread' = [thread EXCEPT ![t] = Idle]
      /\ capacity' = capacity /\ currentFiles' = currentFiles /\ onDisk' = onDisk
  BY DEF Release
<1>2. /\ ThreadsAre(thread) /\ Sound(cache, n) /\ HeldIn(cache, thread)
      /\ KeysIn(cache, onDisk)
  BY DEF CacheInv
<1>3. /\ thread'[t] = Idle /\ \A x \in Threads \ {t} : thread'[x] = thread[x]
      /\ thread' = [x \in Threads |-> thread'[x]]
  BY <1>1, <1>2 DEF ThreadsAre
<1>4. e # Null /\ e \in Slots /\ e \in DOMAIN cache.entries
  BY <1>1, <1>2 DEF ThreadsAre, ThreadState, HeldIn
<1>5. ThreadsAre(thread')
  BY <1>2, <1>3 DEF ThreadsAre, ThreadState, Idle
<1>6. n \in [Slots -> Nat] /\ m \in [Slots -> Nat] /\ n[e] > 0
  BY <1>4, HoldCountIs
<1>7. m[e] = n[e] - 1 /\ \A x \in Slots \ {e} : m[x] = n[x]
  <2>1. thread'[t].handle = Null /\ \A x \in Threads \ {t} : thread[x].handle = thread'[x].handle
    BY <1>3 DEF Idle
  <2>2. n[e] = m[e] + 1 /\ \A x \in Slots \ {e} : n[x] = m[x]
    BY <1>4, <2>1, HandleTaken
  <2> QED
    BY <1>4, <1>6, <2>2
<1> HIDE DEF n, m, d, e
<1>8. Sound(d, m) /\ KeysKept(cache, d) /\ UsageKept(cache, d)
  <2>1. m = [n EXCEPT ![e] = @ - 1]
    BY <1>4, <1>6, <1>7
  <2>2. Sound(d, [n EXCEPT ![e] = @ - 1]) /\ KeysKept(cache, d) /\ UsageKept(cache, d)
    BY <1>1, <1>2, <1>4, <1>6, UnrefSound
  <2> QED
    BY <2>1, <2>2, Zenon
<1>9. HeldIn(d, thread')
  <2>1. \A x \in Threads : thread'[x].handle # Null => thread'[x] = thread[x]
    BY <1>3 DEF Idle
  <2>2. Sound(d, HoldCount(thread'))
    BY <1>8 DEF m
  <2> QED
    BY <1>2, <1>5, <1>8, <2>1, <2>2, HeldStays
<1>10. KeysIn(d, onDisk)
  BY <1>2, <1>8 DEF KeysIn, KeysKept
<1> QED
  BY <1>1, <1>5, <1>8, <1>9, <1>10 DEF CacheInv, UsageKept, d, m

LEMMA ObsoleteStep ==
    ASSUME CacheInv, NEW f \in Files, Obsolete(f)
    PROVE  CacheInv'
BY DEF Obsolete, CacheInv

\* The file that goes is not in use, so that whoever held its table last has
\* given it back; and an entry that the cache does not keep is closed then.
LEMMA EvictStep ==
    ASSUME CacheInv, NEW f \in Files, Evict(f)
    PROVE  CacheInv'
<1> DEFINE n == HoldCount(thread)
           d == cache'
<1>1. /\ f \in onDisk \ Live /\ d = Erase(cache, f) /\ onDisk' = onDisk \ {f}
      /\ capacity' = capacity /\ thread' = thread /\ currentFiles' = currentFiles
  BY DEF Evict
<1>2. /\ ThreadsAre(thread) /\ Sound(cache, n) /\ HeldIn(cache, thread)
      /\ KeysIn(cache, onDisk)
  BY DEF CacheInv
<1>3. n \in [Slots -> Nat]
  BY HoldCountIs
<1>4. \A e \in Slots : n[e] > 0 => \E t \in Threads : thread[t].handle = e
  BY HoldCountIs
<1> HIDE DEF n, d
<1>5. Sound(d, n) /\ KeysKept(cache, d) /\ DOMAIN d.table = DOMAIN cache.table \ {f}
  BY <1>1, <1>2, <1>3, EraseSound
<1>6. HeldIn(d, thread)
  BY <1>2, <1>5, HeldStays DEF n
<1>7. \A e \in DOMAIN d.entries : d.entries[e].key # f
  <2> SUFFICES ASSUME NEW e \in DOMAIN d.entries, d.entries[e].key = f PROVE FALSE
    OBVIOUS
  <2>1. Tabled(d) /\ Counted(d, n)
    BY <1>5 DEF Sound
  <2>2. e \in Slots /\ d.entries[e].in_cache \in BOOLEAN
    BY <2>1, EntryFields
  <2>3. ~ InTable(d, e)
    BY <1>5 DEF InTable
  <2>4. ~ d.entries[e].in_cache /\ d.entries[e].refs > 0
    BY <2>1, <2>3 DEF Counted
  <2>5. d.entries[e].refs = n[e] + 0
    BY <2>1, <2>4 DEF Counted
  <2>6. n[e] > 0
    BY <1>3, <2>2, <2>4, <2>5
  <2>7. PICK t \in Threads : thread[t].handle = e
    BY <1>4, <2>2, <2>6
  <2>8. thread[t].handle # Null
    BY <2>2, <2>7, CacheSlots
  <2>9. thread[t].file = f
    BY <1>6, <2>7, <2>8 DEF HeldIn
  <2> QED
    BY <1>1, <2>9 DEF Live
<1>8. KeysIn(d, onDisk')
  <2> SUFFICES ASSUME NEW e \in DOMAIN d.entries PROVE d.entries[e].key \in onDisk'
    BY DEF KeysIn
  <2>1. d.entries[e].key \in onDisk
    BY <1>2, <1>5 DEF KeysIn, KeysKept
  <2> QED
    BY <1>1, <1>7, <2>1
<1>9. d.usage <= cache.usage /\ d.usage \in Nat /\ cache.usage \in Nat
  <2>1. IsFiniteSet(DOMAIN cache.table)
    BY <1>2, FS_Subset, CacheAssumption DEF Sound, Tabled
  <2>2. /\ IsFiniteSet(DOMAIN d.table)
        /\ Cardinality(DOMAIN d.table) <= Cardinality(DOMAIN cache.table)
    BY <1>5, <2>1, FS_Subset
  <2>3. d.usage = Cardinality(DOMAIN d.table) /\ cache.usage = Cardinality(DOMAIN cache.table)
    BY <1>2, <1>5 DEF Sound
  <2> QED
    BY <2>1, <2>2, <2>3, FS_CardinalityType
<1>10. d.usage <= capacity \/ d.usage <= Cardinality(Threads)
  <2>1. capacity \in Nat /\ Cardinality(Threads) \in Nat
    BY FS_CardinalityType, CacheAssumption DEF CacheInv
  <2>2. cache.usage <= capacity \/ cache.usage <= Cardinality(Threads)
    BY DEF CacheInv
  <2> QED
    BY <1>9, <2>1, <2>2
<1>11. currentFiles \subseteq onDisk'
  BY <1>1 DEF CacheInv, Live
<1>12. capacity \in Capacities /\ onDisk \subseteq Files
  BY DEF CacheInv
<1> QED
  BY <1>1, <1>2, <1>5, <1>6, <1>8, <1>10, <1>11, <1>12 DEF CacheInv, d, n

\* When the cache has nothing left to let go, a thread holds each table in it.
LEMMA CapacityKept ==
    ASSUME NEW th, ThreadsAre(th), NEW d, Sound(d, HoldCount(th)),
           NEW limit \in Nat, NoMore(d, limit)
    PROVE  d.usage <= limit \/ d.usage <= Cardinality(Threads)
<1> SUFFICES ASSUME d.lru = <<>> PROVE d.usage <= Cardinality(Threads)
  BY DEF NoMore
<1> DEFINE n == HoldCount(th)
           T == DOMAIN d.table
           H == {t \in Threads : \E k \in T : th[t].handle = d.table[k]}
           f == [t \in H |-> d.entries[th[t].handle].key]
<1>1. Tabled(d) /\ Counted(d, n) /\ Listed(d) /\ d.usage = Cardinality(T)
  BY DEF Sound
<1>2. n \in [Slots -> Nat] /\ \A e \in Slots : n[e] > 0 <=> \E t \in Threads : th[t].handle = e
  BY HoldCountIs
<1> HIDE DEF n
<1>3. Unused(d) = {}
  <2>1. DOMAIN d.lru = {}
    BY NullEntries
  <2>2. Range(d.lru) = {}
    BY <2>1 DEF Range
  <2> QED
    BY <1>1, <2>2 DEF Listed
<1>4. ASSUME NEW k \in T PROVE \E t \in H : f[t] = k
  <2> DEFINE e == d.table[k]
  <2>1. e \in DOMAIN d.entries /\ d.entries[e].key = k
    BY <1>1 DEF Tabled
  <2>2. InTable(d, e)
    BY <2>1 DEF InTable
  <2> HIDE DEF e
  <2>3. e \in Slots /\ d.entries[e].refs \in Nat
    BY <1>1, <2>1, EntryFields
  <2>4. d.entries[e].in_cache /\ d.entries[e].refs > 0 /\ d.entries[e].refs = n[e] + 1
    BY <1>1, <2>1, <2>2 DEF Counted
  <2>5. d.entries[e].refs # 1
    BY <1>3, <2>1, <2>4 DEF Unused
  <2>6. n[e] > 0
    BY <1>2, <2>3, <2>4, <2>5
  <2>7. PICK t \in Threads : th[t].handle = e
    BY <1>2, <2>3, <2>6
  <2>8. t \in H
    BY <2>7 DEF e
  <2>9. f[t] = k
    BY <2>1, <2>7, <2>8
  <2> QED
    BY <2>8, <2>9
<1>5. f \in [H -> T]
  <2> SUFFICES ASSUME NEW t \in H PROVE d.entries[th[t].handle].key \in T
    OBVIOUS
  <2>1. PICK k \in T : th[t].handle = d.table[k]
    OBVIOUS
  <2> QED
    BY <2>1, <1>1 DEF Tabled
<1>6. H \subseteq Threads
  OBVIOUS
<1> HIDE DEF T, H, f
<1>7. f \in Surjection(H, T)
  BY <1>4, <1>5 DEF Surjection
<1>8. IsFiniteSet(H) /\ Cardinality(H) <= Cardinality(Threads)
  BY <1>6, FS_Subset, CacheAssumption
<1>9. IsFiniteSet(T) /\ Cardinality(T) <= Cardinality(H)
  BY <1>7, <1>8, FS_Surjection
<1>10. Cardinality(T) \in Nat /\ Cardinality(H) \in Nat /\ Cardinality(Threads) \in Nat
  BY <1>8, <1>9, FS_CardinalityType, CacheAssumption
<1> QED
  BY <1>1, <1>8, <1>9, <1>10

\* The opened table comes into the cache, if it has any room, and the oldest
\* ones leave.
LEMMA InsertTableStep ==
    ASSUME CacheInv, NEW t \in Threads, InsertTable(t)
    PROVE  CacheInv'
<1> DEFINE n == HoldCount(thread)
           m == HoldCount(thread')
           d == cache'
           key == thread[t].file
<1>1. PICK e \in Slots \ DOMAIN cache.entries :
        /\ d = Insert(cache, e, key, 1, capacity)
        /\ thread' = [thread EXCEPT ![t].pc = "holding", ![t].handle = e]
  BY DEF InsertTable
<1>2. /\ thread[t].pc = "opening" /\ key \in onDisk
      /\ capacity' = capacity /\ currentFiles' = currentFiles /\ onDisk' = onDisk
  BY DEF InsertTable
<1>3. /\ ThreadsAre(thread) /\ Sound(cache, n) /\ HeldIn(cache, thread)
      /\ KeysIn(cache, onDisk) /\ key \in Files /\ capacity \in Nat
  BY <1>2, CacheAssumption DEF CacheInv
<1>4. e \in Slots /\ e # Null
  BY CacheSlots
<1>5. thread[t].handle = Null /\ thread[t] \in ThreadState
  BY <1>2, <1>3 DEF ThreadsAre
<1>6. /\ thread'[t] = [pc |-> "holding", file |-> key, handle |-> e]
      /\ \A x \in Threads \ {t} : thread'[x] = thread[x]
      /\ thread' = [x \in Threads |-> thread'[x]]
  <2>1. thread'[t] = [thread[t] EXCEPT !.pc = "holding", !.handle = e]
    BY <1>1, <1>3 DEF ThreadsAre
  <2>2. thread[t] = [pc |-> thread[t].pc, file |-> thread[t].file, handle |-> thread[t].handle]
    BY <1>5 DEF ThreadState
  <2>3. thread'[t] = [pc |-> "holding", file |-> key, handle |-> e]
    BY <2>1, <2>2
  <2>4. /\ \A x \in Threads \ {t} : thread'[x] = thread[x]
        /\ thread' = [x \in Threads |-> thread'[x]]
    BY <1>1, <1>3 DEF ThreadsAre
  <2> QED
    BY <2>3, <2>4
<1>7. ThreadsAre(thread')
  BY <1>3, <1>4, <1>6 DEF ThreadsAre, ThreadState
<1>8. /\ n \in [Slots -> Nat] /\ m \in [Slots -> Nat]
      /\ m[e] = n[e] + 1 /\ \A x \in Slots \ {e} : m[x] = n[x]
  <2>1. thread'[t].handle = e /\ \A x \in Threads \ {t} : thread'[x].handle = thread[x].handle
    BY <1>6
  <2>2. m[e] = n[e] + 1 /\ \A x \in Slots \ {e} : m[x] = n[x]
    BY <1>4, <1>5, <2>1, HandleTaken
  <2> QED
    BY <2>2, HoldCountIs
<1> HIDE DEF n, m, d, key
<1>9. n[e] = 0
  BY <1>3 DEF Sound, Counted
<1>10. Sound(d, m) /\ Inserted(cache, e, key, d) /\ NoMore(d, capacity)
  <2>1. m = [n EXCEPT ![e] = 1]
    BY <1>4, <1>8, <1>9
  <2>2. /\ Sound(d, [n EXCEPT ![e] = 1])
        /\ Inserted(cache, e, key, d) /\ NoMore(d, capacity)
    BY <1>1, <1>3, <1>8, InsertSound
  <2> QED
    BY <2>1, <2>2, Zenon
<1>11. HeldIn(d, thread')
  <2> SUFFICES ASSUME NEW x \in Threads, thread'[x].handle # Null
               PROVE  /\ thread'[x].handle \in DOMAIN d.entries
                      /\ d.entries[thread'[x].handle].key = thread'[x].file
    BY DEF HeldIn
  <2>1. Sound(d, HoldCount(thread'))
    BY <1>10 DEF m
  <2>2. thread'[x].handle \in DOMAIN d.entries
    BY <1>7, <2>1, HeldIsEntry
  <2>3. CASE x = t
    BY <1>6, <1>10, <2>2, <2>3 DEF Inserted
  <2>4. CASE x # t
    <3>1. /\ thread[x].handle \in DOMAIN cache.entries
          /\ cache.entries[thread[x].handle].key = thread[x].file
      BY <1>3, <1>6, <2>4 DEF HeldIn
    <3> QED
      BY <1>6, <1>10, <2>2, <2>4, <3>1 DEF Inserted
  <2> QED
    BY <2>3, <2>4
<1>12. KeysIn(d, onDisk)
  BY <1>2, <1>3, <1>10 DEF KeysIn, Inserted
<1>13. d.usage <= capacity \/ d.usage <= Cardinality(Threads)
  <2>1. Sound(d, HoldCount(thread'))
    BY <1>10 DEF m
  <2> QED
    BY <1>3, <1>7, <1>10, <2>1, CapacityKept
<1> QED
  BY <1>2, <1>7, <1>10, <1>11, <1>12, <1>13 DEF CacheInv, d, m

\* No thread holds anything, so that every entry is in lru_.
LEMMA ReopenStep ==
    ASSUME CacheInv, Reopen
    PROVE  CacheInv'
<1> DEFINE n == HoldCount(thread)
           d == cache'
           left == [e \in DOMAIN cache.entries \ Range(cache.lru) |-> cache.entries[e]]
<1>1. /\ \A t \in Threads : thread[t].handle = Null
      /\ d = [EmptyCache EXCEPT !.entries = Destroyed(cache).entries]
      /\ currentFiles' = Files /\ onDisk' = Files
      /\ capacity' = capacity /\ thread' = thread
  BY DEF Reopen, Idle
<1>2. Sound(cache, n) /\ ThreadsAre(thread)
  BY DEF CacheInv
<1>3. \A e \in Slots : n[e] = 0
  BY <1>1, NoneHeld
<1> HIDE DEF n, d
<1>4. IsCache(cache) /\ Tabled(cache) /\ Counted(cache, n) /\ Listed(cache)
  BY <1>2 DEF Sound
<1>5. DOMAIN cache.entries \ Range(cache.lru) = {}
  <2> SUFFICES ASSUME NEW e \in DOMAIN cache.entries PROVE e \in Range(cache.lru)
    OBVIOUS
  <2>1. e \in Slots /\ cache.entries[e].in_cache \in BOOLEAN
    BY <1>4, EntryFields
  <2>2. n[e] = 0
    BY <1>3, <2>1
  <2>3. /\ cache.entries[e].refs = n[e] + (IF cache.entries[e].in_cache THEN 1 ELSE 0)
        /\ cache.entries[e].refs > 0
    BY <1>4 DEF Counted
  <2>4. cache.entries[e].in_cache /\ cache.entries[e].refs = 1
    BY <2>1, <2>2, <2>3
  <2> QED
    BY <1>4, <2>4 DEF Listed, Unused
<1>6. Destroyed(cache).entries = left
  BY <1>4 DEF Destroyed, IsCache
<1>7. DOMAIN left = {} /\ left = [x \in DOMAIN left |-> left[x]]
  BY <1>5
<1> HIDE DEF left
<1>8. /\ IsCache(d) /\ d.entries = left /\ d.table = <<>> /\ d.lru = <<>>
      /\ d.in_use = {} /\ d.usage = 0
  BY <1>1, <1>6 DEF EmptyCache, IsCache
<1>9. Sound(d, n)
  BY <1>3, <1>7, <1>8, NullEntries, EmptySound
<1>10. HeldIn(d, thread) /\ KeysIn(d, Files)
  BY <1>1, <1>7, <1>8 DEF HeldIn, KeysIn
<1>11. capacity \in Capacities /\ d.usage <= capacity
  BY <1>8, CacheAssumption DEF CacheInv
<1> QED
  BY <1>1, <1>2, <1>9, <1>10, <1>11 DEF CacheInv, d, n

LEMMA CacheInvStep == CacheInv /\ [CacheNext]_cacheVars => CacheInv'
<1> SUFFICES ASSUME CacheInv, [CacheNext]_cacheVars PROVE CacheInv'
  OBVIOUS
<1>1. ASSUME NEW t \in Threads, FailToOpen(t) PROVE CacheInv'
  BY <1>1, FailToOpenStep
<1>2. ASSUME NEW t \in Threads, InsertTable(t) PROVE CacheInv'
  BY <1>2, InsertTableStep
<1>3. ASSUME NEW t \in Threads, Release(t) PROVE CacheInv'
  BY <1>3, ReleaseStep
<1>4. ASSUME NEW t \in Threads, NEW f \in Files, FindTable(t, f) PROVE CacheInv'
  BY <1>4, FindTableStep
<1>5. ASSUME NEW f \in Files, Obsolete(f) PROVE CacheInv'
  BY <1>5, ObsoleteStep
<1>6. ASSUME NEW f \in Files, Evict(f) PROVE CacheInv'
  BY <1>6, EvictStep
<1>7. CASE Reopen
  BY <1>7, ReopenStep
<1>8. CASE UNCHANGED cacheVars
  BY <1>8 DEF cacheVars, CacheInv
<1> QED
  BY <1>1, <1>2, <1>3, <1>4, <1>5, <1>6, <1>7, <1>8 DEF CacheNext

-----------------------------------------------------------------------------
(* What follows.                                                           *)

LEMMA HeldIsOpenHolds == CacheInv => HeldIsOpen
BY DEF CacheInv, ThreadsAre, HeldIn, HeldIsOpen

LEMMA NothingLeaksHolds == CacheInv => NothingLeaks
<1> SUFFICES ASSUME CacheInv, NEW e \in DOMAIN cache.entries
             PROVE  /\ cache.entries[e].refs =
                         Cardinality(ThreadsHolding(e)) + IF cache.entries[e].in_cache THEN 1 ELSE 0
                    /\ cache.entries[e].refs > 0
                    /\ cache.entries[e].in_cache <=> e = TableLookup(cache, cache.entries[e].key)
  BY DEF NothingLeaks
<1> DEFINE n == HoldCount(thread)
<1>1. Tabled(cache) /\ Counted(cache, n)
  BY DEF CacheInv, Sound
<1>2. e \in Slots /\ e # Null
  BY <1>1, EntryFields, CacheSlots
<1>3. n[e] = Cardinality(ThreadsHolding(e))
  BY <1>2 DEF HoldCount, HoldersIn, ThreadsHolding
<1> HIDE DEF n
<1>4. /\ cache.entries[e].refs = n[e] + (IF cache.entries[e].in_cache THEN 1 ELSE 0)
      /\ cache.entries[e].refs > 0
      /\ cache.entries[e].in_cache <=> InTable(cache, e)
  BY <1>1 DEF Counted
<1>5. InTable(cache, e) <=> e = TableLookup(cache, cache.entries[e].key)
  BY <1>2 DEF InTable, TableLookup
<1> QED
  BY <1>3, <1>4, <1>5

LEMMA ListsAreExactHolds == CacheInv => ListsAreExact
<1> SUFFICES ASSUME CacheInv PROVE ListsAreExact
  OBVIOUS
<1> DEFINE n == HoldCount(thread)
           L == Range(cache.lru)
<1>1. Tabled(cache) /\ Counted(cache, n) /\ Listed(cache)
  BY DEF CacheInv, Sound
<1> HIDE DEF n
<1>2. \A e \in DOMAIN cache.entries : cache.entries[e].in_cache <=> e \in Range(cache.table)
  <2> TAKE e \in DOMAIN cache.entries
  <2>1. InTable(cache, e) <=> e \in Range(cache.table)
    BY <1>1 DEF InTable, Tabled, Range
  <2> QED
    BY <1>1, <2>1 DEF Counted
<1>3. Range(cache.table) \subseteq DOMAIN cache.entries
  BY <1>1 DEF Tabled, Range
<1>4. L = {e \in Range(cache.table) : cache.entries[e].refs = 1}
  BY <1>1, <1>2, <1>3 DEF Listed, Unused
<1>5. cache.in_use = Range(cache.table) \ L
  BY <1>1, <1>2, <1>3, <1>4 DEF Listed, InUse
<1>6. Len(cache.lru) = Cardinality(L)
  <2> DEFINE s == cache.lru
             I == 1..Len(s)
  <2>1. s \in Seq(Slots) /\ Distinct(s)
    BY <1>1 DEF Listed
  <2>2. DOMAIN s = I /\ Len(s) \in Nat /\ s = [i \in I |-> s[i]]
    BY <2>1
  <2>3. L = {s[i] : i \in I}
    BY <2>2 DEF Range
  <2> HIDE DEF s, L
  <2>4. s \in [I -> L]
    BY <2>2, <2>3
  <2>5. \A i, j \in I : s[i] = s[j] => i = j
    BY <2>1 DEF Distinct
  <2>6. s \in Bijection(I, L)
    BY <2>2, <2>3, <2>4, <2>5 DEF Bijection, Injection, Surjection, IsInjective
  <2>7. IsFiniteSet(I) /\ Cardinality(I) = Len(s)
    <3> DEFINE k == Len(s)
    <3>1. k \in Nat
      BY <2>2
    <3> HIDE DEF k
    <3>2. /\ IsFiniteSet(1..k)
          /\ Cardinality(1..k) = IF 1 > k THEN 0 ELSE k - 1 + 1
      BY <3>1, FS_Interval
    <3>3. IsFiniteSet(1..k) /\ Cardinality(1..k) = k
      BY <3>1, <3>2
    <3> QED
      BY <3>3 DEF k
  <2> HIDE DEF I
  <2>8. Cardinality(L) = Cardinality(I)
    BY <2>6, <2>7, FS_Bijection DEF ExistsBijection
  <2> QED
    BY <2>7, <2>8 DEF s
<1> QED
  BY <1>4, <1>5, <1>6 DEF ListsAreExact

LEMMA WithinCapacityHolds == CacheInv => WithinCapacity
<1> SUFFICES ASSUME CacheInv PROVE WithinCapacity
  OBVIOUS
<1> DEFINE N == Cardinality(Threads)
           S == {capacity, N}
<1>1. capacity \in Nat /\ N \in Nat
  BY FS_CardinalityType, CacheAssumption DEF CacheInv
<1>2. cache.usage = Cardinality(DOMAIN cache.table) /\ cache.usage \in Nat
  <2>1. Sound(cache, HoldCount(thread))
    BY DEF CacheInv
  <2>2. IsFiniteSet(DOMAIN cache.table)
    BY <2>1, FS_Subset, CacheAssumption DEF Sound, Tabled
  <2> QED
    BY <2>1, <2>2, FS_CardinalityType DEF Sound
<1>3. cache.usage <= capacity \/ cache.usage <= N
  BY DEF CacheInv
<1> HIDE DEF N
<1>4. \E x \in S : \A y \in S : x >= y
  BY <1>1
<1>5. Max(S) \in S /\ \A y \in S : Max(S) >= y
  BY <1>4 DEF Max
<1>6. Max(S) \in Nat /\ Max(S) >= capacity /\ Max(S) >= N
  BY <1>1, <1>5
<1>7. cache.usage <= Max(S)
  BY <1>1, <1>2, <1>3, <1>6
<1> QED
  BY <1>2, <1>7 DEF WithinCapacity, N

\* The cache of open tables, for any number of threads, files and entries and
\* any capacity: a handle stays good for the thread that holds it, a table
\* that nobody holds and the cache has let go is closed, lru_ and in_use_ are
\* as the comment of cache.cc says, no deleted file stays open, and no more
\* is cached than the capacity or than what threads hold at once.
THEOREM CacheIsSoundSafe == CacheSpec => []CacheIsSound
<1>1. CacheInit => CacheInv
  BY CacheInvInit
<1>2. CacheInv /\ [CacheNext]_cacheVars => CacheInv'
  BY CacheInvStep
<1>3. CacheInv => CacheIsSound
  <2> SUFFICES ASSUME CacheInv PROVE CacheIsSound
    OBVIOUS
  <2>1. DeletedIsClosed
    BY DEF CacheInv, KeysIn, DeletedIsClosed
  <2> QED
    BY <2>1, HeldIsOpenHolds, NothingLeaksHolds, ListsAreExactHolds, WithinCapacityHolds
       DEF CacheIsSound
<1> QED
  BY <1>1, <1>2, <1>3, PTL DEF CacheSpec
=============================================================================
