----------------------------- MODULE Compaction -----------------------------
(***************************************************************************)
(* The levels of LevelDB: which tables a memtable and a compaction become, *)
(* what a compaction drops, and what a reader finds (db/version_set.cc,    *)
(* DoCompactionWork and the readers of db/db_impl.cc, db/snapshot.h).      *)
(*                                                                         *)
(* An entry is an internal key; its value is its sequence number. A table  *)
(* is the sequence of its entries, and its size their count. A background  *)
(* compaction starts in one step and is installed in another; readers,     *)
(* writers and the flush of a memtable come in between.                    *)
(***************************************************************************)
EXTENDS Integers, Sequences, FiniteSets, SequencesExt

CONSTANTS Keys,
          kNumLevels, kMaxMemCompactLevel,
          GrandParentFactor,  \* 10 in the code
          ExpandedFactor,     \* 25 in the code
          MaxBytesForLevel,   \* of level 1 and deeper, in entries
          MaxWrites,          \* bound: entries written
          Uses                \* how a database may be used, see Use

\* A way to use a database: its options and who calls it.
Use == [keys : (SUBSET Keys) \ {{}}, \* those that are written
        target : Nat \ {0},       \* TargetFileSize, in entries
        trigger : Nat \ {0},      \* kL0_CompactionTrigger
        writes : 0..MaxWrites,    \* bound: entries written
        snapshots : Nat,          \* bound: snapshots alive
        merges : Nat,             \* bound: compactions
        manual : BOOLEAN,         \* whether CompactRange is called
        seeks : BOOLEAN,          \* whether reads use up the allowed seeks of a table
        yields : BOOLEAN]         \* whether a memtable fills up during a compaction

ASSUME LevelsAssumption ==
    /\ Keys \subseteq Nat
    /\ kNumLevels \in Nat /\ kMaxMemCompactLevel \in 0..kNumLevels-2
    /\ \A l \in 1..kNumLevels-2 : MaxBytesForLevel[l] \in Nat \ {0}
    /\ MaxWrites \in Nat /\ Uses \subseteq Use

VARIABLES last_sequence, snapshots,
          mem, imm,           \* sets of entries
          files,              \* files[l+1]: the tables of level l, by smallest key
          compact_pointer,    \* by level, the internal key the last compaction ended with
          file_to_compact,    \* of the current version: [level, number] or none
          next_file_number,
          merge,              \* the compaction under way
          merges,             \* how many there were
          use,                \* the way this database is used
          written             \* history: all entries ever written

vars == <<last_sequence, snapshots, mem, imm, files, compact_pointer, file_to_compact,
          next_file_number, merge, merges, use, written>>

Levels == 0..kNumLevels-1
None == [none |-> TRUE]
TargetFileSize == use.target
kL0_CompactionTrigger == use.trigger

-----------------------------------------------------------------------------
(* Internal keys, tables and their ranges.                                 *)

Entry(k, s, del) == [key |-> k, seq |-> s, del |-> del]

\* InternalKeyComparator: by user key, then the newest first.
Less(a, b) == a.key < b.key \/ (a.key = b.key /\ a.seq > b.seq)

Smallest(f) == f.entries[1]
Largest(f) == f.entries[Len(f.entries)]
FileSize(f) == Len(f.entries)

TotalFileSize(fs) ==
    LET Sum[i \in 0..Len(fs)] == IF i = 0 THEN 0 ELSE Sum[i-1] + FileSize(fs[i])
    IN  Sum[Len(fs)]

BySmallestKey(f, g) ==
    \/ Less(Smallest(f), Smallest(g))
    \/ Smallest(f) = Smallest(g) /\ f.number < g.number

\* The elements of a set in an order, which is one of all its elements.
InOrder(S, Before(_, _)) ==
    LET rank == [x \in S |-> Cardinality({y \in S : Before(y, x)})]
    IN  [i \in 1..Cardinality(S) |-> CHOOSE x \in S : rank[x] = i - 1]

\* The first table whose largest key is not before the target, by binary search;
\* it takes less than one step for each table.
Halved(fs, target, s) ==
    LET mid == (s.left + s.right) \div 2
    IN  IF s.left >= s.right THEN s
        ELSE IF Less(Largest(fs[mid + 1]), target) THEN [s EXCEPT !.left = mid + 1]
        ELSE [s EXCEPT !.right = mid]

FindFile(fs, target) ==
    LET Search[i \in 0..Len(fs)] ==
          IF i = 0 THEN [left |-> 0, right |-> Len(fs)] ELSE Halved(fs, target, Search[i-1])
    IN  Search[Len(fs)].right + 1

\* A range of user keys; the whole one stands for two open ends.
Interval(b, e) == [begin |-> b, end |-> e]
Overlaps(f, r) == Largest(f).key >= r.begin /\ Smallest(f).key <= r.end
Hit(fs, r) == InOrder({f \in ToSet(fs) : Overlaps(f, r)}, BySmallestKey)

\* VersionSet::GetRange, as user keys, and its upper end as an internal key.
UserRange(fs) == Interval(Min({Smallest(f).key : f \in ToSet(fs)}),
                          Max({Largest(f).key : f \in ToSet(fs)}))
Limit(fs) == CHOOSE k \in {Largest(f) : f \in ToSet(fs)} : \A f \in ToSet(fs) : ~Less(k, Largest(f))

\* Version::OverlapInLevel and SomeFileOverlapsRange, for a range with two ends.
Reaches(fs, index, end) == index <= Len(fs) /\ Smallest(fs[index]).key <= end
OverlapInLevel(fs, level, r) ==
    IF level = 0 THEN Hit(fs, r) # <<>>
    ELSE Reaches(fs, FindFile(fs, Entry(r.begin, MaxWrites + 1, FALSE)), r.end)

\* On level 0 a table that is hit extends the range, and the search restarts.
Widened(hit, r) == Interval(Min({r.begin} \cup {Smallest(f).key : f \in ToSet(hit)}),
                            Max({r.end} \cup {Largest(f).key : f \in ToSet(hit)}))
Wider(fs, r) == Widened(Hit(fs, r), r)

GetOverlappingInputs(fs, level, r) ==
    LET Close[n \in 0..Len(fs)] == IF n = 0 THEN r ELSE Wider(fs, Close[n-1])
    IN  Hit(fs, IF level = 0 THEN Close[Len(fs)] ELSE r)

\* VersionSet::Builder: the version after an edit.
SaveTo(v, del, add) ==
    [i \in DOMAIN v |->
        InOrder({f \in ToSet(v[i]) : <<i - 1, f.number>> \notin del}
                   \cup {a[2] : a \in {b \in add : b[1] = i - 1}}, BySmallestKey)]

-----------------------------------------------------------------------------
(* Readers.                                                                *)

NewestOf(seen) == IF seen = {} THEN None ELSE CHOOSE e \in seen : \A d \in seen : d.seq <= e.seq
Newest(es, k, s) == NewestOf({e \in es : e.key = k /\ e.seq <= s})

\* The tables Version::Get looks into, in that order, each with its level.
AtIndex(fs, level, index, k) ==
    IF Reaches(fs, index, k) THEN <<[level |-> level, file |-> fs[index]]>> ELSE <<>>
Searched(v, k, s) ==
    LET Down[l \in 0..kNumLevels-1] ==
          IF l = 0
          THEN InOrder({[level |-> 0, file |-> f] : f \in ToSet(Hit(v[1], Interval(k, k)))},
                       LAMBDA f, g : f.file.number > g.file.number)
          ELSE Down[l-1] \o AtIndex(v[l+1], l, FindFile(v[l+1], Entry(k, s, FALSE)), k)
    IN  Down[kNumLevels-1]

\* The first place that knows the key.
Place(known) == IF known = {} THEN 0 ELSE Min(known)
FoundAt(places, k, s) == Place({i \in DOMAIN places : Newest(places[i], k, s) # None})

\* DBImpl::Get: 0 where there is nothing, or a deletion.
Value(e) == IF e = None \/ e.del THEN 0 ELSE e.seq
ValueAt(places, i, k, s) == IF i = 0 THEN 0 ELSE Value(Newest(places[i], k, s))
Entries(searched) == [i \in DOMAIN searched |-> ToSet(searched[i].file.entries)]
Lookup(places, k, s) == ValueAt(places, FoundAt(places, k, s), k, s)
Get(k, s) == Lookup(<<mem, imm>> \o Entries(Searched(files, k, s)), k, s)

\* The first table a Get read in vain is charged with a seek (Version::Get,
\* UpdateStats), and so is the first of two an iterator's sample hits
\* (RecordReadSample); the seek may be the last it is allowed.
Charge(k, s) ==
    /\ use.seeks /\ file_to_compact = None
    /\ \E searched \in {Searched(files, k, s)} :
         /\ Len(searched) >= 2
         /\ file_to_compact' = [level |-> searched[1].level, number |-> searched[1].file.number]
    /\ UNCHANGED <<last_sequence, snapshots, mem, imm, files, compact_pointer,
                   next_file_number, merge, merges, use, written>>

-----------------------------------------------------------------------------
(* Writers and snapshots.                                                  *)

Write(k, del) ==
    /\ last_sequence < use.writes
    /\ last_sequence' = last_sequence + 1
    /\ mem' = mem \cup {Entry(k, last_sequence + 1, del)}
    /\ written' = written \cup {Entry(k, last_sequence + 1, del)}
    /\ UNCHANGED <<snapshots, imm, files, compact_pointer, file_to_compact, next_file_number,
                   merge, merges, use>>

SwitchMemTable ==
    /\ mem # {} /\ imm = {} /\ (merge # None => use.yields)
    /\ imm' = mem /\ mem' = {}
    /\ UNCHANGED <<last_sequence, snapshots, files, compact_pointer, file_to_compact,
                   next_file_number, merge, merges, use, written>>

GetSnapshot ==
    /\ Len(snapshots) < use.snapshots
    /\ snapshots' = Append(snapshots, last_sequence)
    /\ UNCHANGED <<last_sequence, mem, imm, files, compact_pointer, file_to_compact,
                   next_file_number, merge, merges, use, written>>

ReleaseSnapshot ==
    /\ \E i \in DOMAIN snapshots :
         snapshots' = SubSeq(snapshots, 1, i - 1) \o SubSeq(snapshots, i + 1, Len(snapshots))
    /\ UNCHANGED <<last_sequence, mem, imm, files, compact_pointer, file_to_compact,
                   next_file_number, merge, merges, use, written>>

-----------------------------------------------------------------------------
(* The memtable becomes a table.                                           *)

\* Mutant of PickLevelForMemTableOutput: the next level is not looked at.
PickLevelForMemTableOutputDeep(v, r) ==
    IF OverlapInLevel(v[1], 0, r) THEN 0 ELSE kMaxMemCompactLevel

\* As deep as the next level does not overlap and the one after it not by much.
PickLevelForMemTableOutput(v, r) ==
    LET Stops(level) ==
          \/ level = kMaxMemCompactLevel
          \/ OverlapInLevel(v[level + 2], level + 1, r)
          \/ level + 2 < kNumLevels /\
             TotalFileSize(GetOverlappingInputs(v[level + 3], level + 2, r))
               > GrandParentFactor * TargetFileSize
    IN  IF OverlapInLevel(v[1], 0, r) THEN 0
        ELSE Min({level \in 0..kMaxMemCompactLevel : Stops(level)})

Install(v) == files' = v /\ file_to_compact' = None

\* WriteLevel0Table and the edit of CompactMemTable.
CompactMemTable ==
    /\ imm # {}
    /\ \E f \in {[number |-> next_file_number, entries |-> InOrder(imm, Less)]} :
         Install(SaveTo(files, {}, {<<PickLevelForMemTableOutput(files, UserRange(<<f>>)), f>>}))
    /\ imm' = {}
    /\ next_file_number' = next_file_number + 1
    /\ UNCHANGED <<last_sequence, snapshots, mem, compact_pointer, merge, merges, use, written>>

-----------------------------------------------------------------------------
(* Choosing a compaction.                                                  *)

\* Finalize: the score of a level as a fraction; the first of the greatest.
Score(v, level) ==
    IF level = 0 THEN <<Len(v[1]), kL0_CompactionTrigger>>
    ELSE <<TotalFileSize(v[level + 1]), MaxBytesForLevel[level]>>

AtLeast(a, b) == a[1] * b[2] >= b[1] * a[2]
CompactionLevel(v) ==
    Min({l \in 0..kNumLevels-2 : \A m \in 0..kNumLevels-2 : AtLeast(Score(v, l), Score(v, m))})

SizeCompaction(v) == AtLeast(Score(v, CompactionLevel(v)), <<1, 1>>)
NeedsCompaction == SizeCompaction(files) \/ file_to_compact # None

Below(v, level, r) ==
    IF level + 2 < kNumLevels THEN GetOverlappingInputs(v[level + 3], level + 2, r) ELSE <<>>

Inputs(v, level, inputs0, inputs1) ==
    [level |-> level, inputs0 |-> inputs0, inputs1 |-> inputs1, pointer |-> Limit(inputs0),
     grandparents |-> Below(v, level, UserRange(inputs0 \o inputs1))]

\* SetupOtherInputs: the tables of the next level, and more of this one if they
\* cost no further table of the next.
Grows(inputs0, inputs1, expanded0, expanded1) ==
    /\ inputs1 # <<>> /\ Len(expanded0) > Len(inputs0)
    /\ TotalFileSize(inputs1 \o expanded0) < ExpandedFactor * TargetFileSize
    /\ Len(expanded1) = Len(inputs1)
NextLevelInputs(v, level, inputs) == GetOverlappingInputs(v[level + 2], level + 1, UserRange(inputs))
Chosen(v, level, in, ex) ==
    IF Grows(in[1], in[2], ex[1], ex[2]) THEN Inputs(v, level, ex[1], ex[2])
    ELSE Inputs(v, level, in[1], in[2])
WithNextLevel(v, level, inputs) == <<inputs, NextLevelInputs(v, level, inputs)>>
Expand(v, level, in) ==
    Chosen(v, level, in,
           WithNextLevel(v, level, GetOverlappingInputs(v[level + 1], level, UserRange(in[1] \o in[2]))))
SetupOtherInputs(v, level, inputs0) == Expand(v, level, WithNextLevel(v, level, inputs0))

\* The level and the first table: the one behind the last compaction of a level
\* that is too large, the first if there is none, or the one out of seeks.
PickLevel(v) == IF SizeCompaction(v) THEN CompactionLevel(v) ELSE file_to_compact.level
Behind(fs, p) == InOrder({f \in ToSet(fs) : p = None \/ Less(p, Largest(f))}, BySmallestKey)
PickFile(v, level) ==
    IF SizeCompaction(v) THEN Head(Behind(v[level + 1], compact_pointer[level + 1]) \o v[level + 1])
    ELSE CHOOSE f \in ToSet(v[level + 1]) : f.number = file_to_compact.number

PickInputs(v, level, first) ==
    IF level > 0 THEN <<first>> ELSE GetOverlappingInputs(v[1], 0, UserRange(<<first>>))

PickAt(v, level) == SetupOtherInputs(v, level, PickInputs(v, level, PickFile(v, level)))
PickCompaction(v) == PickAt(v, PickLevel(v))

\* VersionSet::CompactRange: level 0 whole, a deeper one in pieces of one table's
\* size.
Enough(inputs) == {i \in DOMAIN inputs : TotalFileSize(SubSeq(inputs, 1, i)) >= TargetFileSize}
Piece(level, inputs) ==
    IF level = 0 \/ Enough(inputs) = {} THEN inputs ELSE SubSeq(inputs, 1, Min(Enough(inputs)))

CompactRange(v, level, r) == Piece(level, GetOverlappingInputs(v[level + 1], level, r))

IsTrivialMove(c) ==
    /\ Len(c.inputs0) = 1 /\ c.inputs1 = <<>>
    /\ TotalFileSize(c.grandparents) <= GrandParentFactor * TargetFileSize

-----------------------------------------------------------------------------
(* DoCompactionWork.                                                       *)

\* No table below the output may have the key.
IsBaseLevelForKey(v, level, k) ==
    \A l \in level+2..kNumLevels-1 : Hit(v[l + 1], Interval(k, k)) = <<>>

\* The entries that are not copied: those hidden by a newer one every snapshot
\* sees, and deletions with nothing left to delete.
Dropped(v, level, input, i, smallest_snapshot) ==
    \/ /\ i > 1 /\ input[i-1].key = input[i].key
       /\ input[i-1].seq <= smallest_snapshot
    \/ /\ input[i].del /\ input[i].seq <= smallest_snapshot
       /\ IsBaseLevelForKey(v, level, input[i].key)

\* Work so far: the entries of each output, and how much of the grandparents the
\* current one overlaps.
Cut(outs) == IF Last(outs) = <<>> THEN outs ELSE Append(outs, <<>>)
Stopped(w, index, overlapped) ==
    IF overlapped > GrandParentFactor * TargetFileSize
    THEN [outs |-> Cut(w.outs), grandparent_index |-> index, overlapped_bytes |-> 0]
    ELSE [outs |-> w.outs, grandparent_index |-> index, overlapped_bytes |-> overlapped]
Passing(grandparents, w, i, index) ==
    Stopped(w, index, w.overlapped_bytes +
        IF i > 1 THEN TotalFileSize(SubSeq(grandparents, w.grandparent_index + 1, index)) ELSE 0)
ShouldStopBefore(grandparents, w, i, e) ==
    Passing(grandparents, w, i, w.grandparent_index +
        Cardinality({j \in w.grandparent_index + 1..Len(grandparents) : Less(Largest(grandparents[j]), e)}))

\* An entry is added to the last output, which ends when it is full.
Put(outs, e) == [outs EXCEPT ![Len(outs)] = Append(@, e)]
Filled(outs) == IF Len(Last(outs)) >= TargetFileSize THEN Append(outs, <<>>) ELSE outs
Copied(w, e, drop) ==
    IF drop THEN w
    ELSE [w EXCEPT !.outs = Filled(Put(@, e))]

DoCompactionWork(v, c, input, smallest_snapshot) ==
    LET Work[i \in 0..Len(input)] ==
          IF i = 0 THEN [outs |-> << <<>> >>, grandparent_index |-> 0, overlapped_bytes |-> 0]
          ELSE Copied(ShouldStopBefore(c.grandparents, Work[i-1], i, input[i]), input[i],
                      Dropped(v, c.level, input, i, smallest_snapshot))
        outs == Work[Len(input)].outs
    IN  IF Last(outs) = <<>> THEN Front(outs) ELSE outs

MakeInputIterator(c) ==
    InOrder(UNION {ToSet(f.entries) : f \in ToSet(c.inputs0 \o c.inputs1)}, Less)

Numbers(level, fs) == {<<level, f.number>> : f \in ToSet(fs)}
AddInputDeletions(c) == Numbers(c.level, c.inputs0) \cup Numbers(c.level + 1, c.inputs1)

Begin(c, outs) ==
    /\ merge' = [del |-> AddInputDeletions(c),
                 add |-> {<<c.level + 1, [number |-> next_file_number + i - 1, entries |-> outs[i]]>>
                             : i \in DOMAIN outs}]
    /\ next_file_number' = next_file_number + Len(outs)
    /\ compact_pointer' = [compact_pointer EXCEPT ![c.level + 1] = c.pointer]
    /\ merges' = merges + 1
    /\ UNCHANGED <<last_sequence, snapshots, mem, imm, files, file_to_compact, use, written>>

\* Mutant of SmallestSnapshot: the newest snapshot, not the oldest.
LargestSnapshot == IF snapshots = <<>> THEN last_sequence ELSE Last(snapshots)

SmallestSnapshot == IF snapshots = <<>> THEN last_sequence ELSE Head(snapshots)

Start(c) == \E outs \in {DoCompactionWork(files, c, MakeInputIterator(c), SmallestSnapshot)} : Begin(c, outs)

\* Mutant of TrivialMove: the table is put back on its own level.
TrivialMoveStays(c) ==
    /\ compact_pointer' = [compact_pointer EXCEPT ![c.level + 1] = c.pointer]
    /\ Install(SaveTo(files, AddInputDeletions(c), {<<c.level, Head(c.inputs0)>>}))
    /\ merges' = merges + 1
    /\ UNCHANGED <<last_sequence, snapshots, mem, imm, next_file_number, merge, use, written>>

\* A single table with nothing below is handed down as it is.
TrivialMove(c) ==
    /\ compact_pointer' = [compact_pointer EXCEPT ![c.level + 1] = c.pointer]
    /\ Install(SaveTo(files, AddInputDeletions(c), {<<c.level + 1, Head(c.inputs0)>>}))
    /\ merges' = merges + 1
    /\ UNCHANGED <<last_sequence, snapshots, mem, imm, next_file_number, merge, use, written>>

MayMerge == merge = None /\ imm = {} /\ merges < use.merges

BackgroundCompaction ==
    /\ MayMerge /\ NeedsCompaction
    /\ \E c \in {PickCompaction(files)} :
         \/ IsTrivialMove(c) /\ TrivialMove(c)
         \/ ~IsTrivialMove(c) /\ Start(c)

StartManual(level, r) ==
    /\ use.manual /\ MayMerge
    /\ \E inputs \in {CompactRange(files, level, r)} :
         inputs # <<>> /\ Start(SetupOtherInputs(files, level, inputs))

InstallCompactionResults ==
    /\ merge # None
    /\ Install(SaveTo(files, merge.del, merge.add))
    /\ merge' = None
    /\ UNCHANGED <<last_sequence, snapshots, mem, imm, compact_pointer, next_file_number, merges, use, written>>

-----------------------------------------------------------------------------
Init ==
    /\ last_sequence = 0 /\ snapshots = <<>>
    /\ mem = {} /\ imm = {}
    /\ files = [i \in 1..kNumLevels |-> <<>>]
    /\ compact_pointer = [i \in 1..kNumLevels |-> None]
    /\ file_to_compact = None /\ next_file_number = 1
    /\ merge = None /\ merges = 0 /\ use \in Uses /\ written = {}

BackgroundStep == CompactMemTable \/ BackgroundCompaction \/ InstallCompactionResults

Ranges == {r \in {Interval(b, e) : b, e \in use.keys} : r.begin <= r.end}

Next ==
    \/ \E k \in use.keys, del \in BOOLEAN : Write(k, del)
    \/ SwitchMemTable \/ GetSnapshot \/ ReleaseSnapshot
    \/ \E k \in use.keys, s \in {last_sequence} \cup ToSet(snapshots) : Charge(k, s)
    \/ BackgroundStep
    \/ \E level \in 0..kNumLevels-2, r \in Ranges : StartManual(level, r)

Spec == Init /\ [][Next]_vars

-----------------------------------------------------------------------------
(* Properties.                                                             *)

\* A compaction's inputs stay in the version until it is installed, whatever is
\* flushed in the meantime, and no number names two tables.
TypeOK ==
    /\ merge # None =>
         \A d \in merge.del : \E i \in DOMAIN files[d[1] + 1] : files[d[1] + 1][i].number = d[2]
    /\ \A l, m \in DOMAIN files : \A i \in DOMAIN files[l], j \in DOMAIN files[m] :
         files[l][i].number = files[m][j].number => l = m /\ i = j
    /\ \A l \in DOMAIN files : \A i \in DOMAIN files[l] : files[l][i].number < next_file_number

\* version_set.cc:765, "Must not overlap": the tables of a level but the first
\* are disjoint and in order, so that binary search finds the right one.
LevelsAreDisjoint ==
    \A l \in 2..kNumLevels : \A i \in 2..Len(files[l]) :
        Less(Largest(files[l][i-1]), Smallest(files[l][i]))

\* version_set.cc:349-351: "entries never hop across levels". Of two entries of
\* a key, the one that is searched first is the newer, so that the search may
\* stop at the first hit.
NewerAbove ==
    LET Above(upper, lower) == \A a \in upper, b \in lower : a.key = b.key => a.seq > b.seq
        In(l) == UNION {ToSet(files[l][i].entries) : i \in DOMAIN files[l]}
    IN  /\ Above(mem, imm)
        /\ \A l \in DOMAIN files : Above(mem \cup imm, In(l)) /\ \A m \in l+1..kNumLevels : Above(In(l), In(m))
        /\ \A f, g \in ToSet(files[1]) : f.number > g.number => Above(ToSet(f.entries), ToSet(g.entries))

LevelsAreOrdered == LevelsAreDisjoint /\ NewerAbove

\* db.h:80-115: what a Get returns, now or at a snapshot, is the last value written
\* by then: no flush, compaction or trivial move loses an entry, revives a deleted
\* or an overwritten one, or drops what a snapshot still sees.
GetIsLatest ==
    \A k \in use.keys, s \in {last_sequence} \cup ToSet(snapshots) :
        Get(k, s) = Value(Newest(written, k, s))

\* Compactions end: each takes some entry a level down for good, so that no level
\* over its limit and no table out of seeks keeps the thread busy once the writes
\* stop (version_set.cc:1064-1089, 1299-1317).
CompactionsEnd == merges <= (kNumLevels - 1) * last_sequence
=============================================================================
