----------------------------- MODULE TableCache -----------------------------
(***************************************************************************)
(* TableCache (db/table_cache.cc): the open tables, in an LRU cache of one *)
(* shard.  Threads get from tables and iterate over them; a compaction     *)
(* makes files obsolete; DeleteObsoleteFiles evicts and unlinks them.      *)
(*                                                                         *)
(* FindTable does not hold a lock between its Lookup and its Insert, so    *)
(* two threads may open one table twice.                                   *)
(*                                                                         *)
(* LRUCache (util/cache.cc) comes first: one shard, its operations as      *)
(* functions of its members, since each runs under mutex_.  An entry is    *)
(* known by the memory it is in, a slot, which another entry may get once  *)
(* it has been freed.  HandleTable is the map it implements.               *)
(***************************************************************************)
EXTENDS Integers, Sequences, FiniteSets, SequencesExt

-----------------------------------------------------------------------------
(* The cache.                                                              *)

\* No entry.
Null == 0

\* entries: what is in each slot in use; table: HandleTable, key to slot;
\* lru: lru_, the oldest first; in_use: in_use_; usage: usage_.
EmptyCache == [entries |-> <<>>, table |-> <<>>, lru |-> <<>>, in_use |-> {}, usage |-> 0]

TableLookup(c, key) == IF key \in DOMAIN c.table THEN c.table[key] ELSE Null

Without(f, x) == [y \in DOMAIN f \ {x} |-> f[y]]
With(f, x, v) == [y \in DOMAIN f \cup {x} |-> IF y = x THEN v ELSE f[y]]

LRU_Remove(c, e) == [c EXCEPT !.lru = RemoveFirst(@, e), !.in_use = @ \ {e}]

Ref(c, e) ==
    LET d == IF c.entries[e].refs = 1 /\ c.entries[e].in_cache
             THEN [LRU_Remove(c, e) EXCEPT !.in_use = @ \cup {e}] ELSE c
    IN  [d EXCEPT !.entries[e].refs = @ + 1]

\* The last reference frees the entry; when the cache's is the one that is
\* left, the entry moves to the new end of lru_.
Unref(c, e) ==
    LET refs == c.entries[e].refs - 1 IN
    IF refs = 0 THEN [c EXCEPT !.entries = Without(@, e)]
    ELSE LET d == [c EXCEPT !.entries[e].refs = refs] IN
         IF refs = 1 /\ c.entries[e].in_cache
         THEN [LRU_Remove(d, e) EXCEPT !.lru = Append(@, e)] ELSE d

\* Mutant of FinishErase: the entry is freed, whoever holds it.
Mut_FinishErase(c, e) ==
    IF e = Null THEN c
    ELSE [LRU_Remove(c, e) EXCEPT !.entries = Without(@, e), !.usage = @ - c.entries[e].charge]

\* The entry has left the table; now it leaves its list, and the cache lets go.
FinishErase(c, e) ==
    IF e = Null THEN c
    ELSE Unref([LRU_Remove(c, e) EXCEPT !.entries[e].in_cache = FALSE,
                                        !.usage = @ - c.entries[e].charge], e)

Erase(c, key) == FinishErase([c EXCEPT !.table = Without(@, key)], TableLookup(c, key))

\* The end of Insert: while there is too much, the oldest that nobody uses
\* goes.  A turn shortens lru_, so that there are at most so many.
EvictOldest(c, limit) ==
    IF c.usage > limit /\ c.lru # <<>> THEN Erase(c, c.entries[Head(c.lru)].key) ELSE c

Evicted(c, limit) ==
    LET after[n \in 0..Len(c.lru)] == IF n = 0 THEN c ELSE EvictOldest(after[n - 1], limit)
    IN  after[Len(c.lru)]

\* The entry gets a free slot e.
Insert(c, e, key, charge, limit) ==
    LET entry == [key |-> key, charge |-> charge, in_cache |-> limit > 0,
                  refs |-> IF limit > 0 THEN 2 ELSE 1]
        new == [c EXCEPT !.entries = With(@, e, entry)]
        cached == [new EXCEPT !.in_use = @ \cup {e}, !.usage = @ + charge,
                              !.table = With(@, key, e)]
    IN  Evicted(IF limit > 0 THEN FinishErase(cached, TableLookup(c, key)) ELSE new, limit)

Lookup(c, key) == IF TableLookup(c, key) = Null THEN c ELSE Ref(c, TableLookup(c, key))

\* ~LRUCache: the entries of lru_ are let go. None may be in use.
Destroyed(c) ==
    [c EXCEPT !.entries = [e \in DOMAIN @ \ Range(c.lru) |-> @[e]], !.table = <<>>, !.lru = <<>>]

-----------------------------------------------------------------------------
(* The tables.                                                             *)

CONSTANTS Threads, Files,
          Capacities,      \* what the cache may be opened with
          Slots            \* memory for entries

\* What there is: threads and files are few, and no memory is at NULL.
ASSUME CacheAssumption ==
    /\ IsFiniteSet(Threads) /\ IsFiniteSet(Files)
    /\ Capacities \subseteq Nat
    /\ Slots \subseteq Nat /\ Null \notin Slots

VARIABLES capacity,        \* capacity_ of the shard
          cache,           \* the rest of cache_
          thread,          \* where each thread is, and the handle it holds
          currentFiles,    \* the files of the current version, or being written
          onDisk           \* the files there are

cacheVars == <<capacity, cache, thread, currentFiles, onDisk>>

Idle == [pc |-> "idle", file |-> 0, handle |-> Null]

CacheInit ==
    /\ capacity \in Capacities
    /\ cache = EmptyCache
    /\ thread = [t \in Threads |-> Idle]
    /\ currentFiles = Files /\ onDisk = Files

\* FindTable: a hit takes a reference to the entry.
FindTable(t, f) ==
    /\ thread[t] = Idle /\ f \in currentFiles
    /\ cache' = Lookup(cache, f)
    /\ thread' = [thread EXCEPT ![t] =
         [pc |-> IF TableLookup(cache, f) = Null THEN "opening" ELSE "holding",
          file |-> f, handle |-> TableLookup(cache, f)]]
    /\ UNCHANGED <<capacity, currentFiles, onDisk>>

\* The file does not open, or the table does not: nothing is cached.
FailToOpen(t) ==
    /\ thread[t].pc = "opening"
    /\ thread' = [thread EXCEPT ![t] = Idle]
    /\ UNCHANGED <<capacity, cache, currentFiles, onDisk>>

\* The file and the table are open: cache_->Insert.
InsertTable(t) ==
    /\ thread[t].pc = "opening" /\ thread[t].file \in onDisk
    /\ \E e \in Slots \ DOMAIN cache.entries :
        /\ cache' = Insert(cache, e, thread[t].file, 1, capacity)
        /\ thread' = [thread EXCEPT ![t].pc = "holding", ![t].handle = e]
    /\ UNCHANGED <<capacity, currentFiles, onDisk>>

\* The end of Get; or the iterator is deleted, which runs UnrefEntry.
Release(t) ==
    /\ thread[t].pc = "holding"
    /\ cache' = Unref(cache, thread[t].handle)
    /\ thread' = [thread EXCEPT ![t] = Idle]
    /\ UNCHANGED <<capacity, currentFiles, onDisk>>

\* A compaction installs a version without the file.
Obsolete(f) ==
    /\ currentFiles' = currentFiles \ {f}
    /\ UNCHANGED <<capacity, cache, thread, onDisk>>

\* DeleteObsoleteFiles spares the files of a version that a reader still has.
Live == currentFiles \cup {thread[t].file : t \in Threads}

Evict(f) ==
    /\ f \in onDisk \ Live
    /\ cache' = Erase(cache, f)
    /\ onDisk' = onDisk \ {f}
    /\ UNCHANGED <<capacity, thread, currentFiles>>

\* ~DBImpl, when no thread uses the database; and the next one opens it.
Reopen ==
    /\ \A t \in Threads : thread[t] = Idle
    /\ cache' = [EmptyCache EXCEPT !.entries = Destroyed(cache).entries]
    /\ currentFiles' = Files /\ onDisk' = Files
    /\ UNCHANGED <<capacity, thread>>

CacheNext ==
    \/ \E t \in Threads : FailToOpen(t) \/ InsertTable(t) \/ Release(t)
    \/ \E t \in Threads, f \in Files : FindTable(t, f)
    \/ \E f \in Files : Obsolete(f) \/ Evict(f)
    \/ Reopen

CacheSpec == CacheInit /\ [][CacheNext]_cacheVars

-----------------------------------------------------------------------------
ThreadsHolding(e) == {t \in Threads : thread[t].handle = e}

\* A handle stays good for the thread that holds it: its table is open, and
\* the one it asked for, whatever was evicted, erased or opened twice since.
HeldIsOpen ==
    \A t \in Threads : thread[t].pc = "holding" =>
        /\ thread[t].handle \in DOMAIN cache.entries
        /\ cache.entries[thread[t].handle].key = thread[t].file

\* A table that nobody holds and the cache has let go is closed: no file
\* descriptor is lost, also when an entry was replaced or the cache deleted.
NothingLeaks ==
    \A e \in DOMAIN cache.entries :
        /\ cache.entries[e].refs = Cardinality(ThreadsHolding(e)) + IF cache.entries[e].in_cache THEN 1 ELSE 0
        /\ cache.entries[e].refs > 0
        /\ cache.entries[e].in_cache <=> e = TableLookup(cache, cache.entries[e].key)

\* The lists are as the comment of cache.cc:28-38 says.
ListsAreExact ==
    /\ Range(cache.lru) = {e \in Range(cache.table) : cache.entries[e].refs = 1}
    /\ cache.in_use = Range(cache.table) \ Range(cache.lru)
    /\ Len(cache.lru) = Cardinality(Range(cache.lru))

\* A deleted file is not kept open, so that its space is given back.
DeletedIsClosed == \A e \in DOMAIN cache.entries : cache.entries[e].key \in onDisk

\* The cache holds no more than its capacity, or than what threads held at
\* once; it counts what it holds.
WithinCapacity ==
    /\ cache.usage = Cardinality(DOMAIN cache.table)
    /\ cache.usage <= Max({capacity, Cardinality(Threads)})

CacheIsSound == HeldIsOpen /\ NothingLeaks /\ ListsAreExact /\ DeletedIsClosed /\ WithinCapacity
=============================================================================
