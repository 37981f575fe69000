------------------------------ MODULE SkipList ------------------------------
(***************************************************************************)
(* SkipList (db/skiplist.h): one writer, who is alone by the write queue,  *)
(* and a reader who takes no lock.  Each load and each store of a link is  *)
(* a step of its own; the writer's search is not, since only he changes    *)
(* what it reads.                                                          *)
(*                                                                         *)
(* A node is its key, a number in the comparator's order.  Links are read  *)
(* and written with acquire and release, so they are taken as atomic;      *)
(* max_height_ is not, so a reader may see any value it has had.           *)
(***************************************************************************)
EXTENDS Ordered

CONSTANTS Nodes,         \* the keys there may be, above head_'s
          kMaxHeight

VARIABLES next,          \* next_ of each node, by level
          heights,       \* the values max_height_ has had
          insert,        \* the writer's Insert under way
          search,        \* the reader's search under way
          node,          \* node_ of the reader's iterator
          call           \* history: his last call that has returned

listVars == <<next, heights, insert, search, node, call>>

head_ == 0
Levels == 1..kMaxHeight
Idle == [busy |-> FALSE]

GetMaxHeight == Greatest(heights)

ListInit ==
    /\ next = [n \in Nodes \cup {head_} |-> [level \in Levels |-> None]]
    /\ heights = {1}
    /\ insert = Idle /\ search = Idle
    /\ node = None
    /\ call = <<"none">>

-----------------------------------------------------------------------------
(* Searching.  The goal is the key looked for, None for the list's end.    *)

\* KeyIsAfterNode: NULL is past every key.
KeyIsAfterNode(goal, n) == n # None /\ (goal # None => n < goal)

\* prev[level] of FindGreaterOrEqual, for the writer.
RECURSIVE LastBefore(_, _, _)
LastBefore(key, x, level) ==
    IF KeyIsAfterNode(key, next[x][level]) THEN LastBefore(key, next[x][level], level) ELSE x

\* The three searches of a reader move alike: along the level, or down.
Ahead == next[search.x][search.level]

StartSearch(name, goal) ==
    /\ ~search.busy
    /\ \E height \in heights :
        search' = [busy |-> TRUE, call |-> name, goal |-> goal, x |-> head_, level |-> height]
    /\ UNCHANGED <<next, heights, insert, node, call>>

Advance ==
    /\ search.busy
    /\ \/ KeyIsAfterNode(search.goal, Ahead) /\ search' = [search EXCEPT !.x = Ahead]
       \/ ~KeyIsAfterNode(search.goal, Ahead) /\ search.level > 1
          /\ search' = [search EXCEPT !.level = @ - 1]
    /\ UNCHANGED <<next, heights, insert, node, call>>

\* The last load: at level 0, and past the goal.
Arrived == search.busy /\ search.level = 1 /\ ~KeyIsAfterNode(search.goal, Ahead)

\* FindGreaterOrEqual returns the node ahead, FindLessThan and FindLast the
\* node they stand at, which is none when it is head_.
Found ==
    IF search.call[1] \in {"Prev", "SeekToLast"}
    THEN IF search.x = head_ THEN None ELSE search.x
    ELSE Ahead

-----------------------------------------------------------------------------
(* Iterator.                                                               *)

Return(name, n) ==
    /\ call' = name
    /\ node' = n
    /\ search' = Idle
    /\ UNCHANGED <<next, heights, insert>>

SeekToFirst == ~search.busy /\ Return(<<"SeekToFirst">>, next[head_][1])

Next == ~search.busy /\ node # None /\ Return(<<"Next">>, next[node][1])

Prev == node # None /\ StartSearch(<<"Prev">>, node)

Seek(target) == StartSearch(<<"Seek", target>>, target)

SeekToLast == StartSearch(<<"SeekToLast">>, None)

Arrive ==
    /\ Arrived /\ search.call[1] \in {"Prev", "Seek", "SeekToLast"}
    /\ Return(search.call, Found)

-----------------------------------------------------------------------------
(* Insert.                                                                 *)

\* Its search, RandomHeight, and the store to max_height_, ahead of the links.
StartInsert(key, height) ==
    LET prev == [level \in Levels |->
                   IF level <= GetMaxHeight THEN LastBefore(key, head_, level) ELSE head_]
    IN  /\ ~insert.busy
        /\ insert' = [busy |-> TRUE, key |-> key, height |-> height, prev |-> prev, level |-> 1]
        /\ heights' = IF height > GetMaxHeight THEN heights \cup {height} ELSE heights
        /\ UNCHANGED <<next, search, node, call>>

\* What is left to do when a level has been linked.
Linked(i) == IF i.level < i.height THEN [i EXCEPT !.level = @ + 1] ELSE Idle

\* Mutant of LevelOf: the levels are linked from the top.
Mut_LevelOf(i) == i.height + 1 - i.level

LevelOf(i) == i.level

\* One turn of the loop: the node's own link, which nobody can see yet, and
\* the release store that publishes the node at this level.
Link ==
    /\ insert.busy
    /\ LET level == LevelOf(insert)
           before == insert.prev[level]
       IN next' = [next EXCEPT ![insert.key][level] = next[before][level],
                               ![before][level] = insert.key]
    /\ insert' = Linked(insert)
    /\ UNCHANGED <<heights, search, node, call>>

-----------------------------------------------------------------------------
\* What the list holds: the nodes linked at the lowest level.
Contents == {n \in Nodes : \E p \in Nodes \cup {head_} : next[p][1] = n}

Yields == INSTANCE Cursor WITH Targets <- Nodes, contents <- Contents, at <- node

\* Without a lock, the reader's iterator is one over the list as it is when a
\* call returns: whatever the writer does during the call, no node is missed
\* and none is met before it is whole (skiplist.h:8-26, 353-359).
IsCursor == Yields!Init /\ [][Yields!Move]_<<node, call>>
=============================================================================
