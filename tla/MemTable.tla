------------------------------ MODULE MemTable ------------------------------
(***************************************************************************)
(* A memtable (db/memtable.cc) and the batches that come into it           *)
(* (db/write_batch.cc): a group of batches is numbered, inserted record by *)
(* record, and published by the sequence number DBImpl::Write sets when    *)
(* all are in.  Meanwhile a reader gets keys and iterates.                 *)
(*                                                                         *)
(* A node is an internal key. A value is its sequence number. A batch is   *)
(* taken as its records: what a caller builds always parses.               *)
(***************************************************************************)
EXTENDS SkipList, Sequences

CONSTANTS Users,         \* user keys, 1..n
          Kinds,         \* bound: type tags of the records
          MaxGroup,      \* bound: records of a group
          MaxWrites      \* bound: records written

VARIABLES batch,         \* the batch being inserted, [sequence, count, records]
          inserter,      \* sequence_ of MemTableInserter, and Iterate's record
          kind,          \* the type tag of each entry
          last_sequence, \* VersionSet::last_sequence_
          answer,        \* the last Get
          written        \* history: all the records, in order

memVars == <<batch, inserter, kind, last_sequence, answer, written>>

InternalKey(user, seq) == user * (MaxWrites + 1) + MaxWrites - seq
UserKey(n) == n \div (MaxWrites + 1)
SeqOf(n) == MaxWrites - (n % (MaxWrites + 1))

InternalKeys == {InternalKey(u, s) : u \in Users, s \in 1..MaxWrites}

-----------------------------------------------------------------------------
(* WriteBatch.                                                             *)

Clear == [sequence |-> 0, count |-> 0, records |-> <<>>]

Record(b, user, type) ==
    [b EXCEPT !.count = @ + 1, !.records = Append(@, [key |-> user, kind |-> type])]
Put(b, user) == Record(b, user, "value")
Delete(b, user) == Record(b, user, "deletion")

\* WriteBatchInternal::Append.
AppendBatch(dst, src) ==
    [dst EXCEPT !.count = @ + src.count, !.records = @ \o src.records]

SetSequence(b, seq) == [b EXCEPT !.sequence = seq]

\* What callers write, and what the queue's front makes of two of them.
Single == {b \in {Put(Clear, u) : u \in Users} \cup {Delete(Clear, u) : u \in Users} :
             b.records[1].kind \in Kinds}
Groups == {b \in Single \cup {AppendBatch(b, c) : b, c \in Single} : Len(b.records) <= MaxGroup}

-----------------------------------------------------------------------------
MemInit ==
    /\ batch = Clear
    /\ inserter = [sequence |-> 0, record |-> 1]
    /\ kind = <<>>
    /\ last_sequence = 0
    /\ answer = Idle
    /\ written = <<>>

Inserted == inserter.record > Len(batch.records)

\* DBImpl::Write hands the group to InsertInto.
InsertInto(b) ==
    /\ batch = Clear
    /\ Len(written) + Len(b.records) <= MaxWrites
    /\ batch' = SetSequence(b, last_sequence + 1)
    /\ inserter' = [sequence |-> last_sequence + 1, record |-> 1]
    /\ written' = written \o b.records
    /\ UNCHANGED <<kind, last_sequence, answer>>
    /\ UNCHANGED listVars

\* MemTableInserter and MemTable::Add, as far as the table's Insert.
Add(height) ==
    /\ ~Inserted
    /\ LET record == batch.records[inserter.record]
           key == InternalKey(record.key, inserter.sequence)
       IN /\ StartInsert(key, height)
          /\ kind' = [n \in DOMAIN kind \cup {key} |-> IF n = key THEN record.kind ELSE kind[n]]
    /\ inserter' = [sequence |-> inserter.sequence + 1, record |-> inserter.record + 1]
    /\ UNCHANGED <<batch, last_sequence, answer, written>>

\* DBImpl::Write after InsertInto: now readers may see the group.
SetLastSequence ==
    /\ batch # Clear /\ Inserted /\ ~insert.busy
    /\ last_sequence' = batch.sequence + batch.count - 1
    /\ batch' = Clear
    /\ inserter' = [sequence |-> 0, record |-> 1]
    /\ UNCHANGED <<kind, answer, written>>
    /\ UNCHANGED listVars

\* DBImpl::Get, at the last sequence number or at a snapshot.
StartGet(user, seq) ==
    /\ seq <= last_sequence
    /\ StartSearch(<<"Get", user, seq>>, InternalKey(user, seq))
    /\ UNCHANGED memVars

\* MemTable::Get: the entry found, if it is of the user key.
Get ==
    /\ Arrived /\ search.call[1] = "Get"
    /\ LET user == search.call[2]
           hit == Found # None /\ UserKey(Found) = user
       IN answer' = [busy |-> TRUE, key |-> user, sequence |-> search.call[3],
                     seq |-> IF hit THEN SeqOf(Found) ELSE 0,
                     kind |-> IF hit THEN kind[Found] ELSE "none"]
    /\ search' = Idle
    /\ UNCHANGED <<next, heights, insert, node, call, batch, inserter, kind, last_sequence, written>>

Init == ListInit /\ MemInit

Writes ==
    \/ \E b \in Groups : InsertInto(b)
    \/ \E height \in Levels : Add(height)
    \/ SetLastSequence
    \/ Link /\ UNCHANGED memVars

Gets ==
    \/ \E user \in Users, seq \in 0..MaxWrites : StartGet(user, seq)
    \/ Advance /\ UNCHANGED memVars
    \/ Get

\* MemTableIterator passes every call on to the list's iterator.
Iterates ==
    /\ \/ SeekToFirst \/ SeekToLast \/ Next \/ Prev \/ Advance \/ Arrive
       \/ \E target \in Nodes : Seek(target)
    /\ UNCHANGED memVars

Step == Writes \/ Gets \/ Iterates

Spec == Init /\ [][Step]_<<listVars, memVars>>

-----------------------------------------------------------------------------
\* A Get at a sequence number answers with the newest record of the key among
\* the first ones up to that number, as they were written: a batch that is
\* half in the table is not seen, and one that is published is seen whole.
Newest(user, seq) ==
    LET s == {i \in 1..seq : i <= Len(written) /\ written[i].key = user} IN
    IF s = {} THEN 0 ELSE Greatest(s)
GetFindsNewest ==
    answer.busy =>
        /\ answer.seq = Newest(answer.key, answer.sequence)
        /\ answer.kind = IF answer.seq = 0 THEN "none" ELSE written[answer.seq].kind
=============================================================================
