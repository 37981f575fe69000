----------------------------- MODULE WriteQueue -----------------------------
(***************************************************************************)
(* The threads of db/db_impl.cc: the queue of writers and its group        *)
(* commit, the room a writer makes in the memtable, a manual compaction,   *)
(* and the background thread they wait for. mutex_ is explicit: what the   *)
(* code does between two of its unlocks is one step, or several steps that *)
(* hold it. The condition variables are in pc: "waiting" is Writer::cv,    *)
(* "bgWait", "flushWait" and "rangeWait" are bg_cv_.                       *)
(*                                                                         *)
(* Keys and values are left out: an operation is <<writer's call, index>>, *)
(* and what matters is which operations reach the log and the memtable,    *)
(* under which sequence numbers. Files are left to a count of level 0.     *)
(***************************************************************************)
EXTENDS Integers, Sequences, FiniteSets, SequencesExt

CONSTANTS Threads,
          Kinds,             \* the calls: [ops, sync, null], ops = 0 iff null
          MaxCalls,          \* bound: calls of a thread
          SmallBatch,        \* 128 KB, in operations
          MaxBatch,          \* 1 MB, in operations
          write_buffer_size, \* in operations
          kL0_CompactionTrigger, kL0_SlowdownWritesTrigger, kL0_StopWritesTrigger,
          MaxChunks,         \* bound: the pieces of a manual compaction
          Failures,          \* what may fail, once each
          MaxSpurious        \* bound: wake-ups nobody signalled

ASSUME QueueAssumption ==
    /\ MaxCalls \in Nat
    /\ "free" \notin Threads /\ "background" \notin Threads
    /\ \A k \in Kinds : k.ops \in Nat /\ k.sync \in BOOLEAN /\ k.null = (k.ops = 0)
    /\ kL0_CompactionTrigger <= kL0_SlowdownWritesTrigger
    /\ kL0_SlowdownWritesTrigger <= kL0_StopWritesTrigger
    /\ Failures \subseteq {"append", "sync", "file", "flush", "merge"}

VARIABLES mutex,          \* a thread, "background" or "free"
          pc, call, calls, writers, group,
          log, logfile_number, entries, last_sequence, mem, imm,
          l0, log_number, flushed, bg, scheduled, manual, range,
          bg_error, failed, spurious

queueVars == <<call, calls, writers>>
dataVars  == <<log, entries, last_sequence>>
memVars   == <<logfile_number, mem, imm>>
bgVars    == <<l0, log_number, flushed, bg, scheduled, manual, range>>
vars == <<mutex, pc, queueVars, group, dataVars, memVars, bgVars, bg_error, failed, spurious>>

NoGroup == [threads |-> <<>>, first |-> 0, ops |-> <<>>, inserted |-> 0]
NoManual == "none"
Idle == [at |-> "idle", merging |-> FALSE, is_manual |-> FALSE, inputs |-> 0,
         table |-> 0, edit |-> 0]
Fails(what) == what \in Failures \ failed /\ failed' = failed \cup {what}

\* bg_cv_.SignalAll()
SignalAll(p) ==
    [t \in Threads |-> CASE p[t] = "bgWait" -> "bgWoken"
                         [] p[t] = "flushWait" -> "flushWoken"
                         [] p[t] = "rangeWait" -> "rangeWoken"
                         [] OTHER -> p[t]]

NeedsCompaction == l0 >= kL0_CompactionTrigger

\* MaybeScheduleCompaction with a memtable i to flush and a manual compaction m
\* to run: what becomes of bg_compaction_scheduled_.
MaybeSchedule(was, i, m, error, files) ==
    was \/ (error = "ok" /\ (i # 0 \/ m # NoManual \/ files >= kL0_CompactionTrigger))

-----------------------------------------------------------------------------
(* DBImpl::Write.                                                          *)

Lead(t) == pc' = [pc EXCEPT ![t] = "room"] /\ mutex' = t

\* The call is queued; it leads at once if the queue was empty.
Write(t, kind) ==
    /\ pc[t] = "idle" /\ mutex = "free" /\ calls[t] < MaxCalls
    /\ calls' = [calls EXCEPT ![t] = @ + 1]
    /\ call' = [call EXCEPT ![t] = [kind |-> kind, id |-> <<t, calls[t] + 1>>, done |-> FALSE,
                                    status |-> "none", delay |-> ~kind.null, force |-> kind.null,
                                    file |-> logfile_number]]
    /\ writers' = Append(writers, t)
    /\ IF writers = <<>> THEN Lead(t)
       ELSE pc' = [pc EXCEPT ![t] = "waiting"] /\ UNCHANGED mutex
    /\ UNCHANGED <<group, dataVars, memVars, bgVars, bg_error, failed, spurious>>

\* w.cv.Wait() returns: signalled, or for no reason.
SpuriousWakeUp(t) ==
    /\ pc[t] = "waiting" /\ spurious < MaxSpurious
    /\ pc' = [pc EXCEPT ![t] = "woken"]
    /\ spurious' = spurious + 1
    /\ UNCHANGED <<mutex, queueVars, group, dataVars, memVars, bgVars, bg_error, failed>>

Woken(t) ==
    /\ pc[t] = "woken" /\ mutex = "free"
    /\ \/ call[t].done /\ pc' = [pc EXCEPT ![t] = "returned"] /\ UNCHANGED mutex
       \/ ~call[t].done /\ writers[1] = t /\ Lead(t)
       \/ ~call[t].done /\ writers[1] # t /\ pc' = [pc EXCEPT ![t] = "waiting"] /\ UNCHANGED mutex
    /\ UNCHANGED <<queueVars, group, dataVars, memVars, bgVars, bg_error, failed, spurious>>

\* The end of Write: the statuses of the group ending with last, the next head.
Finish(t, last, status, p) ==
    LET n == CHOOSE i \in DOMAIN writers : writers[i] = last
        rest == SubSeq(writers, n + 1, Len(writers))
        Ready == {writers[i] : i \in 1..n} \ {t}
        Signalled == Ready \cup (IF rest = <<>> THEN {} ELSE {rest[1]})
    IN  /\ writers' = rest
        /\ call' = [u \in Threads |-> IF u \in Ready \cup {t}
                                      THEN [call[u] EXCEPT !.done = TRUE, !.status = status]
                                      ELSE call[u]]
        /\ pc' = [u \in Threads |-> IF u = t THEN "returned"
                                    ELSE IF u \in Signalled /\ p[u] = "waiting" THEN "woken" ELSE p[u]]
        /\ mutex' = "free"
        /\ UNCHANGED calls

-----------------------------------------------------------------------------
(* MakeRoomForWrite, one disjunct of its chain of conditions per action.   *)

InRoom(t) == pc[t] = "room" /\ mutex = t
Slow(t) == call[t].delay /\ l0 >= kL0_SlowdownWritesTrigger
HasRoom(t) == ~call[t].force /\ mem <= write_buffer_size

YieldError(t) ==
    /\ InRoom(t) /\ bg_error # "ok"
    /\ Finish(t, t, "error", pc)
    /\ UNCHANGED <<group, dataVars, memVars, bgVars, bg_error, failed, spurious>>

\* The lock is free while the writer sleeps for a millisecond.
Sleep(t) ==
    /\ InRoom(t) /\ bg_error = "ok" /\ Slow(t)
    /\ pc' = [pc EXCEPT ![t] = "asleep"] /\ mutex' = "free"
    /\ call' = [call EXCEPT ![t].delay = FALSE]
    /\ UNCHANGED <<calls, writers, group, dataVars, memVars, bgVars, bg_error, failed, spurious>>

WaitForBackground(t) ==
    /\ InRoom(t) /\ bg_error = "ok" /\ ~Slow(t) /\ ~HasRoom(t)
    /\ imm # 0 \/ l0 >= kL0_StopWritesTrigger
    /\ pc' = [pc EXCEPT ![t] = "bgWait"] /\ mutex' = "free"
    /\ UNCHANGED <<queueVars, group, dataVars, memVars, bgVars, bg_error, failed, spurious>>

Relock(t) ==
    /\ pc[t] \in {"asleep", "bgWoken"} /\ mutex = "free"
    /\ Lead(t)
    /\ UNCHANGED <<queueVars, group, dataVars, memVars, bgVars, bg_error, failed, spurious>>

\* Mutant of NeedsNewMemTable: a memtable being compacted is overwritten.
NeedsNewMemTableHasty(t) ==
    /\ InRoom(t) /\ bg_error = "ok" /\ ~Slow(t) /\ ~HasRoom(t)
    /\ l0 < kL0_StopWritesTrigger

NeedsNewMemTable(t) ==
    /\ InRoom(t) /\ bg_error = "ok" /\ ~Slow(t) /\ ~HasRoom(t)
    /\ imm = 0 /\ l0 < kL0_StopWritesTrigger

SwitchMemTable(t) ==
    /\ NeedsNewMemTable(t)
    /\ logfile_number' = logfile_number + 1
    /\ imm' = logfile_number /\ mem' = 0
    /\ call' = [call EXCEPT ![t].force = FALSE]
    /\ scheduled' = MaybeSchedule(scheduled, logfile_number, manual, bg_error, l0)
    /\ UNCHANGED <<mutex, pc, calls, writers, group, dataVars, l0, log_number, flushed, bg, manual, range,
                   bg_error, failed, spurious>>

NewLogFails(t) ==
    /\ NeedsNewMemTable(t) /\ Fails("file")
    /\ Finish(t, t, "error", pc)
    /\ UNCHANGED <<group, dataVars, memVars, bgVars, bg_error, spurious>>

-----------------------------------------------------------------------------
(* BuildBatchGroup and the part of Write that runs without the lock.       *)

Ops(t) == [i \in 1..call[t].kind.ops |-> <<call[t].id, i>>]

\* Mutants of BuildBatchGroup: a sync write joins a leader that does not sync;
\* a write that cannot join is passed over.
BuildBatchGroupUnsynced ==
    LET first == call[writers[1]].kind
        max_size == IF first.ops <= SmallBatch THEN first.ops + SmallBatch ELSE MaxBatch
        Size[i \in 0..Len(writers)] ==
            IF i = 0 THEN 0 ELSE Size[i-1] + call[writers[i]].kind.ops
        Fits(i) == call[writers[i]].kind.null \/ Size[i] <= max_size
        Lengths == {n \in DOMAIN writers : \A i \in 2..n : Fits(i)}
    IN  SubSeq(writers, 1, CHOOSE n \in Lengths : \A m \in Lengths : m <= n)

BuildBatchGroupSkips ==
    LET Fits(t) == ~(call[t].kind.sync /\ ~call[writers[1]].kind.sync)
    IN  SelectSeq(writers, Fits)

\* The writers behind the first whose batches are taken along: up to the first
\* that wants a sync the leader does not do, or that makes the batch too big.
BuildBatchGroup ==
    LET first == call[writers[1]].kind
        max_size == IF first.ops <= SmallBatch THEN first.ops + SmallBatch ELSE MaxBatch
        Size[i \in 0..Len(writers)] ==
            IF i = 0 THEN 0 ELSE Size[i-1] + call[writers[i]].kind.ops
        Fits(i) == /\ ~(call[writers[i]].kind.sync /\ ~first.sync)
                   /\ call[writers[i]].kind.null \/ Size[i] <= max_size
        Lengths == {n \in DOMAIN writers : \A i \in 2..n : Fits(i)}
    IN  SubSeq(writers, 1, CHOOSE n \in Lengths : \A m \in Lengths : m <= n)

\* There is room: the lock is given up for the log.
StartGroup(t) ==
    /\ InRoom(t) /\ bg_error = "ok" /\ ~Slow(t) /\ HasRoom(t) /\ ~call[t].kind.null
    /\ group' = [threads |-> BuildBatchGroup, first |-> last_sequence + 1, inserted |-> 0,
                 ops |-> FlattenSeq([i \in DOMAIN BuildBatchGroup |-> Ops(BuildBatchGroup[i])])]
    /\ pc' = [pc EXCEPT ![t] = "append"] /\ mutex' = "free"
    /\ UNCHANGED <<queueVars, dataVars, memVars, bgVars, bg_error, failed, spurious>>

\* A NULL batch: nothing to log.
NullBatch(t) ==
    /\ InRoom(t) /\ bg_error = "ok" /\ ~Slow(t) /\ HasRoom(t) /\ call[t].kind.null
    /\ Finish(t, t, "ok", pc)
    /\ UNCHANGED <<group, dataVars, memVars, bgVars, bg_error, failed, spurious>>

Go(t, to) == pc' = [pc EXCEPT ![t] = to]

AddRecord(t) ==
    /\ pc[t] = "append"
    /\ \/ /\ log' = Append(log, [file |-> logfile_number, first |-> group.first,
                                 ops |-> group.ops, synced |-> FALSE])
          /\ Go(t, IF call[t].kind.sync THEN "sync" ELSE "insert") /\ UNCHANGED failed
       \/ Fails("append") /\ Go(t, "failed") /\ UNCHANGED log
    /\ UNCHANGED <<mutex, queueVars, group, entries, last_sequence, memVars, bgVars,
                   bg_error, spurious>>

\* Sync makes durable what the file holds, whoever wrote it.
Sync(t) ==
    /\ pc[t] = "sync"
    /\ \/ /\ log' = [i \in DOMAIN log |-> IF log[i].file = logfile_number
                                          THEN [log[i] EXCEPT !.synced = TRUE] ELSE log[i]]
          /\ Go(t, "insert") /\ UNCHANGED failed
       \/ Fails("sync") /\ Go(t, "syncError") /\ UNCHANGED log
    /\ UNCHANGED <<mutex, queueVars, group, entries, last_sequence, memVars, bgVars,
                   bg_error, spurious>>

\* InsertInto puts one operation after the other into the memtable.
InsertInto(t) ==
    /\ pc[t] = "insert"
    /\ IF group.inserted = Len(group.ops)
       THEN Go(t, "inserted") /\ UNCHANGED <<entries, group, mem>>
       ELSE /\ entries' = entries \cup {[seq |-> group.first + group.inserted,
                                         op |-> group.ops[group.inserted + 1]]}
            /\ group' = [group EXCEPT !.inserted = @ + 1]
            /\ mem' = mem + 1
            /\ UNCHANGED pc
    /\ UNCHANGED <<mutex, queueVars, log, last_sequence, logfile_number, imm, bgVars,
                   bg_error, failed, spurious>>

\* Mutant of EndGroup: a failed sync is forgotten, and a group counts as one.
EndGroupOne(t) ==
    /\ pc[t] \in {"inserted", "failed", "syncError"} /\ mutex = "free"
    /\ Finish(t, Last(group.threads), IF pc[t] = "inserted" THEN "ok" ELSE "error", pc)
    /\ last_sequence' = last_sequence + 1
    /\ group' = NoGroup
    /\ UNCHANGED <<bg_error, log, entries, memVars, bgVars, failed, spurious>>

\* The lock is taken again. A failed sync poisons the database.
EndGroup(t) ==
    /\ pc[t] \in {"inserted", "failed", "syncError"} /\ mutex = "free"
    /\ LET poison == pc[t] = "syncError" /\ bg_error = "ok"
       IN  /\ bg_error' = IF poison THEN "sync" ELSE bg_error
           /\ Finish(t, Last(group.threads), IF pc[t] = "inserted" THEN "ok" ELSE "error",
                     IF poison THEN SignalAll(pc) ELSE pc)
    /\ last_sequence' = last_sequence + Len(group.ops)
    /\ group' = NoGroup
    /\ UNCHANGED <<log, entries, memVars, bgVars, failed, spurious>>

\* The caller has its status. CompactRange goes on after its NULL batch, to a
\* range that takes some passes of the background thread.
Return(t) ==
    /\ pc[t] = "returned"
    /\ IF call[t].kind.null /\ call[t].status = "ok"
       THEN /\ Go(t, "flushWoken")
            /\ \E left \in 0..MaxChunks : range' = [range EXCEPT ![t] = [left |-> left, done |-> FALSE]]
       ELSE Go(t, "idle") /\ UNCHANGED range
    /\ UNCHANGED <<mutex, queueVars, group, dataVars, memVars, l0, log_number, flushed, bg, scheduled,
                   manual, bg_error, failed, spurious>>

-----------------------------------------------------------------------------
(* TEST_CompactMemTable after its write, and TEST_CompactRange.            *)

AwaitFlush(t) ==
    /\ pc[t] = "flushWoken" /\ mutex = "free"
    /\ Go(t, IF imm # 0 /\ bg_error = "ok" THEN "flushWait" ELSE "rangeWoken")
    /\ UNCHANGED <<mutex, queueVars, group, dataVars, memVars, bgVars, bg_error, failed, spurious>>

InRange(t) == pc[t] = "rangeWoken" /\ mutex = "free"
Unfinished(t) == ~range[t].done /\ bg_error = "ok"

TakeSlot(t) ==
    /\ InRange(t) /\ Unfinished(t) /\ manual = NoManual
    /\ manual' = t
    /\ scheduled' = MaybeSchedule(scheduled, imm, t, bg_error, l0)
    /\ Go(t, "rangeWait")
    /\ UNCHANGED <<mutex, queueVars, group, dataVars, memVars, l0, log_number, flushed, bg, range,
                   bg_error, failed, spurious>>

AwaitCompaction(t) ==
    /\ InRange(t) /\ Unfinished(t) /\ manual # NoManual
    /\ Go(t, "rangeWait")
    /\ UNCHANGED <<mutex, queueVars, group, dataVars, memVars, bgVars, bg_error, failed, spurious>>

\* Done, or given up: a manual compaction of this call is cancelled.
LeaveRange(t) ==
    /\ InRange(t) /\ ~Unfinished(t)
    /\ manual' = IF manual = t THEN NoManual ELSE manual
    /\ Go(t, "idle")
    /\ UNCHANGED <<mutex, queueVars, group, dataVars, memVars, l0, log_number, flushed, bg, scheduled,
                   range, bg_error, failed, spurious>>

-----------------------------------------------------------------------------
(* The background thread. It runs when scheduled; bg.at is where it is      *)
(* when it does not hold the lock.                                         *)

EndCallQuiet(i, m, error, files) ==
    /\ bg' = Idle
    /\ scheduled' = MaybeSchedule(FALSE, i, m, error, files)
    /\ UNCHANGED pc

\* The end of BackgroundCall, with the lock: reschedule and wake everybody.
EndCall(i, m, error, files) ==
    /\ bg' = Idle
    /\ scheduled' = MaybeSchedule(FALSE, i, m, error, files)
    /\ pc' = SignalAll(pc)

\* BackgroundCall and BackgroundCompaction up to the first unlock.
BackgroundCall ==
    /\ bg.at = "idle" /\ scheduled /\ mutex = "free"
    /\ \/ /\ bg_error # "ok"
          /\ EndCall(imm, manual, bg_error, l0) /\ UNCHANGED <<manual, range>>
       \/ /\ bg_error = "ok" /\ imm # 0
          /\ bg' = [Idle EXCEPT !.at = "flush", !.table = imm]
          /\ UNCHANGED <<pc, scheduled, manual, range>>
       \/ /\ bg_error = "ok" /\ imm = 0 /\ manual # NoManual /\ range[manual].left = 0
          /\ range' = [range EXCEPT ![manual].done = TRUE]
          /\ manual' = NoManual
          /\ EndCall(imm, NoManual, bg_error, l0)
       \/ /\ bg_error = "ok" /\ imm = 0 /\ manual # NoManual /\ range[manual].left > 0
          /\ \E n \in 0..l0 : bg' = [Idle EXCEPT !.at = "merge", !.is_manual = TRUE, !.inputs = n]
          /\ UNCHANGED <<pc, scheduled, manual, range>>
       \/ /\ bg_error = "ok" /\ imm = 0 /\ manual = NoManual /\ NeedsCompaction
          /\ \E n \in 1..l0 : bg' = [Idle EXCEPT !.at = "merge", !.inputs = n]
          /\ UNCHANGED <<pc, scheduled, manual, range>>
       \/ /\ bg_error = "ok" /\ imm = 0 /\ manual = NoManual /\ ~NeedsCompaction
          /\ EndCall(imm, manual, bg_error, l0) /\ UNCHANGED <<manual, range>>
    /\ UNCHANGED <<mutex, queueVars, group, dataVars, memVars, l0, log_number, flushed, bg_error,
                   failed, spurious>>

\* DoCompactionWork gives way to a full memtable.
MergeYields ==
    /\ bg.at = "merge" /\ imm # 0 /\ mutex = "free"
    /\ bg' = [bg EXCEPT !.at = "flush", !.merging = TRUE, !.table = imm]
    /\ UNCHANGED <<mutex, pc, queueVars, group, dataVars, memVars, l0, log_number, flushed, scheduled,
                   manual, range, bg_error, failed, spurious>>

\* The table of the memtable is written. Logs before the current one will not
\* be needed: logfile_number_ is read again here.
TableWritten ==
    /\ bg.at = "flush" /\ mutex = "free"
    /\ bg' = [bg EXCEPT !.at = "install", !.edit = logfile_number]
    /\ UNCHANGED <<mutex, pc, queueVars, group, dataVars, memVars, l0, log_number, flushed, scheduled,
                   manual, range, bg_error, failed, spurious>>

\* LogAndApply is done. The table may go to level 0 or deeper.
MemTableCompacted ==
    /\ bg.at = "install" /\ mutex = "free"
    /\ log_number' = bg.edit
    /\ flushed' = flushed \cup {bg.table}
    /\ imm' = 0
    /\ l0' \in {l0, l0 + 1}
    /\ IF bg.merging
       THEN /\ bg' = [bg EXCEPT !.at = "merge", !.merging = FALSE]
            /\ pc' = SignalAll(pc) /\ UNCHANGED scheduled
       ELSE EndCall(0, manual, bg_error, l0')
    /\ UNCHANGED <<mutex, queueVars, group, dataVars, logfile_number, mem, manual, range,
                   bg_error, failed, spurious>>

Recorded(error) == IF bg_error = "ok" THEN error ELSE bg_error

\* WriteLevel0Table or LogAndApply fails; a merge under way goes on.
FlushFails ==
    /\ bg.at \in {"flush", "install"} /\ mutex = "free" /\ Fails("flush")
    /\ bg_error' = Recorded("background")
    /\ IF bg.merging
       THEN /\ bg' = [bg EXCEPT !.at = "merge", !.merging = FALSE]
            /\ pc' = SignalAll(pc) /\ UNCHANGED scheduled
       ELSE EndCall(imm, manual, bg_error', l0)
    /\ UNCHANGED <<mutex, queueVars, group, dataVars, memVars, l0, log_number, flushed, manual, range,
                   spurious>>

\* The end of BackgroundCompaction for a manual one: m is read again.
ManualPass(ok) ==
    IF ~bg.is_manual THEN UNCHANGED <<manual, range>>
    ELSE /\ manual' = NoManual
         /\ range' = [range EXCEPT ![manual] = [left |-> @.left - 1, done |-> ~ok]]

MergeDone ==
    /\ bg.at = "merge" /\ mutex = "free" /\ (bg.is_manual => manual # NoManual)
    /\ \/ /\ l0' = l0 - bg.inputs
          /\ ManualPass(TRUE) /\ UNCHANGED <<bg_error, failed>>
       \/ /\ Fails("merge") /\ bg_error' = Recorded("background")
          /\ ManualPass(FALSE) /\ UNCHANGED l0
    /\ EndCall(imm, manual', bg_error', l0')
    /\ UNCHANGED <<mutex, queueVars, group, dataVars, memVars, log_number, flushed, spurious>>

\* The manual compaction was cancelled while the lock was free: m is NULL, and
\* m->done is read through it.
MergeLosesManual ==
    /\ bg.at = "merge" /\ mutex = "free" /\ bg.is_manual /\ manual = NoManual
    /\ bg' = [Idle EXCEPT !.at = "crashed"]
    /\ mutex' = "background"
    /\ UNCHANGED <<pc, queueVars, group, dataVars, memVars, l0, log_number, flushed, scheduled, manual,
                   range, bg_error, failed, spurious>>

-----------------------------------------------------------------------------
NoCall == [kind |-> [ops |-> 0, sync |-> FALSE, null |-> TRUE], id |-> <<"none", 0>>,
           done |-> TRUE, status |-> "none", delay |-> FALSE, force |-> FALSE, file |-> 0]

Init ==
    /\ mutex = "free" /\ bg_error = "ok" /\ failed = {} /\ spurious = 0
    /\ pc = [t \in Threads |-> "idle"]
    /\ call = [t \in Threads |-> NoCall] /\ calls = [t \in Threads |-> 0]
    /\ writers = <<>> /\ group = NoGroup
    /\ log = <<>> /\ entries = {} /\ last_sequence = 0
    /\ logfile_number = 1 /\ mem = 0 /\ imm = 0
    /\ l0 \in 0..kL0_StopWritesTrigger /\ log_number = 1 /\ flushed = {}
    /\ bg = Idle /\ scheduled = NeedsCompaction
    /\ manual = NoManual /\ range = [t \in Threads |-> [left |-> 0, done |-> TRUE]]

ThreadStep(t) ==
    \/ Woken(t) \/ YieldError(t) \/ Sleep(t) \/ WaitForBackground(t) \/ Relock(t)
    \/ SwitchMemTable(t) \/ NewLogFails(t) \/ StartGroup(t) \/ NullBatch(t)
    \/ AddRecord(t) \/ Sync(t) \/ InsertInto(t) \/ EndGroup(t) \/ Return(t)
    \/ AwaitFlush(t) \/ TakeSlot(t) \/ AwaitCompaction(t) \/ LeaveRange(t)

BackgroundStep ==
    \/ BackgroundCall \/ MergeYields \/ TableWritten \/ MemTableCompacted
    \/ FlushFails \/ MergeDone \/ MergeLosesManual

Next ==
    \/ \E t \in Threads : ThreadStep(t) \/ SpuriousWakeUp(t) \/ \E k \in Kinds : Write(t, k)
    \/ BackgroundStep

\* Every thread that can run does: nobody is kept from a free mutex for ever,
\* since the calls are finitely many.
Spec == Init /\ [][Next]_vars
Fair == Spec /\ WF_vars(BackgroundStep) /\ \A t \in Threads : WF_vars(ThreadStep(t))

-----------------------------------------------------------------------------
(* Properties.                                                             *)

\* The mutex is held, and a group exists, exactly where the program counters say.
TypeOK ==
    /\ mutex \in Threads => pc[mutex] = "room"
    /\ \A t \in Threads : pc[t] = "room" => mutex = t
    /\ (group # NoGroup) = (\E t \in Threads :
          pc[t] \in {"append", "sync", "insert", "inserted", "failed", "syncError"})

Visible(op) == \E e \in entries : e.op = op /\ e.seq <= last_sequence
OpsOf(id, n) == {<<id, i>> : i \in 1..n}

\* A caller learns the truth whoever did the work: OK means that every operation
\* of its batch is in the memtable and in the log, synced if it asked for that;
\* an error means that none is to be seen (db_impl.cc:1248-1257).
OutcomeIsTrue ==
    \A t \in Threads :
        LET k == call[t].kind
            all == OpsOf(call[t].id, k.ops)
        IN  /\ (pc[t] = "returned" /\ call[t].status = "ok") =>
                  /\ \A op \in all : Visible(op)
                  /\ ~k.null => \E i \in DOMAIN log :
                        all \subseteq ToSet(log[i].ops) /\ (k.sync => log[i].synced)
            /\ (pc[t] = "returned" /\ call[t].status = "error") => \A op \in all : ~Visible(op)

\* Log and memtable agree on sequence numbers, so that recovery replays what
\* was seen: the operations of a log record have its numbers, and no number is
\* given twice (db_impl.cc:1211-1216).
LogMatchesMemory ==
    \A e \in entries :
        /\ \A f \in entries : e.seq = f.seq => e = f
        /\ \E i \in DOMAIN log : \E j \in DOMAIN log[i].ops :
              log[i].ops[j] = e.op /\ log[i].first + j - 1 = e.seq

\* edit.SetLogNumber(logfile_number_) says that earlier logs are not needed
\* (db_impl.cc:552), after an unlock in which the number might have moved: the
\* memtable of each of them is in a table by then.
LogsCoverMemory == 1..log_number - 1 \subseteq flushed

\* Every call returns, unless the process dies of what CancelIsSafe is about: no
\* signal is lost, no writer waits for a compaction that will not come, and an
\* error releases those who wait (db_impl.cc:1202-1207, 1345-1353, 607-614).
EveryCallReturns ==
    \A t \in Threads : pc[t] # "idle" ~> (pc[t] = "idle" \/ bg.at = "crashed")

\* The writes that begin with number n, and those in effect up to each number,
\* in order.
Begun(all, n) == {e.op[1] : e \in {f \in all : f.seq = n /\ f.op[2] = 1}}
IdsUpTo(all, last) ==
    LET UpTo[n \in 0..last] ==
            IF n = 0 THEN <<>>
            ELSE IF Begun(all, n) = {} THEN UpTo[n-1]
            ELSE Append(UpTo[n-1], CHOOSE id \in Begun(all, n) : TRUE)
    IN  UpTo
EffectiveIds == IdsUpTo(entries, last_sequence)[last_sequence]

Outcome(t) ==
    IF pc[t] \notin {"idle", "flushWait", "flushWoken", "rangeWait", "rangeWoken"}
    THEN IF call[t].done THEN call[t].status ELSE "pending"
    ELSE "none"

Promise == INSTANCE Commits WITH
    NoWrite <- NoCall.id, Batches <- Threads \X (1..MaxCalls), committed <- EffectiveIds,
    queue <- [i \in DOMAIN writers |->
                <<writers[i], IF call[writers[i]].kind.null THEN NoCall.id ELSE call[writers[i]].id>>],
    outcome <- [t \in Threads |-> Outcome(t)]

\* Write keeps the promise of Commits: calls take effect whole, in the order in
\* which they came, between their start and their return.
KeepsPromise == Promise!Spec

\* db_impl.h:101, "compact even if there is room?": a NULL batch that returns OK
\* has had the memtable switched since it was queued.
ForcedSwitch ==
    \A t \in Threads :
        (pc[t] = "returned" /\ call[t].kind.null /\ call[t].status = "ok")
            => logfile_number > call[t].file

\* db_impl.cc:616-618, "Cancel my manual compaction since we aborted early for
\* some reason": the background thread survives it.
CancelIsSafe == bg.at # "crashed"
=============================================================================
