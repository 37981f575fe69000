-------------------------- MODULE WriteQueueProofs --------------------------
(***************************************************************************)
(* The write queue for any number of threads and calls, whatever fails.    *)
(*                                                                         *)
(* The logs: none is given up before its memtable is in a table.           *)
(* The queue: one thread at a time uses the log, the memtable and          *)
(* tmp_batch_ without the lock, and no waiting thread is forgotten.        *)
(* The answers: what a call returns is true of the log and the memtable.   *)
(* The promise: every step is a step of Commits or none.                   *)
(*                                                                         *)
(* An induction over the length of a group is an argument about sets of    *)
(* natural numbers here (lemma Induction), for the library's induction     *)
(* theorems take an operator as a parameter.                               *)
(***************************************************************************)
EXTENDS WriteQueue, WellFoundedInduction, SequenceTheorems, TLAPS

-----------------------------------------------------------------------------
(* The logs. Only one memtable is on its way to a table, that of the log   *)
(* before the current one, and while it is there no other log is begun: so *)
(* logfile_number_ has not moved when the background thread reads it again.*)

Background ==
    [at : {"idle", "flush", "install", "merge", "crashed"}, merging : BOOLEAN, is_manual : BOOLEAN,
     inputs : Int, table : Nat, edit : Nat]

Flushing == bg.at \in {"flush", "install"}

\* The first log whose memtable is not in a table.
OldestNeeded == IF imm # 0 THEN imm ELSE logfile_number

LogInv ==
    /\ bg \in Background
    /\ logfile_number \in Nat \ {0}
    /\ imm # 0 => imm = logfile_number - 1
    /\ log_number \in Nat /\ log_number <= OldestNeeded
    /\ 1..OldestNeeded - 1 \subseteq flushed
    /\ Flushing => imm # 0 /\ bg.table = imm
    /\ bg.at = "install" => bg.edit = logfile_number

logVars == <<logfile_number, imm, log_number, flushed, bg>>

LEMMA LogInit == Init => LogInv
BY DEF Init, LogInv, Idle, Background, Flushing, OldestNeeded

LEMMA LogStutter == LogInv /\ UNCHANGED logVars => LogInv'
BY DEF LogInv, logVars, Flushing, OldestNeeded

\* The background thread stands where there is nothing to flush.
LEMMA LogIdle ==
    ASSUME LogInv, bg' \in Background, bg'.at \notin {"flush", "install"},
           UNCHANGED <<logfile_number, imm, log_number, flushed>>
    PROVE  LogInv'
BY DEF LogInv, Flushing, OldestNeeded

LEMMA LogSwitch == LogInv /\ (\E t \in Threads : SwitchMemTable(t)) => LogInv'
<1> SUFFICES ASSUME LogInv, NEW t \in Threads, SwitchMemTable(t)
             PROVE  LogInv'
  OBVIOUS
<1>1. imm = 0 /\ ~Flushing
  BY DEF SwitchMemTable, NeedsNewMemTable, LogInv
<1>2. /\ imm' = logfile_number /\ logfile_number' = logfile_number + 1
      /\ UNCHANGED <<log_number, flushed, bg>>
  BY DEF SwitchMemTable
<1> QED
  BY <1>1, <1>2 DEF LogInv, Flushing, OldestNeeded

LEMMA LogBackgroundCall == LogInv /\ BackgroundCall => LogInv'
<1> SUFFICES ASSUME LogInv, BackgroundCall
             PROVE  LogInv'
  OBVIOUS
<1>1. UNCHANGED <<logfile_number, imm, log_number, flushed>>
  BY DEF BackgroundCall, memVars
<1>2. CASE bg' = Idle
  BY <1>1, <1>2, LogIdle DEF Idle, Background
<1>3. CASE imm # 0 /\ bg' = [Idle EXCEPT !.at = "flush", !.table = imm]
  <2>1. imm \in Nat
    BY <1>3 DEF LogInv
  <2>2. bg' = [at |-> "flush", merging |-> FALSE, is_manual |-> FALSE, inputs |-> 0,
               table |-> imm, edit |-> 0]
    BY <1>3 DEF Idle
  <2>3. bg' \in Background /\ bg'.at = "flush" /\ bg'.table = imm
    BY <2>1, <2>2 DEF Background
  <2> QED
    BY <1>1, <1>3, <2>3 DEF LogInv, Flushing, OldestNeeded
<1>4. ASSUME NEW n \in Int, NEW manually \in BOOLEAN,
             bg' = [at |-> "merge", merging |-> FALSE, is_manual |-> manually, inputs |-> n,
                    table |-> 0, edit |-> 0]
      PROVE  LogInv'
  <2>1. bg' \in Background /\ bg'.at = "merge"
    BY <1>4 DEF Background
  <2> QED
    BY <1>1, <2>1, LogIdle
<1>5. CASE \E n \in 0..l0 : bg' = [Idle EXCEPT !.at = "merge", !.is_manual = TRUE, !.inputs = n]
  <2>1. PICK n \in 0..l0 : bg' = [Idle EXCEPT !.at = "merge", !.is_manual = TRUE, !.inputs = n]
    BY <1>5
  <2>2. n \in Int
    OBVIOUS
  <2>3. bg' = [at |-> "merge", merging |-> FALSE, is_manual |-> TRUE, inputs |-> n,
               table |-> 0, edit |-> 0]
    BY <2>1 DEF Idle
  <2> QED
    BY <1>4, <2>2, <2>3
<1>6. CASE \E n \in 1..l0 : bg' = [Idle EXCEPT !.at = "merge", !.inputs = n]
  <2>1. PICK n \in 1..l0 : bg' = [Idle EXCEPT !.at = "merge", !.inputs = n]
    BY <1>6
  <2>2. n \in Int
    OBVIOUS
  <2>3. bg' = [at |-> "merge", merging |-> FALSE, is_manual |-> FALSE, inputs |-> n,
               table |-> 0, edit |-> 0]
    BY <2>1 DEF Idle
  <2> QED
    BY <1>4, <2>2, <2>3
<1> QED
  BY <1>2, <1>3, <1>5, <1>6 DEF BackgroundCall, EndCall

LEMMA LogYields == LogInv /\ MergeYields => LogInv'
<1> SUFFICES ASSUME LogInv, MergeYields
             PROVE  LogInv'
  OBVIOUS
<1>1. imm # 0 /\ imm \in Nat /\ UNCHANGED <<logfile_number, imm, log_number, flushed>>
  BY DEF MergeYields, LogInv, memVars
<1>2. bg' \in Background /\ bg'.at = "flush" /\ bg'.table = imm
  BY <1>1 DEF MergeYields, LogInv, Background
<1> QED
  BY <1>1, <1>2 DEF LogInv, Flushing, OldestNeeded

LEMMA LogTable == LogInv /\ TableWritten => LogInv'
<1> SUFFICES ASSUME LogInv, TableWritten
             PROVE  LogInv'
  OBVIOUS
<1>1. UNCHANGED <<logfile_number, imm, log_number, flushed>> /\ Flushing
  BY DEF TableWritten, memVars, Flushing
<1>2. bg' \in Background /\ bg'.at = "install" /\ bg'.table = bg.table /\ bg'.edit = logfile_number
  BY DEF TableWritten, LogInv, Background
<1> QED
  BY <1>1, <1>2 DEF LogInv, Flushing, OldestNeeded

LEMMA EndsWell ==
    ASSUME LogInv, \/ bg' = Idle
                   \/ bg' = [bg EXCEPT !.at = "merge", !.merging = FALSE]
                   \/ bg' = [Idle EXCEPT !.at = "crashed"]
    PROVE  bg' \in Background /\ bg'.at \in {"idle", "merge", "crashed"}
<1>1. bg \in Background /\ Idle \in Background
  BY DEF LogInv, Idle, Background
<1>2. CASE bg' = Idle
  BY <1>1, <1>2 DEF Idle
<1>3. CASE bg' = [bg EXCEPT !.at = "merge", !.merging = FALSE]
  BY <1>1, <1>3 DEF Background
<1>4. CASE bg' = [Idle EXCEPT !.at = "crashed"]
  BY <1>1, <1>4 DEF Background
<1> QED
  BY <1>2, <1>3, <1>4

LEMMA LogCompacted == LogInv /\ MemTableCompacted => LogInv'
<1> SUFFICES ASSUME LogInv, MemTableCompacted
             PROVE  LogInv'
  OBVIOUS
<1>1. /\ imm # 0 /\ imm = logfile_number - 1 /\ bg.table = imm /\ bg.edit = logfile_number
      /\ logfile_number \in Nat \ {0}
  BY DEF MemTableCompacted, LogInv, Flushing
<1>2. /\ log_number' = logfile_number /\ flushed' = flushed \cup {imm} /\ imm' = 0
      /\ logfile_number' = logfile_number
  BY <1>1 DEF MemTableCompacted
<1>3. 1..logfile_number - 1 \subseteq flushed'
  BY <1>1, <1>2 DEF LogInv, OldestNeeded
<1>4. bg' = Idle \/ bg' = [bg EXCEPT !.at = "merge", !.merging = FALSE]
  BY DEF MemTableCompacted, EndCall
<1>5. bg' \in Background /\ bg'.at \in {"idle", "merge", "crashed"}
  BY <1>4, EndsWell
<1> QED
  BY <1>1, <1>2, <1>3, <1>5 DEF LogInv, Flushing, OldestNeeded

LEMMA LogBackgroundEnds == LogInv /\ (FlushFails \/ MergeDone \/ MergeLosesManual) => LogInv'
<1> SUFFICES ASSUME LogInv, FlushFails \/ MergeDone \/ MergeLosesManual
             PROVE  LogInv'
  OBVIOUS
<1>1. UNCHANGED <<logfile_number, imm, log_number, flushed>>
  BY DEF FlushFails, MergeDone, MergeLosesManual, memVars
<1>2. bg' = Idle \/ bg' = [bg EXCEPT !.at = "merge", !.merging = FALSE]
        \/ bg' = [Idle EXCEPT !.at = "crashed"]
  BY DEF FlushFails, MergeDone, MergeLosesManual, EndCall
<1>3. bg' \in Background /\ bg'.at \in {"idle", "merge", "crashed"}
  BY <1>2, EndsWell
<1> QED
  BY <1>1, <1>3, LogIdle

LEMMA LogStep == LogInv /\ [Next]_vars => LogInv'
<1> SUFFICES ASSUME LogInv, [Next]_vars
             PROVE  LogInv'
  OBVIOUS
<1>1. CASE BackgroundStep
  BY <1>1, LogBackgroundCall, LogYields, LogTable, LogCompacted, LogBackgroundEnds DEF BackgroundStep
<1>2. ASSUME NEW t \in Threads, SwitchMemTable(t)
      PROVE  LogInv'
  BY <1>2, LogSwitch
<1>3. ASSUME NEW t \in Threads, ThreadStep(t), ~SwitchMemTable(t)
      PROVE  LogInv'
  <2>1. UNCHANGED logVars
    BY <1>3 DEF ThreadStep, Woken, YieldError, Sleep, WaitForBackground, Relock, NewLogFails, StartGroup,
         NullBatch, AddRecord, Sync, InsertInto, EndGroup, Return, AwaitFlush, TakeSlot, AwaitCompaction,
         LeaveRange, logVars, memVars, bgVars
  <2> QED
    BY <2>1, LogStutter
<1>4. ASSUME NEW t \in Threads, SpuriousWakeUp(t) \/ \E k \in Kinds : Write(t, k)
      PROVE  LogInv'
  BY <1>4, LogStutter DEF SpuriousWakeUp, Write, logVars, memVars, bgVars
<1>5. CASE UNCHANGED vars
  BY <1>5, LogStutter DEF vars, logVars, memVars, bgVars
<1> QED
  BY <1>1, <1>2, <1>3, <1>4, <1>5 DEF Next

\* edit.SetLogNumber(logfile_number_) never gives up a log too early, whatever
\* fails and however flushes, merges and writers come in between
\* (db_impl.cc:540-565): WriteQueue's LogsCoverMemory.
THEOREM LogsCoverMemorySafe == Spec => []LogsCoverMemory
<1>1. LogInv => LogsCoverMemory
  BY DEF LogInv, LogsCoverMemory, OldestNeeded
<1> QED
  BY <1>1, LogInit, LogStep, PTL DEF Spec
-----------------------------------------------------------------------------
(* The queue. A thread that is past its wait is the head of the queue, and *)
(* stays it until it takes itself and its group off.                       *)

\* Using log_, mem_ and tmp_batch_ without the lock.
UsesFiles == {"append", "sync", "insert", "inserted", "failed", "syncError"}
Leads == {"room", "asleep", "bgWait", "bgWoken"} \cup UsesFiles
Waits == {"waiting", "woken"}
Places == {"idle", "returned", "flushWait", "flushWoken", "rangeWait", "rangeWoken"} \cup Waits \cup Leads

Call == [kind : Kinds \cup {NoCall.kind}, id : (Threads \X Int) \cup {NoCall.id}, done : BOOLEAN,
         status : {"none", "ok", "error"}, delay : BOOLEAN, force : BOOLEAN, file : Nat]

InQueue(t) == \E i \in 1..Len(writers) : writers[i] = t

Fields(g) == [threads |-> g.threads, first |-> g.first, ops |-> g.ops, inserted |-> g.inserted]

QueueTypeOK ==
    /\ pc \in [Threads -> Places]
    /\ call \in [Threads -> Call]
    /\ calls \in [Threads -> Nat]
    /\ writers \in Seq(Threads)
    /\ group = Fields(group)

HeadLeads == \A t \in Threads : pc[t] \in Leads => Len(writers) > 0 /\ writers[1] = t
NobodyForgotten == \A t \in Threads : pc[t] \in Waits /\ ~call[t].done => InQueue(t)
GroupIsFront ==
    (\E t \in Threads : pc[t] \in UsesFiles) =>
        \E k \in 1..Len(writers) : group.threads = SubSeq(writers, 1, k)

QueueInv == QueueTypeOK /\ HeadLeads /\ NobodyForgotten /\ GroupIsFront

LEMMA QueueInit == Init => QueueInv
<1> SUFFICES ASSUME Init
             PROVE  QueueInv
  OBVIOUS
<1>1. NoCall \in Call
  BY DEF NoCall, Call
<1>2. QueueTypeOK
  BY <1>1 DEF Init, QueueTypeOK, Places, NoGroup, Fields
<1>3. \A t \in Threads : pc[t] = "idle"
  BY DEF Init
<1> QED
  BY <1>2, <1>3 DEF QueueInv, HeadLeads, NobodyForgotten, GroupIsFront, Leads, Waits, UsesFiles

\* One thread goes on, with the queue as it is; a group may be at work.
LEMMA Moves ==
    ASSUME QueueInv, NEW t \in Threads, NEW q \in Places, pc' = [pc EXCEPT ![t] = q],
           q \in Leads => pc[t] \in Leads,
           q \in Waits => pc[t] \in Waits,
           q \in UsesFiles => pc[t] \in UsesFiles,
           UNCHANGED <<call, calls, writers>>, UNCHANGED group
    PROVE  QueueInv'
<1>1. \A u \in Threads : pc'[u] = IF u = t THEN q ELSE pc[u]
  BY DEF QueueInv, QueueTypeOK
<1>2. QueueTypeOK'
  BY DEF QueueInv, QueueTypeOK
<1>3. HeadLeads'
  BY <1>1 DEF QueueInv, HeadLeads
<1>4. NobodyForgotten'
  BY <1>1 DEF QueueInv, NobodyForgotten, InQueue
<1>5. GroupIsFront'
  BY <1>1 DEF QueueInv, GroupIsFront
<1> QED
  BY <1>2, <1>3, <1>4, <1>5 DEF QueueInv

\* bg_cv_.SignalAll() makes nobody a leader.
LEMMA Signals ==
    ASSUME QueueInv, pc' = SignalAll(pc), UNCHANGED <<call, calls, writers, group>>
    PROVE  QueueInv'
<1>1. \A u \in Threads : /\ pc'[u] \in Places
                         /\ pc'[u] \in Leads <=> pc[u] \in Leads
                         /\ pc'[u] \in UsesFiles <=> pc[u] \in UsesFiles
                         /\ pc'[u] \in Waits <=> pc[u] \in Waits
  BY DEF QueueInv, QueueTypeOK, SignalAll, Places, Leads, UsesFiles, Waits
<1>2. pc' \in [Threads -> Places]
  BY <1>1 DEF SignalAll
<1> QED
  BY <1>1, <1>2 DEF QueueInv, QueueTypeOK, HeadLeads, NobodyForgotten, GroupIsFront, InQueue

\* Switching a flag of its own call, the leader stays where it is or waits.
LEMMA LeaderGoesOn ==
    ASSUME QueueInv, NEW t \in Threads, pc[t] \in Leads \ UsesFiles, NEW q \in Leads \ UsesFiles,
           pc' = [pc EXCEPT ![t] = q],
           call' = [call EXCEPT ![t].delay = FALSE] \/ call' = [call EXCEPT ![t].force = FALSE],
           UNCHANGED <<calls, writers, group>>
    PROVE  QueueInv'
<1>1. q \in Places /\ \A u \in Threads : pc'[u] = IF u = t THEN q ELSE pc[u]
  BY DEF QueueInv, QueueTypeOK, Places
<1>2. call' \in [Threads -> Call] /\ \A u \in Threads : call'[u].done = call[u].done
  <2>1. call \in [Threads -> Call] /\ call[t] \in Call
    BY DEF QueueInv, QueueTypeOK
  <2>2. CASE call' = [call EXCEPT ![t].delay = FALSE]
    <3>1. [call[t] EXCEPT !.delay = FALSE] \in Call /\ [call[t] EXCEPT !.delay = FALSE].done = call[t].done
      BY <2>1 DEF Call
    <3> QED
      BY <2>1, <2>2, <3>1
  <2>3. CASE call' = [call EXCEPT ![t].force = FALSE]
    <3>1. [call[t] EXCEPT !.force = FALSE] \in Call /\ [call[t] EXCEPT !.force = FALSE].done = call[t].done
      BY <2>1 DEF Call
    <3> QED
      BY <2>1, <2>3, <3>1
  <2> QED
    BY <2>2, <2>3
<1>3. QueueTypeOK'
  BY <1>1, <1>2 DEF QueueInv, QueueTypeOK
<1>4. HeadLeads' /\ GroupIsFront'
  BY <1>1 DEF QueueInv, HeadLeads, GroupIsFront
<1>5. q \notin Waits
  BY DEF Leads, Waits, UsesFiles
<1>6. NobodyForgotten'
  BY <1>1, <1>2, <1>5 DEF QueueInv, NobodyForgotten, InQueue
<1> QED
  BY <1>3, <1>4, <1>6 DEF QueueInv

\* What is left of a queue when its first n have gone.
LEMMA RestOfQueue ==
    ASSUME NEW s \in Seq(Threads), NEW n \in 1..Len(s)
    PROVE  LET rest == SubSeq(s, n + 1, Len(s))
           IN  /\ rest \in Seq(Threads)
               /\ Len(rest) = Len(s) - n
               /\ \A i \in 1..Len(rest) : rest[i] = s[n + i]
<1> DEFINE rest == SubSeq(s, n + 1, Len(s))
<1>1. Len(s) \in Nat /\ n \in Nat /\ n <= Len(s)
  OBVIOUS
<1>2. \A i \in n + 1 .. Len(s) : s[i] \in Threads
  OBVIOUS
<1>3. rest \in Seq(Threads)
  BY <1>1, <1>2, SubSeqProperties
<1>4. Len(rest) = IF n + 1 <= Len(s) THEN Len(s) - (n + 1) + 1 ELSE 0
  BY <1>1, <1>2, SubSeqProperties
<1>5. \A i \in 1 .. Len(s) - (n + 1) + 1 : rest[i] = s[(n + 1) + i - 1]
  BY <1>1, <1>2, SubSeqProperties
<1> HIDE DEF rest
<1>6. Len(rest) = Len(s) - n
  BY <1>1, <1>4
<1>7. \A i \in 1..Len(rest) : rest[i] = s[n + i]
  <2> SUFFICES ASSUME NEW i \in 1..Len(rest) PROVE rest[i] = s[n + i]
    OBVIOUS
  <2>1. i \in 1 .. Len(s) - (n + 1) + 1 /\ (n + 1) + i - 1 = n + i
    BY <1>1, <1>6
  <2> QED
    BY <1>5, <2>1
<1> QED
  BY <1>3, <1>6, <1>7 DEF rest

\* The head takes itself and the writers up to last off: nobody leads, and who
\* still waits is behind them.
LEMMA Finishes ==
    ASSUME QueueInv, NEW t \in Threads, pc[t] \in Leads, NEW last,
           NEW m \in 1..Len(writers), writers[m] = last,
           NEW status \in {"ok", "error"}, NEW p, p = pc \/ p = SignalAll(pc),
           Finish(t, last, status, p),
           group' = NoGroup \/ group' = group
    PROVE  QueueInv'
<1> DEFINE n == CHOOSE i \in DOMAIN writers : writers[i] = last
           rest == SubSeq(writers, n + 1, Len(writers))
           Ready == {writers[i] : i \in 1..n} \ {t}
           Signalled == Ready \cup (IF rest = <<>> THEN {} ELSE {rest[1]})
<1>1. writers \in Seq(Threads) /\ Len(writers) \in Nat /\ DOMAIN writers = 1..Len(writers)
  BY DEF QueueInv, QueueTypeOK
<1>2. n \in 1..Len(writers)
  BY <1>1
<1>3. /\ writers' = rest
      /\ call' = [u \in Threads |-> IF u \in Ready \cup {t}
                                    THEN [call[u] EXCEPT !.done = TRUE, !.status = status]
                                    ELSE call[u]]
      /\ pc' = [u \in Threads |-> IF u = t THEN "returned"
                                  ELSE IF u \in Signalled /\ p[u] = "waiting" THEN "woken" ELSE p[u]]
      /\ UNCHANGED calls
  BY DEF Finish
<1> HIDE DEF n
<1>4. /\ rest \in Seq(Threads)
      /\ Len(rest) = Len(writers) - n
      /\ \A i \in 1..Len(rest) : rest[i] = writers[n + i]
  BY <1>1, <1>2, RestOfQueue DEF QueueInv, QueueTypeOK
<1> HIDE DEF rest
<1>5. \A u \in Threads : /\ p[u] \in Places
                         /\ p[u] \in Leads <=> pc[u] \in Leads
                         /\ p[u] \in Waits <=> pc[u] \in Waits
  BY DEF QueueInv, QueueTypeOK, SignalAll, Places, Leads, UsesFiles, Waits
<1>6. \A u \in Threads : pc'[u] \in Places /\ pc'[u] \notin Leads
  <2>1. \A u \in Threads : pc[u] \in Leads => u = t
    BY DEF QueueInv, HeadLeads
  <2> QED
    BY <1>3, <1>5, <2>1 DEF Places, Leads, Waits, UsesFiles
<1>7. \A u \in Threads : pc'[u] \in Waits => pc[u] \in Waits
  BY <1>3, <1>5 DEF Waits
<1>8. call' \in [Threads -> Call]
      /\ \A u \in Threads : call'[u].done = IF u \in Ready \cup {t} THEN TRUE ELSE call[u].done
  <2>1. call \in [Threads -> Call]
    BY DEF QueueInv, QueueTypeOK
  <2> DEFINE Ended(c) == [c EXCEPT !.done = TRUE, !.status = status]
  <2>2. \A c \in Call : Ended(c) \in Call /\ Ended(c).done = TRUE
    <3> SUFFICES ASSUME NEW c \in Call
                 PROVE  Ended(c) \in Call /\ Ended(c).done = TRUE
      OBVIOUS
    <3> QED
      BY DEF Call
  <2>3. call' = [u \in Threads |-> IF u \in Ready \cup {t} THEN Ended(call[u]) ELSE call[u]]
    BY <1>3
  <2> HIDE DEF Ended, Ready
  <2>4. \A u \in Threads : /\ call'[u] \in Call
                           /\ call'[u].done = IF u \in Ready \cup {t} THEN TRUE ELSE call[u].done
    BY <2>1, <2>2, <2>3
  <2> QED
    BY <2>3, <2>4
<1>9. QueueTypeOK'
  <2>1. pc' \in [Threads -> Places]
    BY <1>3, <1>6
  <2>2. calls' \in [Threads -> Nat] /\ writers' \in Seq(Threads)
    BY <1>3, <1>4 DEF QueueInv, QueueTypeOK
  <2>3. group' = Fields(group')
    <3>1. CASE group' = NoGroup
      BY <3>1 DEF NoGroup, Fields
    <3>2. CASE group' = group
      BY <3>2 DEF QueueInv, QueueTypeOK
    <3> QED
      BY <3>1, <3>2
  <2> QED
    BY <1>8, <2>1, <2>2, <2>3 DEF QueueTypeOK
<1>10. HeadLeads' /\ GroupIsFront'
  BY <1>6 DEF HeadLeads, GroupIsFront, Leads
<1>11. NobodyForgotten'
  <2> SUFFICES ASSUME NEW u \in Threads, pc'[u] \in Waits, ~call'[u].done
               PROVE  \E i \in 1..Len(rest) : rest[i] = u
    BY <1>3 DEF NobodyForgotten, InQueue
  <2>1. u \notin Ready \cup {t} /\ ~call[u].done
    BY <1>8
  <2>2. PICK i \in 1..Len(writers) : writers[i] = u
    BY <1>7, <2>1 DEF QueueInv, NobodyForgotten, InQueue
  <2>3. i > n
    BY <2>1, <2>2, <1>1, <1>2
  <2>4. i - n \in 1..Len(rest) /\ rest[i - n] = writers[n + (i - n)] /\ n + (i - n) = i
    BY <2>2, <2>3, <1>1, <1>2, <1>4
  <2> QED
    BY <2>2, <2>4
<1> QED
  BY <1>9, <1>10, <1>11 DEF QueueInv

\* The call is queued: at the end, and at the head if there was nobody.
LEMMA QueueWrite ==
    ASSUME QueueInv, logfile_number \in Nat, NEW t \in Threads, NEW k \in Kinds, Write(t, k)
    PROVE  QueueInv'
<1>1. /\ writers \in Seq(Threads) /\ Len(writers) \in Nat
      /\ writers' = Append(writers, t) /\ UNCHANGED group
      /\ \A u \in Threads : pc'[u] = IF u = t THEN IF writers = <<>> THEN "room" ELSE "waiting" ELSE pc[u]
      /\ \A u \in Threads : u # t => call'[u] = call[u]
  BY DEF Write, Lead, QueueInv, QueueTypeOK, queueVars
<1>2. /\ Append(writers, t) \in Seq(Threads)
      /\ Len(Append(writers, t)) = Len(writers) + 1
      /\ \A i \in 1..Len(writers) : Append(writers, t)[i] = writers[i]
      /\ Append(writers, t)[Len(writers) + 1] = t
  BY <1>1, AppendProperties
<1>3. QueueTypeOK'
  <2>1. calls \in [Threads -> Nat] /\ calls' = [calls EXCEPT ![t] = @ + 1]
    BY DEF Write, QueueInv, QueueTypeOK
  <2>2. calls' \in [Threads -> Nat] /\ calls[t] + 1 \in Int
    BY <2>1
  <2>3. pc' \in [Threads -> Places]
    BY DEF Write, Lead, QueueInv, QueueTypeOK, Places, Leads, Waits
  <2>4. k.null \in BOOLEAN
    BY QueueAssumption
  <2> DEFINE new == [kind |-> k, id |-> <<t, calls[t] + 1>>, done |-> FALSE,
                     status |-> "none", delay |-> ~k.null, force |-> k.null, file |-> logfile_number]
  <2>5. new \in Call
    BY <2>2, <2>4 DEF Call
  <2>6. call \in [Threads -> Call] /\ call' = [call EXCEPT ![t] = new]
    BY DEF Write, QueueInv, QueueTypeOK
  <2> HIDE DEF new
  <2>7. call' \in [Threads -> Call]
    BY <2>5, <2>6
  <2> QED
    BY <1>1, <1>2, <2>2, <2>3, <2>7 DEF QueueInv, QueueTypeOK
<1>4. HeadLeads'
  <2>1. CASE writers = <<>>
    BY <1>1, <1>2, <2>1 DEF QueueInv, HeadLeads
  <2>2. CASE writers # <<>>
    BY <1>1, <1>2, <2>2 DEF QueueInv, HeadLeads, Leads, UsesFiles
  <2> QED
    BY <2>1, <2>2
<1>5. NobodyForgotten'
  <2> SUFFICES ASSUME NEW u \in Threads, pc'[u] \in Waits, ~call'[u].done
               PROVE  \E i \in 1..Len(writers') : writers'[i] = u
    BY DEF NobodyForgotten, InQueue
  <2>1. CASE u = t
    BY <1>1, <1>2, <2>1
  <2>2. CASE u # t
    <3>1. PICK i \in 1..Len(writers) : writers[i] = u
      BY <1>1, <2>2 DEF QueueInv, NobodyForgotten, InQueue
    <3> QED
      BY <1>1, <1>2, <3>1
  <2> QED
    BY <2>1, <2>2
<1>6. GroupIsFront'
  <2> SUFFICES ASSUME NEW u \in Threads, pc'[u] \in UsesFiles
               PROVE  \E k2 \in 1..Len(writers') : group'.threads = SubSeq(writers', 1, k2)
    BY DEF GroupIsFront
  <2>1. pc[u] \in UsesFiles
    BY <1>1 DEF UsesFiles
  <2>2. PICK n \in 1..Len(writers) : group.threads = SubSeq(writers, 1, n)
    BY <2>1 DEF QueueInv, GroupIsFront
  <2>3. \A i \in 1..n : writers[i] = writers'[i] /\ i \in 1..Len(writers)
    BY <1>1, <1>2, <2>2
  <2>4. SubSeq(writers, 1, n) = SubSeq(writers', 1, n)
    BY <1>1, <1>2, <2>2, <2>3
  <2> QED
    BY <1>1, <1>2, <2>2, <2>4
<1> QED
  BY <1>3, <1>4, <1>5, <1>6 DEF QueueInv

\* A thread that is woken finds itself done, the head, or too early.
LEMMA QueueWoken == ASSUME QueueInv, NEW t \in Threads, Woken(t) PROVE QueueInv'
<1>1. pc[t] = "woken" /\ UNCHANGED <<call, calls, writers, group>>
  BY DEF Woken, queueVars
<1>2. CASE pc' = [pc EXCEPT ![t] = "returned"] \/ pc' = [pc EXCEPT ![t] = "waiting"]
  <2>1. {"returned", "waiting"} \subseteq Places /\ {"returned", "waiting"} \cap Leads = {}
        /\ {"returned", "waiting"} \cap UsesFiles = {} /\ pc[t] \in Waits
    BY <1>1 DEF Places, Leads, Waits, UsesFiles
  <2> QED
    BY <1>1, <1>2, <2>1, Moves
<1>3. CASE ~call[t].done /\ writers[1] = t /\ pc' = [pc EXCEPT ![t] = "room"]
  <2>1. Len(writers) > 0
    BY <1>1, <1>3 DEF QueueInv, QueueTypeOK, NobodyForgotten, InQueue, Waits
  <2>2. \A u \in Threads : pc'[u] = IF u = t THEN "room" ELSE pc[u]
    BY <1>3 DEF QueueInv, QueueTypeOK
  <2>3. QueueTypeOK'
    BY <1>1, <1>3 DEF QueueInv, QueueTypeOK, Places, Leads
  <2>4. HeadLeads'
    BY <1>1, <1>3, <2>1, <2>2 DEF QueueInv, HeadLeads
  <2>5. NobodyForgotten'
    BY <1>1, <2>2 DEF QueueInv, NobodyForgotten, InQueue, Waits
  <2>6. GroupIsFront'
    BY <1>1, <2>2 DEF QueueInv, GroupIsFront, UsesFiles
  <2> QED
    BY <2>3, <2>4, <2>5, <2>6 DEF QueueInv
<1> QED
  BY <1>2, <1>3 DEF Woken, Lead

\* The head gives up, or has nothing to log.
LEMMA QueueAlone ==
    ASSUME QueueInv, NEW t \in Threads, YieldError(t) \/ NewLogFails(t) \/ NullBatch(t)
    PROVE  QueueInv'
<1>1. pc[t] = "room" /\ UNCHANGED group
  BY DEF YieldError, NewLogFails, NullBatch, NeedsNewMemTable, InRoom
<1>2. \E status \in {"ok", "error"} : Finish(t, t, status, pc)
  BY DEF YieldError, NewLogFails, NullBatch
<1>3. pc[t] \in Leads
  BY <1>1 DEF Leads
<1>4. 1 \in 1..Len(writers) /\ writers[1] = t
  BY <1>3 DEF QueueInv, QueueTypeOK, HeadLeads
<1> QED
  BY <1>1, <1>2, <1>3, <1>4, Finishes

LEMMA QueueRoom ==
    ASSUME QueueInv, NEW t \in Threads, Sleep(t) \/ SwitchMemTable(t)
    PROVE  QueueInv'
<1>1. pc[t] = "room" /\ pc[t] \in Leads \ UsesFiles /\ UNCHANGED <<calls, writers, group>>
  BY DEF Sleep, SwitchMemTable, NeedsNewMemTable, InRoom, Leads, UsesFiles
<1>2. CASE Sleep(t)
  <2>1. "asleep" \in Leads \ UsesFiles
    BY DEF Leads, UsesFiles
  <2> QED
    BY <1>1, <1>2, <2>1, LeaderGoesOn DEF Sleep
<1>3. CASE SwitchMemTable(t)
  <2>1. pc' = [pc EXCEPT ![t] = "room"]
    BY <1>1, <1>3 DEF SwitchMemTable, QueueInv, QueueTypeOK
  <2>2. "room" \in Leads \ UsesFiles
    BY <1>1
  <2> QED
    BY <1>1, <1>3, <2>1, <2>2, LeaderGoesOn DEF SwitchMemTable
<1> QED
  BY <1>2, <1>3

\* The group is a front part of the queue; no member wants a sync that the
\* leader does not do.
LEMMA GroupExists ==
    ASSUME writers \in Seq(Threads), Len(writers) > 0
    PROVE  \E n \in 1..Len(writers) :
              /\ BuildBatchGroup = SubSeq(writers, 1, n)
              /\ \A i \in 2..n : call[writers[i]].kind.sync => call[writers[1]].kind.sync
<1> DEFINE first == call[writers[1]].kind
           max_size == IF first.ops <= SmallBatch THEN first.ops + SmallBatch ELSE MaxBatch
           Size[i \in 0..Len(writers)] ==
               IF i = 0 THEN 0 ELSE Size[i-1] + call[writers[i]].kind.ops
           Fits(i) == /\ ~(call[writers[i]].kind.sync /\ ~first.sync)
                      /\ call[writers[i]].kind.null \/ Size[i] <= max_size
           Lengths == {n \in DOMAIN writers : \A i \in 2..n : Fits(i)}
           longest == CHOOSE n \in Lengths : \A m \in Lengths : m <= n
<1>1. BuildBatchGroup = SubSeq(writers, 1, longest)
  BY DEF BuildBatchGroup
<1>2. \A i : Fits(i) => (call[writers[i]].kind.sync => call[writers[1]].kind.sync)
  OBVIOUS
<1> HIDE DEF Fits
<1>3. DOMAIN writers = 1..Len(writers) /\ Len(writers) \in Nat
  OBVIOUS
<1>4. Lengths \subseteq 1..Len(writers) /\ 1 \in Lengths
  BY <1>3
<1>5. \A n \in Lengths : \A i \in 2..n : Fits(i)
  OBVIOUS
<1> HIDE DEF Lengths
<1> DEFINE Behind == {Len(writers) - n : n \in Lengths}
<1>6. Behind \subseteq Nat /\ Behind # {}
  BY <1>3, <1>4
<1>7. PICK b \in Behind : \A c \in Behind : <<c, b>> \notin OpToRel(<, Nat)
  BY <1>6, NatLessThanWellFounded, WFMin
<1>8. \A c \in Behind : b <= c
  <2> SUFFICES ASSUME NEW c \in Behind
               PROVE  b <= c
    OBVIOUS
  <2>1. b \in Nat /\ c \in Nat
    BY <1>6
  <2>2. <<c, b>> \notin OpToRel(<, Nat)
    BY <1>7
  <2>3. ~(c < b)
    BY <2>1, <2>2 DEF OpToRel
  <2> QED
    BY <2>1, <2>3
<1>9. PICK n \in Lengths : b = Len(writers) - n
  BY <1>7
<1>10. \A m \in Lengths : m <= n
  <2> SUFFICES ASSUME NEW m \in Lengths
               PROVE  m <= n
    OBVIOUS
  <2>1. Len(writers) - n <= Len(writers) - m
    BY <1>8, <1>9
  <2> QED
    BY <1>3, <1>4, <2>1
<1>11. longest \in Lengths
  BY <1>10
<1>12. \A i \in 2..longest : call[writers[i]].kind.sync => call[writers[1]].kind.sync
  BY <1>2, <1>5, <1>11
<1> QED
  BY <1>1, <1>4, <1>11, <1>12

LEMMA QueueStartGroup == ASSUME QueueInv, NEW t \in Threads, StartGroup(t) PROVE QueueInv'
<1>1. /\ pc[t] = "room" /\ pc' = [pc EXCEPT ![t] = "append"]
      /\ UNCHANGED <<call, calls, writers>>
  BY DEF StartGroup, InRoom, queueVars
<1>2. \A u \in Threads : pc'[u] = IF u = t THEN "append" ELSE pc[u]
  BY <1>1 DEF QueueInv, QueueTypeOK
<1>3. writers \in Seq(Threads) /\ Len(writers) > 0
  BY <1>1 DEF QueueInv, QueueTypeOK, HeadLeads, Leads
<1>4. group' = Fields(group') /\ group'.threads = BuildBatchGroup
  BY DEF StartGroup, Fields
<1>5. QueueTypeOK'
  BY <1>1, <1>4 DEF QueueInv, QueueTypeOK, Places, Leads, UsesFiles
<1>6. HeadLeads'
  BY <1>1, <1>2 DEF QueueInv, HeadLeads, Leads
<1>7. NobodyForgotten'
  BY <1>1, <1>2 DEF QueueInv, NobodyForgotten, InQueue, Waits
<1>8. GroupIsFront'
  BY <1>1, <1>3, <1>4, GroupExists DEF GroupIsFront
<1> QED
  BY <1>5, <1>6, <1>7, <1>8 DEF QueueInv

\* The log, the memtable and the call of EndGroup, for the group of the head.
LEMMA QueueGroupWork ==
    ASSUME QueueInv, NEW t \in Threads, AddRecord(t) \/ Sync(t) \/ InsertInto(t)
    PROVE  QueueInv'
<1>1. pc[t] \in UsesFiles /\ pc[t] \in Leads /\ UNCHANGED <<call, calls, writers>>
  BY DEF AddRecord, Sync, InsertInto, UsesFiles, Leads, queueVars
<1>2. CASE /\ UNCHANGED group
           /\ \E q \in {"sync", "insert", "inserted", "failed", "syncError"} : Go(t, q)
  <2>1. PICK q \in {"sync", "insert", "inserted", "failed", "syncError"} : Go(t, q)
    BY <1>2
  <2>2. q \in UsesFiles /\ q \in Leads /\ q \in Places /\ q \notin Waits
    BY DEF UsesFiles, Leads, Places, Waits
  <2> QED
    BY <1>1, <1>2, <2>1, <2>2, Moves DEF Go
<1>3. CASE group' = [group EXCEPT !.inserted = @ + 1] /\ UNCHANGED pc
  <2>1. group' = Fields(group') /\ group'.threads = group.threads
    BY <1>3 DEF QueueInv, QueueTypeOK, Fields
  <2> QED
    BY <1>1, <1>3, <2>1
       DEF QueueInv, QueueTypeOK, HeadLeads, NobodyForgotten, GroupIsFront, InQueue
<1> QED
  BY <1>2, <1>3 DEF AddRecord, Sync, InsertInto, Go

LEMMA QueueEndGroup == ASSUME QueueInv, NEW t \in Threads, EndGroup(t) PROVE QueueInv'
<1>1. pc[t] \in UsesFiles /\ pc[t] \in Leads /\ group' = NoGroup
  BY DEF EndGroup, UsesFiles, Leads
<1>2. PICK k \in 1..Len(writers) : group.threads = SubSeq(writers, 1, k)
  BY <1>1 DEF QueueInv, GroupIsFront
<1>3. Last(group.threads) = writers[k]
  <2>1. writers \in Seq(Threads) /\ \A i \in 1..k : writers[i] \in Threads
    BY <1>2 DEF QueueInv, QueueTypeOK
  <2>2. Len(SubSeq(writers, 1, k)) = IF 1 <= k THEN k - 1 + 1 ELSE 0
    BY <2>1, SubSeqProperties
  <2>3. \A i \in 1 .. k - 1 + 1 : SubSeq(writers, 1, k)[i] = writers[1 + i - 1]
    BY <2>1, SubSeqProperties
  <2> QED
    BY <1>2, <2>2, <2>3 DEF Last
<1>4. \E status \in {"ok", "error"}, p \in {pc, SignalAll(pc)} :
        Finish(t, Last(group.threads), status, p)
  BY Zenon DEF EndGroup
<1> QED
  BY <1>1, <1>2, <1>3, <1>4, Finishes

\* Steps of a thread that leave the queue alone.
LEMMA QueueElsewhere ==
    ASSUME QueueInv, NEW t \in Threads,
           \/ SpuriousWakeUp(t) \/ WaitForBackground(t) \/ Relock(t) \/ Return(t) \/ AwaitFlush(t)
           \/ TakeSlot(t) \/ AwaitCompaction(t) \/ LeaveRange(t)
    PROVE  QueueInv'
<1>1. UNCHANGED <<call, calls, writers, group>>
  BY DEF SpuriousWakeUp, WaitForBackground, Relock, Return, AwaitFlush, TakeSlot, AwaitCompaction,
     LeaveRange, queueVars
<1>2. CASE SpuriousWakeUp(t)
  <2>1. pc[t] \in Waits /\ "woken" \in Places \ Leads /\ "woken" \notin UsesFiles
    BY <1>2 DEF SpuriousWakeUp, Waits, Places, Leads, UsesFiles
  <2> QED
    BY <1>1, <1>2, <2>1, Moves DEF SpuriousWakeUp
<1>3. CASE WaitForBackground(t) \/ Relock(t)
  <2>1. pc[t] \in Leads /\ {"bgWait", "room"} \subseteq Places \ (Waits \cup UsesFiles)
    BY <1>3 DEF WaitForBackground, Relock, InRoom, Waits, Places, Leads, UsesFiles
  <2>2. pc' = [pc EXCEPT ![t] = "bgWait"] \/ pc' = [pc EXCEPT ![t] = "room"]
    BY <1>3 DEF WaitForBackground, Relock, Lead
  <2> QED
    BY <1>1, <2>1, <2>2, Moves
<1>4. CASE Return(t) \/ AwaitFlush(t) \/ TakeSlot(t) \/ AwaitCompaction(t) \/ LeaveRange(t)
  <2>1. \E q \in {"idle", "flushWait", "flushWoken", "rangeWait", "rangeWoken"} :
          pc' = [pc EXCEPT ![t] = q]
    BY <1>4 DEF Return, AwaitFlush, TakeSlot, AwaitCompaction, LeaveRange, Go
  <2>2. {"idle", "flushWait", "flushWoken", "rangeWait", "rangeWoken"}
           \subseteq Places \ (Waits \cup Leads \cup UsesFiles)
    BY DEF Waits, Places, Leads, UsesFiles
  <2> QED
    BY <1>1, <2>1, <2>2, Moves
<1> QED
  BY <1>2, <1>3, <1>4

LEMMA QueueStutter == QueueInv /\ UNCHANGED <<pc, call, calls, writers, group>> => QueueInv'
BY DEF QueueInv, QueueTypeOK, HeadLeads, NobodyForgotten, GroupIsFront, InQueue

LEMMA QueueBackground == ASSUME QueueInv, BackgroundStep PROVE QueueInv'
<1>1. UNCHANGED <<call, calls, writers, group>>
  BY DEF BackgroundStep, BackgroundCall, MergeYields, TableWritten, MemTableCompacted, FlushFails,
     MergeDone, MergeLosesManual, queueVars
<1>2. pc' = SignalAll(pc) \/ UNCHANGED pc
  BY DEF BackgroundStep, BackgroundCall, MergeYields, TableWritten, MemTableCompacted, FlushFails,
     MergeDone, MergeLosesManual, EndCall
<1> QED
  BY <1>1, <1>2, Signals, QueueStutter

LEMMA QueueStep == QueueInv /\ LogInv /\ [Next]_vars => QueueInv'
<1> SUFFICES ASSUME QueueInv, LogInv, [Next]_vars
             PROVE  QueueInv'
  OBVIOUS
<1>1. ASSUME NEW t \in Threads, ThreadStep(t)
      PROVE  QueueInv'
  BY <1>1, QueueWoken, QueueAlone, QueueRoom, QueueStartGroup, QueueGroupWork, QueueEndGroup,
     QueueElsewhere DEF ThreadStep
<1>2. ASSUME NEW t \in Threads, SpuriousWakeUp(t)
      PROVE  QueueInv'
  BY <1>2, QueueElsewhere
<1>3. ASSUME NEW t \in Threads, NEW k \in Kinds, Write(t, k)
      PROVE  QueueInv'
  BY <1>3, QueueWrite DEF LogInv
<1>4. CASE BackgroundStep
  BY <1>4, QueueBackground
<1>5. CASE UNCHANGED vars
  BY <1>5, QueueStutter DEF vars, queueVars
<1> QED
  BY <1>1, <1>2, <1>3, <1>4, <1>5 DEF Next

\* Those past their wait: making room, writing the log, or done with it.
OneLeader == \A t, u \in Threads : pc[t] \in Leads /\ pc[u] \in Leads => t = u

\* log_, mem_ and tmp_batch_ are used without the lock, and "the writer at the
\* front" may let the lock go for its room: nobody else ever leads meanwhile,
\* whatever wakes up and whoever fails (db_impl.cc:1202-1265).
THEOREM OneLeaderSafe == Spec => []OneLeader
<1>1. QueueInv => OneLeader
  BY DEF QueueInv, HeadLeads, OneLeader
<1>2. Init => QueueInv /\ LogInv
  BY QueueInit, LogInit
<1>3. QueueInv /\ LogInv /\ [Next]_vars => (QueueInv /\ LogInv)'
  BY QueueStep, LogStep
<1> QED
  BY <1>1, <1>2, <1>3, PTL DEF Spec

\* What waits is not lost: a call that is not answered is in the queue of
\* writers, so that the head that takes itself off finds it (db_impl.cc:1259-1262).
THEOREM NobodyForgottenSafe == Spec => []NobodyForgotten
<1>1. QueueInv => NobodyForgotten
  BY DEF QueueInv
<1>2. Init => QueueInv /\ LogInv
  BY QueueInit, LogInit
<1>3. QueueInv /\ LogInv /\ [Next]_vars => (QueueInv /\ LogInv)'
  BY QueueStep, LogStep
<1> QED
  BY <1>1, <1>2, <1>3, PTL DEF Spec

-----------------------------------------------------------------------------
(* The calls. Everyone in the queue waits for an answer or leads, once, and *)
(* a call is known by its thread and number.                               *)

Distinct == \A i, j \in 1..Len(writers) : writers[i] = writers[j] => i = j
QueuedIsOpen == \A t \in Threads : InQueue(t) => pc[t] \in Waits \cup Leads /\ ~call[t].done
Called == \A t \in Threads : pc[t] \in Waits \cup Leads \cup {"returned"} => calls[t] > 0
CallIsNamed ==
    \A t \in Threads : calls[t] > 0 => call[t].id = <<t, calls[t]>> /\ call[t].kind \in Kinds
ReturnedIsDone == \A t \in Threads : pc[t] = "returned" => call[t].done

CallInv == Distinct /\ QueuedIsOpen /\ Called /\ CallIsNamed /\ ReturnedIsDone

-----------------------------------------------------------------------------
(* The data. The inductive invariant of the group commit: what the group at *)
(* work has logged and inserted, and what an answer says of its call.      *)

Elements(s) == {s[i] : i \in 1..Len(s)}
OpsOfCall(t) == OpsOf(call[t].id, call[t].kind.ops)

Op == (Threads \X Nat) \X Nat
Record == [file : Nat, first : Nat, ops : Seq(Op), synced : BOOLEAN]

DataTypeOK ==
    /\ log \in Seq(Record)
    /\ entries \subseteq [seq : Nat, op : Op]
    /\ last_sequence \in Nat
    /\ group.ops \in Seq(Op) /\ group.first \in Nat
    /\ group.inserted \in 0..Len(group.ops)

\* The record of the group at work, in a log.
IsLogged(t) ==
    \E i \in 1..Len(log) :
        /\ log[i].ops = group.ops /\ log[i].first = group.first
        /\ pc[t] = "sync" => log[i].file = logfile_number
        /\ pc[t] # "sync" /\ call[t].kind.sync => log[i].synced

GroupInv(t) ==
    /\ group.first = last_sequence + 1
    /\ \A op \in Op : op \in Elements(group.ops)
         <=> \E u \in Elements(group.threads) : op \in OpsOfCall(u)
    /\ \A u \in Elements(group.threads) : call[u].kind.sync => call[t].kind.sync
    /\ pc[t] \in {"append", "sync", "failed", "syncError"} => group.inserted = 0
    /\ pc[t] = "inserted" => group.inserted = Len(group.ops)
    /\ pc[t] \in {"sync", "insert", "inserted"} => IsLogged(t)

GroupIsSound == \A t \in Threads : pc[t] \in UsesFiles => GroupInv(t)
GroupIsUsed == (\A t \in Threads : pc[t] \notin UsesFiles) => group = NoGroup

\* The operations of the group reach the memtable one after the other.
InsertedInOrder ==
    \A j \in 1..group.inserted : [seq |-> group.first + j - 1, op |-> group.ops[j]] \in entries

EntryIsCurrent(e) == \E j \in 1..group.inserted : e.op = group.ops[j]

EntriesInv ==
    \A e \in entries :
        /\ e.seq <= last_sequence + group.inserted
        /\ \A f \in entries : e.seq = f.seq => e = f
        /\ \E i \in 1..Len(log) : \E j \in 1..Len(log[i].ops) :
              log[i].ops[j] = e.op /\ log[i].first + j - 1 = e.seq
        /\ \E t \in Threads : e.op[1][1] = t /\ e.op[1][2] <= calls[t]

Answered(t, status) == calls[t] > 0 /\ call[t].done /\ call[t].status = status

\* Nobody sees an operation of a call before the call's group puts it there.
NothingEarly ==
    \A t \in Threads : \A e \in entries :
        calls[t] > 0 /\ e.op[1] = call[t].id
            => Answered(t, "ok") \/ (~call[t].done /\ EntryIsCurrent(e))

\* What an OK says of the call.
Fulfilled(t) ==
    /\ \A op \in OpsOfCall(t) : Visible(op)
    /\ ~call[t].kind.null => \E i \in 1..Len(log) :
          /\ OpsOfCall(t) \subseteq Elements(log[i].ops)
          /\ call[t].kind.sync => log[i].synced

AnswerIsTrue == \A t \in Threads : Answered(t, "ok") => Fulfilled(t)

DataInv ==
    /\ DataTypeOK /\ GroupIsSound /\ GroupIsUsed /\ InsertedInOrder
    /\ EntriesInv /\ NothingEarly /\ AnswerIsTrue

-----------------------------------------------------------------------------
(* Induction, with a set for the predicate; and what FlattenSeq makes of    *)
(* the batches of a group.                                                 *)

\* Of numbers that are not all there, one is the first.
LEMMA Induction ==
    ASSUME NEW I, 0 \in I, \A n \in Nat : n \in I => n + 1 \in I
    PROVE  Nat \subseteq I
<1> SUFFICES ASSUME Nat \ I # {}
             PROVE  FALSE
  OBVIOUS
<1>1. PICK b \in Nat \ I : \A c \in Nat \ I : <<c, b>> \notin OpToRel(<, Nat)
  BY NatLessThanWellFounded, WFMin
<1>2. b \in Nat /\ b \notin I /\ b # 0
  BY <1>1
<1> DEFINE c == b - 1
<1>3. c \in Nat /\ c < b /\ c + 1 = b
  BY <1>2
<1> HIDE DEF c
<1>4. <<c, b>> \in OpToRel(<, Nat)
  BY <1>2, <1>3 DEF OpToRel
<1>5. c \in I
  BY <1>1, <1>3, <1>4
<1> QED
  BY <1>2, <1>3, <1>5

\* A function defined by recursion on the numbers to n exists.
Follows(f, S, n, base, step) ==
    /\ f \in [0..n -> S] /\ f[0] = base
    /\ \A i \in 1..n : f[i] = step[<<i, f[i-1]>>]

LEMMA Recursion ==
    ASSUME NEW n \in Nat, NEW S, NEW base \in S, NEW step \in [(1..n) \X S -> S]
    PROVE  \E f : Follows(f, S, n, base, step)
<1> DEFINE Exists(m) == \E f : Follows(f, S, m, base, step)
           I == {m \in Nat : m <= n => Exists(m)}
<1>1. 0 \in I
  <2> DEFINE f == [i \in 0..0 |-> base]
  <2>1. f \in [0..0 -> S] /\ f[0] = base /\ 1..0 = {}
    OBVIOUS
  <2> HIDE DEF f
  <2>2. Exists(0)
    BY <2>1 DEF Follows
  <2> HIDE DEF Exists
  <2> QED
    BY <2>2
<1>2. ASSUME NEW m \in Nat, m \in I
      PROVE  m + 1 \in I
  <2> SUFFICES ASSUME m + 1 <= n
               PROVE  Exists(m + 1)
    <3> HIDE DEF Exists
    <3> QED
      OBVIOUS
  <2>1. Exists(m)
    <3> HIDE DEF Exists
    <3> QED
      BY <1>2
  <2>2. PICK f : Follows(f, S, m, base, step)
    BY <2>1
  <2> DEFINE new == step[<<m + 1, f[m]>>]
             g == [i \in 0..m + 1 |-> IF i = m + 1 THEN new ELSE f[i]]
  <2>3. new \in S
    <3>1. f[m] \in S /\ m + 1 \in 1..n
      BY <2>2 DEF Follows
    <3> QED
      BY <3>1
  <2>4. \A i \in 0..m + 1 : i # m + 1 => i \in 0..m
    OBVIOUS
  <2>5. g \in [0..m + 1 -> S]
    <3> HIDE DEF new
    <3> QED
      BY <2>2, <2>3, <2>4 DEF Follows
  <2>6. g[m + 1] = new /\ \A i \in 0..m : g[i] = f[i]
    OBVIOUS
  <2> HIDE DEF g
  <2>7. Follows(g, S, m + 1, base, step)
    <3>1. g[0] = base
      BY <2>2, <2>6 DEF Follows
    <3> SUFFICES ASSUME NEW i \in 1..m + 1
                 PROVE  g[i] = step[<<i, g[i-1]>>]
      BY <2>5, <3>1 DEF Follows
    <3>2. CASE i = m + 1
      <4>1. i - 1 = m /\ g[m] = f[m] /\ m \in 0..m
        BY <2>6, <3>2
      <4> QED
        BY <2>6, <3>2, <4>1
    <3>3. CASE i # m + 1
      <4>1. i \in 1..m /\ i \in 0..m /\ i - 1 \in 0..m
        BY <3>3
      <4> QED
        BY <2>2, <2>6, <4>1 DEF Follows
    <3> QED
      BY <3>2, <3>3
  <2> QED
    BY <2>7
<1>3. n \in I
  <2> HIDE DEF I
  <2> QED
    BY <1>1, <1>2, Induction
<1>4. Exists(n)
  <2> HIDE DEF Exists
  <2> QED
    BY <1>3
<1> QED
  BY <1>4

\* The elements of a concatenation.
LEMMA Concatenates ==
    ASSUME NEW S, NEW s \in Seq(S), NEW r \in Seq(S)
    PROVE  /\ s \o r \in Seq(S)
           /\ \A x : x \in Elements(s \o r) <=> x \in Elements(s) \/ x \in Elements(r)
<1> DEFINE whole == s \o r
<1>1. /\ whole \in Seq(S) /\ Len(whole) = Len(s) + Len(r)
      /\ \A i \in 1..Len(s) + Len(r) : whole[i] = IF i <= Len(s) THEN s[i] ELSE r[i - Len(s)]
      /\ Len(s) \in Nat /\ Len(r) \in Nat
  BY ConcatProperties
<1> HIDE DEF whole
<1> SUFFICES ASSUME NEW x
             PROVE  x \in Elements(whole) <=> x \in Elements(s) \/ x \in Elements(r)
  BY <1>1 DEF whole
<1>2. ASSUME NEW i \in 1..Len(whole)
      PROVE  whole[i] \in Elements(s) \/ whole[i] \in Elements(r)
  <2>1. CASE i <= Len(s)
    BY <1>1, <1>2, <2>1 DEF Elements
  <2>2. CASE ~(i <= Len(s))
    <3>1. i - Len(s) \in 1..Len(r) /\ whole[i] = r[i - Len(s)]
      BY <1>1, <1>2, <2>2
    <3> QED
      BY <3>1 DEF Elements
  <2> QED
    BY <2>1, <2>2
<1>3. ASSUME NEW i \in 1..Len(s)
      PROVE  s[i] \in Elements(whole)
  <2>1. i \in 1..Len(whole) /\ whole[i] = s[i]
    BY <1>1
  <2> QED
    BY <2>1 DEF Elements
<1>4. ASSUME NEW i \in 1..Len(r)
      PROVE  r[i] \in Elements(whole)
  <2> DEFINE j == Len(s) + i
  <2>1. j \in 1..Len(whole) /\ ~(j <= Len(s)) /\ j - Len(s) = i
    BY <1>1
  <2>2. whole[j] = r[j - Len(s)]
    BY <1>1, <2>1
  <2> QED
    BY <2>1, <2>2 DEF Elements
<1> QED
  BY <1>2, <1>3, <1>4 DEF Elements

\* FlattenSeq puts one sequence behind the other.
Joins(F, S, n, seqs) ==
    /\ F \in [0..n -> Seq(S)] /\ F[0] = <<>>
    /\ \A i \in 1..n : F[i] = F[i-1] \o seqs[i]
    /\ FlattenSeq(seqs) = F[n]

LEMMA FlattensStepwise ==
    ASSUME NEW S, NEW n \in Nat \ {0}, NEW seqs, Len(seqs) = n,
           \A i \in 1..n : seqs[i] \in Seq(S)
    PROVE  \E F : Joins(F, S, n, seqs)
<1> DEFINE T == Seq(S)
           Joined(x) == x[2] \o seqs[x[1]]
           step == [x \in (1..n) \X T |-> Joined(x)]
           flatten == CHOOSE f : f = [i \in 1..n |-> IF i = 1 THEN seqs[i] ELSE f[i-1] \o seqs[i]]
<1>1. FlattenSeq(seqs) = flatten[n]
  BY DEF FlattenSeq
<1>2. \A i \in 1..n, s \in T : s \o seqs[i] \in T
  BY ConcatProperties
<1>3. step \in [(1..n) \X T -> T] /\ \A i \in 1..n, s \in T : step[<<i, s>>] = s \o seqs[i]
  BY <1>2
<1>4. <<>> \in T
  OBVIOUS
<1> HIDE DEF step, T
<1>5. PICK F : Follows(F, T, n, <<>>, step)
  BY <1>3, <1>4, Recursion
<1>6. \A i \in 1..n : F[i-1] \in T /\ F[i] = F[i-1] \o seqs[i]
  <2> SUFFICES ASSUME NEW i \in 1..n
               PROVE  F[i-1] \in T /\ F[i] = F[i-1] \o seqs[i]
    OBVIOUS
  <2> DEFINE s == F[i-1]
  <2>1. i - 1 \in 0..n
    OBVIOUS
  <2>2. s \in T /\ F[i] = step[<<i, s>>]
    BY <1>5, <2>1 DEF Follows
  <2> HIDE DEF s
  <2>3. F[i] = s \o seqs[i]
    BY <1>3, <2>2
  <2> QED
    BY <2>2, <2>3 DEF s
<1>7. F[1] = seqs[1]
  <2>1. 1 \in 1..n /\ 1 - 1 = 0
    OBVIOUS
  <2>2. F[1] = F[1-1] \o seqs[1]
    BY <1>6, <2>1
  <2>3. F[1] = <<>> \o seqs[1] /\ seqs[1] \in Seq(S)
    BY <1>5, <2>1, <2>2 DEF Follows
  <2> QED
    BY <2>3, ConcatEmptySeq
<1> DEFINE f == [i \in 1..n |-> F[i]]
<1>8. \A i \in 1..n : f[i] = IF i = 1 THEN seqs[i] ELSE f[i-1] \o seqs[i]
  <2> SUFFICES ASSUME NEW i \in 1..n
               PROVE  f[i] = IF i = 1 THEN seqs[i] ELSE f[i-1] \o seqs[i]
    OBVIOUS
  <2>1. CASE i = 1
    BY <1>7, <2>1
  <2>2. CASE i # 1
    <3>1. i - 1 \in 1..n /\ f[i-1] = F[i-1] /\ f[i] = F[i]
      BY <2>2
    <3> QED
      BY <1>6, <2>2, <3>1
  <2> QED
    BY <2>1, <2>2
<1>9. f = [i \in 1..n |-> IF i = 1 THEN seqs[i] ELSE f[i-1] \o seqs[i]]
  <2>1. f = [i \in 1..n |-> f[i]]
    OBVIOUS
  <2> HIDE DEF f
  <2> QED
    BY <1>8, <2>1
<1>10. flatten = [i \in 1..n |-> IF i = 1 THEN seqs[i] ELSE flatten[i-1] \o seqs[i]]
  <2> HIDE DEF f
  <2> QED
    BY <1>9
<1> HIDE DEF flatten, f
<1>11. \A i \in 1..n : flatten[i] = IF i = 1 THEN seqs[i] ELSE flatten[i-1] \o seqs[i]
  BY <1>10
<1> DEFINE I == {m \in Nat : m \in 1..n => flatten[m] = F[m]}
<1>12. Nat \subseteq I
  <2>1. ASSUME NEW m \in Nat, m \in I
        PROVE  m + 1 \in I
    <3> SUFFICES ASSUME m + 1 \in 1..n
                 PROVE  flatten[m + 1] = F[m + 1]
      OBVIOUS
    <3>1. CASE m = 0
      BY <1>7, <1>11, <3>1
    <3>2. CASE m # 0
      <4>1. m \in 1..n /\ (m + 1) - 1 = m /\ m + 1 # 1
        BY <3>2
      <4>2. F[m + 1] = F[m] \o seqs[m + 1]
        BY <1>6, <4>1
      <4>3. flatten[m + 1] = flatten[m] \o seqs[m + 1]
        BY <1>11, <4>1
      <4>4. flatten[m] = F[m]
        BY <2>1, <4>1
      <4> QED
        BY <4>2, <4>3, <4>4
    <3> QED
      BY <3>1, <3>2
  <2>2. 0 \in I
    OBVIOUS
  <2> HIDE DEF I
  <2> QED
    BY <2>1, <2>2, Induction
<1>13. flatten[n] = F[n]
  BY <1>12
<1> QED
  BY <1>1, <1>5, <1>6, <1>13 DEF T, Follows, Joins

LEMMA Flattens ==
    ASSUME NEW S, NEW n \in Nat \ {0}, NEW seqs, Len(seqs) = n,
           \A i \in 1..n : seqs[i] \in Seq(S)
    PROVE  /\ FlattenSeq(seqs) \in Seq(S)
           /\ \A x : x \in Elements(FlattenSeq(seqs)) <=> \E j \in 1..n : x \in Elements(seqs[j])
<1>1. PICK F : Joins(F, S, n, seqs)
  BY FlattensStepwise, Zenon
<1> DEFINE J == {m \in Nat : m \in 0..n =>
                   \A x : x \in Elements(F[m]) <=> \E j \in 1..m : x \in Elements(seqs[j])}
<1>2. 0 \in J
  BY <1>1 DEF Elements, Joins
<1>3. ASSUME NEW m \in Nat, m \in J
      PROVE  m + 1 \in J
  <2> SUFFICES ASSUME m + 1 \in 0..n
               PROVE  \A x : x \in Elements(F[m + 1]) <=> \E j \in 1..m + 1 : x \in Elements(seqs[j])
    OBVIOUS
  <2>1. m \in 0..n /\ m + 1 \in 1..n /\ (m + 1) - 1 = m /\ 1..m + 1 = 1..m \cup {m + 1}
    OBVIOUS
  <2> DEFINE last == seqs[m + 1]
             before == F[m]
  <2>2. /\ F[m + 1] = before \o last /\ before \in Seq(S) /\ last \in Seq(S)
        /\ \A x : x \in Elements(before) <=> \E j \in 1..m : x \in Elements(seqs[j])
    BY <1>1, <1>3, <2>1 DEF Joins
  <2> HIDE DEF last, before
  <2>3. \A x : x \in Elements(before \o last) <=> x \in Elements(before) \/ x \in Elements(last)
    BY <2>2, Concatenates
  <2> QED
    BY <2>1, <2>2, <2>3 DEF last
<1>4. n \in J
  <2> HIDE DEF J
  <2> QED
    BY <1>2, <1>3, Induction
<1> QED
  BY <1>1, <1>4 DEF Joins

-----------------------------------------------------------------------------
(* The steps as the calls see them.                                        *)

\* The first m of the queue.
Foremost(m) == {writers[i] : i \in 1..m}

Asks(t) == pc[t] \in Waits \cup Leads
SameCall(t) ==
    /\ call'[t].id = call[t].id /\ call'[t].kind = call[t].kind
    /\ call'[t].done = call[t].done /\ call'[t].status = call[t].status

\* Nothing is queued, answered or written.
Quiet ==
    /\ UNCHANGED <<calls, writers, group, log, entries, last_sequence>>
    /\ \A t \in Threads :
          /\ SameCall(t)
          /\ Asks(t) /\ ~call[t].done => pc'[t] \in Waits \cup Leads
          /\ pc'[t] \in Waits \cup Leads => Asks(t)
          /\ pc'[t] = "returned" => pc[t] = "returned" \/ (Asks(t) /\ call[t].done)
          /\ pc[t] \in UsesFiles \/ pc'[t] \in UsesFiles
                => pc'[t] = pc[t] /\ logfile_number' = logfile_number

\* One thread goes from one wait to the next.
LEMMA OneMoves ==
    ASSUME QueueInv, NEW t \in Threads, NEW q, pc' = [pc EXCEPT ![t] = q],
           q \notin UsesFiles, pc[t] \notin UsesFiles,
           q \in Waits \cup Leads <=> Asks(t), q # "returned",
           UNCHANGED <<calls, writers, group, log, entries, last_sequence>>,
           logfile_number' = logfile_number \/ \A u \in Threads : pc[u] \notin UsesFiles,
           \A u \in Threads : SameCall(u)
    PROVE  Quiet
<1>1. \A u \in Threads : pc'[u] = IF u = t THEN q ELSE pc[u]
  BY DEF QueueInv, QueueTypeOK
<1> QED
  BY <1>1 DEF Quiet, Asks

LEMMA QuietWoken ==
    ASSUME QueueInv, NEW t \in Threads, Woken(t)
    PROVE  Quiet
<1>1. /\ pc[t] = "woken" /\ Asks(t) /\ pc[t] \notin UsesFiles
      /\ UNCHANGED <<call, calls, writers, group, log, entries, last_sequence, logfile_number>>
      /\ \A u \in Threads : SameCall(u)
  BY DEF Woken, queueVars, dataVars, memVars, Asks, Waits, UsesFiles, SameCall
<1>2. CASE call[t].done /\ pc' = [pc EXCEPT ![t] = "returned"]
  <2>1. \A u \in Threads : pc'[u] = IF u = t THEN "returned" ELSE pc[u]
    BY <1>2 DEF QueueInv, QueueTypeOK
  <2>2. "returned" \notin Waits \cup Leads \cup UsesFiles
    BY DEF Waits, Leads, UsesFiles
  <2> QED
    BY <1>1, <1>2, <2>1, <2>2 DEF Quiet, Asks
<1>3. CASE \E q \in {"room", "waiting"} : pc' = [pc EXCEPT ![t] = q]
  <2>1. PICK q \in {"room", "waiting"} : pc' = [pc EXCEPT ![t] = q]
    BY <1>3
  <2>2. q \notin UsesFiles /\ q \in Waits \cup Leads /\ q # "returned"
    BY DEF Waits, Leads, UsesFiles
  <2> QED
    BY <1>1, <2>1, <2>2, OneMoves
<1> QED
  BY <1>2, <1>3 DEF Woken, Lead

LEMMA QuietRoom ==
    ASSUME QueueInv, NEW t \in Threads, Sleep(t) \/ SwitchMemTable(t)
    PROVE  Quiet
<1>1. /\ pc[t] = "room" /\ Asks(t) /\ pc[t] \notin UsesFiles /\ pc[t] \in Leads
      /\ UNCHANGED <<calls, writers, group, log, entries, last_sequence>>
  BY DEF Sleep, SwitchMemTable, NeedsNewMemTable, InRoom, dataVars, Asks, Leads, UsesFiles
<1>2. \A u \in Threads : pc[u] \notin UsesFiles
  BY <1>1 DEF QueueInv, HeadLeads, Leads
<1>3. \A u \in Threads : SameCall(u)
  <2> SUFFICES ASSUME NEW u \in Threads
               PROVE  SameCall(u)
    OBVIOUS
  <2>1. call[t] \in Call /\ call \in [Threads -> Call]
    BY DEF QueueInv, QueueTypeOK
  <2>2. CASE call' = [call EXCEPT ![t].delay = FALSE]
    BY <2>1, <2>2 DEF SameCall, Call
  <2>3. CASE call' = [call EXCEPT ![t].force = FALSE]
    BY <2>1, <2>3 DEF SameCall, Call
  <2> QED
    BY <2>2, <2>3 DEF Sleep, SwitchMemTable
<1>4. \E q \in {"asleep", "room"} : pc' = [pc EXCEPT ![t] = q]
  <2>1. UNCHANGED pc => pc' = [pc EXCEPT ![t] = "room"]
    BY <1>1 DEF QueueInv, QueueTypeOK
  <2> QED
    BY <2>1 DEF Sleep, SwitchMemTable
<1>5. PICK q \in {"asleep", "room"} : pc' = [pc EXCEPT ![t] = q]
  BY <1>4
<1>6. q \notin UsesFiles /\ q \in Waits \cup Leads /\ q # "returned"
  BY DEF Waits, Leads, UsesFiles
<1> QED
  BY <1>1, <1>2, <1>3, <1>5, <1>6, OneMoves

LEMMA QuietElsewhere ==
    ASSUME QueueInv, NEW t \in Threads,
           \/ SpuriousWakeUp(t) \/ WaitForBackground(t) \/ Relock(t) \/ Return(t) \/ AwaitFlush(t)
           \/ TakeSlot(t) \/ AwaitCompaction(t) \/ LeaveRange(t)
    PROVE  Quiet
<1>1. UNCHANGED <<call, calls, writers, group, log, entries, last_sequence, logfile_number>>
  BY DEF SpuriousWakeUp, WaitForBackground, Relock, Return, AwaitFlush, TakeSlot, AwaitCompaction,
     LeaveRange, queueVars, dataVars, memVars
<1>2. \A u \in Threads : SameCall(u)
  BY <1>1 DEF SameCall
<1>3. CASE SpuriousWakeUp(t) \/ WaitForBackground(t) \/ Relock(t)
  <2>1. \E q \in {"woken", "bgWait", "room"} : pc' = [pc EXCEPT ![t] = q]
    BY <1>3 DEF SpuriousWakeUp, WaitForBackground, Relock, Lead
  <2>2. pc[t] \notin UsesFiles /\ Asks(t)
    BY <1>3 DEF SpuriousWakeUp, WaitForBackground, Relock, InRoom, Asks, Waits, Leads, UsesFiles
  <2>3. PICK q \in {"woken", "bgWait", "room"} : pc' = [pc EXCEPT ![t] = q]
    BY <2>1
  <2>4. q \notin UsesFiles /\ q \in Waits \cup Leads /\ q # "returned"
    BY DEF Waits, Leads, UsesFiles
  <2> QED
    BY <1>1, <1>2, <2>2, <2>3, <2>4, OneMoves
<1>4. CASE Return(t) \/ AwaitFlush(t) \/ TakeSlot(t) \/ AwaitCompaction(t) \/ LeaveRange(t)
  <2>1. \E q \in {"idle", "flushWait", "flushWoken", "rangeWait", "rangeWoken"} :
          pc' = [pc EXCEPT ![t] = q]
    BY <1>4 DEF Return, AwaitFlush, TakeSlot, AwaitCompaction, LeaveRange, Go
  <2>2. pc[t] \notin UsesFiles /\ ~Asks(t)
    BY <1>4 DEF Return, AwaitFlush, TakeSlot, AwaitCompaction, LeaveRange, InRange, Asks, Waits, Leads,
       UsesFiles
  <2>3. PICK q \in {"idle", "flushWait", "flushWoken", "rangeWait", "rangeWoken"} :
          pc' = [pc EXCEPT ![t] = q]
    BY <2>1
  <2>4. q \notin UsesFiles /\ q \notin Waits \cup Leads /\ q # "returned"
    BY DEF Waits, Leads, UsesFiles
  <2> QED
    BY <1>1, <1>2, <2>2, <2>3, <2>4, OneMoves
<1> QED
  BY <1>3, <1>4

LEMMA QuietBackground ==
    ASSUME QueueInv, BackgroundStep \/ UNCHANGED vars
    PROVE  Quiet
<1>1. UNCHANGED <<call, calls, writers, group, log, entries, last_sequence, logfile_number>>
  BY DEF BackgroundStep, BackgroundCall, MergeYields, TableWritten, MemTableCompacted, FlushFails,
     MergeDone, MergeLosesManual, queueVars, dataVars, memVars, vars
<1>2. \A u \in Threads : SameCall(u)
  BY <1>1 DEF SameCall
<1>3. CASE UNCHANGED pc
  BY <1>1, <1>2, <1>3 DEF Quiet, Asks
<1>4. CASE pc' = SignalAll(pc)
  <2>1. \A u \in Threads : pc'[u] = CASE pc[u] = "bgWait" -> "bgWoken"
                                      [] pc[u] = "flushWait" -> "flushWoken"
                                      [] pc[u] = "rangeWait" -> "rangeWoken"
                                      [] OTHER -> pc[u]
    BY <1>4 DEF SignalAll
  <2>2. \A u \in Threads : /\ pc'[u] \in Waits \cup Leads <=> Asks(u)
                           /\ pc'[u] = "returned" <=> pc[u] = "returned"
                           /\ pc[u] \in UsesFiles \/ pc'[u] \in UsesFiles => pc'[u] = pc[u]
    BY <2>1 DEF Asks, Waits, Leads, UsesFiles
  <2> QED
    BY <1>1, <1>2, <2>2 DEF Quiet
<1>5. pc' = SignalAll(pc) \/ UNCHANGED pc
  BY DEF BackgroundStep, BackgroundCall, MergeYields, TableWritten, MemTableCompacted, FlushFails,
     MergeDone, MergeLosesManual, EndCall, vars
<1> QED
  BY <1>3, <1>4, <1>5

\* The queue is as it was, and so are the answers.
LEMMA CallsKept ==
    ASSUME CallInv, UNCHANGED <<calls, writers>>, \A t \in Threads : SameCall(t),
           \A t \in Threads :
              /\ Asks(t) /\ ~call[t].done => pc'[t] \in Waits \cup Leads
              /\ pc'[t] \in Waits \cup Leads => Asks(t)
              /\ pc'[t] = "returned" => pc[t] = "returned" \/ (Asks(t) /\ call[t].done)
    PROVE  CallInv'
<1>1. Distinct'
  BY DEF CallInv, Distinct
<1>2. QueuedIsOpen'
  BY DEF CallInv, QueuedIsOpen, InQueue, SameCall, Asks
<1>3. Called'
  BY DEF CallInv, Called, Asks
<1>4. CallIsNamed'
  BY DEF CallInv, CallIsNamed, SameCall
<1>5. ReturnedIsDone'
  BY DEF CallInv, ReturnedIsDone, SameCall
<1> QED
  BY <1>1, <1>2, <1>3, <1>4, <1>5 DEF CallInv

LEMMA CallQuiet == CallInv /\ Quiet => CallInv'
BY CallsKept DEF Quiet

LEMMA CallWrite ==
    ASSUME QueueInv, CallInv, NEW t \in Threads, NEW k \in Kinds, Write(t, k)
    PROVE  /\ CallInv'
           /\ ~InQueue(t) /\ ~Asks(t) /\ pc[t] # "returned"
           /\ \A u \in Threads : calls'[u] = IF u = t THEN calls[t] + 1 ELSE calls[u]
           /\ \A u \in Threads : u # t => pc'[u] = pc[u] /\ call'[u] = call[u]
           /\ pc'[t] \in {"room", "waiting"}
           /\ call'[t].id = <<t, calls[t] + 1>> /\ ~call'[t].done
<1>1. /\ writers \in Seq(Threads) /\ Len(writers) \in Nat
      /\ writers' = Append(writers, t)
      /\ pc'[t] \in {"room", "waiting"} /\ pc[t] = "idle"
      /\ \A u \in Threads : u # t => pc'[u] = pc[u] /\ call'[u] = call[u]
      /\ calls \in [Threads -> Nat]
      /\ \A u \in Threads : calls'[u] = IF u = t THEN calls[t] + 1 ELSE calls[u]
      /\ call'[t].id = <<t, calls[t] + 1>> /\ call'[t].kind = k /\ call'[t].done = FALSE
  BY DEF Write, Lead, QueueInv, QueueTypeOK
<1>2. /\ Len(writers') = Len(writers) + 1
      /\ \A i \in 1..Len(writers) : writers'[i] = writers[i]
      /\ writers'[Len(writers) + 1] = t
  BY <1>1, AppendProperties
<1>3. ~Asks(t) /\ pc[t] # "returned" /\ pc'[t] \in Waits \cup Leads /\ pc'[t] # "returned"
  BY <1>1 DEF Asks, Waits, Leads, UsesFiles
<1>4. ~InQueue(t)
  BY <1>3 DEF CallInv, QueuedIsOpen, Asks
<1>5. Distinct'
  <2> SUFFICES ASSUME NEW i \in 1..Len(writers'), NEW j \in 1..Len(writers'), writers'[i] = writers'[j]
               PROVE  i = j
    BY DEF Distinct
  <2>1. \A h \in 1..Len(writers') : h \in 1..Len(writers) \/ h = Len(writers) + 1
    BY <1>1, <1>2
  <2>2. \A h \in 1..Len(writers) : writers'[h] # t
    BY <1>2, <1>4 DEF InQueue
  <2>3. CASE i \in 1..Len(writers) /\ j \in 1..Len(writers)
    BY <1>2, <2>3 DEF CallInv, Distinct
  <2> QED
    BY <1>2, <2>1, <2>2, <2>3
<1>6. QueuedIsOpen'
  <2> SUFFICES ASSUME NEW u \in Threads, NEW i \in 1..Len(writers'), writers'[i] = u
               PROVE  pc'[u] \in Waits \cup Leads /\ ~call'[u].done
    BY DEF QueuedIsOpen, InQueue
  <2>1. CASE u = t
    BY <1>1, <1>3, <2>1
  <2>2. CASE u # t
    <3>1. i \in 1..Len(writers) /\ writers[i] = u
      BY <1>1, <1>2, <2>2
    <3> QED
      BY <1>1, <2>2, <3>1 DEF CallInv, QueuedIsOpen, InQueue
  <2> QED
    BY <2>1, <2>2
<1>7. Called'
  <2> SUFFICES ASSUME NEW u \in Threads, pc'[u] \in Waits \cup Leads \cup {"returned"}
               PROVE  calls'[u] > 0
    BY DEF Called
  <2> QED
    BY <1>1 DEF CallInv, Called
<1>8. CallIsNamed'
  BY <1>1 DEF CallInv, CallIsNamed
<1>9. ReturnedIsDone'
  BY <1>1, <1>3 DEF CallInv, ReturnedIsDone
<1> QED
  BY <1>1, <1>3, <1>4, <1>5, <1>6, <1>7, <1>8, <1>9 DEF CallInv

\* The end of Write: the first m of the queue have their answer.
Answers(m, status) ==
    /\ \A u \in Threads : u \in Foremost(m) =>
          /\ call'[u].id = call[u].id /\ call'[u].kind = call[u].kind
          /\ call'[u].done /\ call'[u].status = status
    /\ \A u \in Threads : u \notin Foremost(m) => call'[u] = call[u]
    /\ \A u \in Threads : pc'[u] \notin UsesFiles
    /\ UNCHANGED calls

LEMMA CallFinish ==
    ASSUME QueueInv, CallInv, NEW t \in Threads, pc[t] \in Leads,
           NEW m \in 1..Len(writers), NEW status, NEW p, p = pc \/ p = SignalAll(pc),
           Finish(t, writers[m], status, p)
    PROVE  CallInv' /\ Answers(m, status)
<1> DEFINE n == CHOOSE i \in DOMAIN writers : writers[i] = writers[m]
           rest == SubSeq(writers, n + 1, Len(writers))
           Ready == {writers[i] : i \in 1..n} \ {t}
           Signalled == Ready \cup (IF rest = <<>> THEN {} ELSE {rest[1]})
<1>1. /\ writers \in Seq(Threads) /\ Len(writers) \in Nat /\ DOMAIN writers = 1..Len(writers)
      /\ call \in [Threads -> Call]
  BY DEF QueueInv, QueueTypeOK
<1>2. n = m
  BY <1>1 DEF CallInv, Distinct
<1>3. /\ writers' = rest
      /\ call' = [u \in Threads |-> IF u \in Ready \cup {t}
                                    THEN [call[u] EXCEPT !.done = TRUE, !.status = status]
                                    ELSE call[u]]
      /\ pc' = [u \in Threads |-> IF u = t THEN "returned"
                                  ELSE IF u \in Signalled /\ p[u] = "waiting" THEN "woken" ELSE p[u]]
      /\ UNCHANGED calls
  BY DEF Finish
<1> HIDE DEF n
<1>4. /\ Len(rest) = Len(writers) - m
      /\ \A i \in 1..Len(rest) : rest[i] = writers[m + i]
  BY <1>1, <1>2, RestOfQueue
<1> HIDE DEF rest
<1>5. writers[1] = t /\ Len(writers) > 0
  BY DEF QueueInv, HeadLeads
<1>6. Foremost(m) = Ready \cup {t}
  BY <1>1, <1>2, <1>5 DEF Foremost
<1> DEFINE Ended(c) == [c EXCEPT !.done = TRUE, !.status = status]
<1>7. \A c \in Call : /\ Ended(c).id = c.id /\ Ended(c).kind = c.kind
                      /\ Ended(c).done = TRUE /\ Ended(c).status = status
  <2> SUFFICES ASSUME NEW c \in Call
               PROVE  /\ Ended(c).id = c.id /\ Ended(c).kind = c.kind
                      /\ Ended(c).done = TRUE /\ Ended(c).status = status
    OBVIOUS
  <2> QED
    BY DEF Call
<1>8. \A u \in Threads : call'[u] = IF u \in Foremost(m) THEN Ended(call[u]) ELSE call[u]
  BY <1>3, <1>6
<1> HIDE DEF Ended, Ready
<1>9. \A u \in Threads :
        /\ u \in Foremost(m) => /\ call'[u].id = call[u].id /\ call'[u].kind = call[u].kind
                             /\ call'[u].done = TRUE /\ call'[u].status = status
        /\ u \notin Foremost(m) => call'[u] = call[u]
  BY <1>1, <1>7, <1>8
<1>10. \A u \in Threads :
         /\ u # t => /\ pc'[u] \in Waits <=> pc[u] \in Waits
                     /\ pc'[u] \notin Leads
                     /\ pc'[u] = "returned" <=> pc[u] = "returned"
         /\ pc'[t] = "returned"
  <2>1. \A u \in Threads : /\ p[u] \in Leads <=> pc[u] \in Leads
                           /\ p[u] \in Waits <=> pc[u] \in Waits
                           /\ p[u] = "returned" <=> pc[u] = "returned"
    BY DEF QueueInv, QueueTypeOK, SignalAll, Places, Leads, UsesFiles, Waits
  <2>2. \A u \in Threads : pc[u] \in Leads => u = t
    BY DEF QueueInv, HeadLeads
  <2> HIDE DEF Signalled
  <2>3. \A u \in Threads : pc'[u] = IF u = t THEN "returned"
                                    ELSE IF u \in Signalled /\ p[u] = "waiting" THEN "woken" ELSE p[u]
    BY <1>3
  <2>4. {"woken", "waiting"} = Waits /\ {"woken", "waiting", "returned"} \cap Leads = {}
    BY DEF Waits, Leads, UsesFiles
  <2> QED
    BY <2>1, <2>2, <2>3, <2>4
<1>11. "returned" \notin Waits \cup Leads \cup UsesFiles /\ UsesFiles \subseteq Leads
  BY DEF Waits, Leads, UsesFiles
<1>12. Answers(m, status)
  BY <1>3, <1>9, <1>10, <1>11 DEF Answers
<1>13. \A u \in Threads : InQueue(u)' => InQueue(u) /\ u \notin Foremost(m) /\ u # t
  <2> SUFFICES ASSUME NEW u \in Threads, NEW i \in 1..Len(rest), rest[i] = u
               PROVE  InQueue(u) /\ u \notin Foremost(m) /\ u # t
    BY <1>3 DEF InQueue
  <2> DEFINE j == m + i
  <2>1. j \in 1..Len(writers) /\ j > m /\ writers[j] = u
    BY <1>1, <1>4
  <2> HIDE DEF j
  <2>2. \A h \in 1..m : h \in 1..Len(writers) /\ h # j
    BY <1>1, <2>1
  <2>3. u \notin Foremost(m)
    BY <2>1, <2>2 DEF CallInv, Distinct, Foremost
  <2> QED
    BY <1>6, <2>1, <2>3 DEF InQueue
<1>14. Distinct'
  <2> SUFFICES ASSUME NEW i \in 1..Len(rest), NEW j \in 1..Len(rest), rest[i] = rest[j]
               PROVE  i = j
    BY <1>3 DEF Distinct
  <2>1. m + i \in 1..Len(writers) /\ m + j \in 1..Len(writers)
    BY <1>1, <1>4
  <2>2. writers[m + i] = writers[m + j]
    BY <1>4
  <2>3. m + i = m + j
    BY <2>1, <2>2 DEF CallInv, Distinct
  <2> QED
    BY <1>1, <1>4, <2>3
<1>15. QueuedIsOpen'
  <2> SUFFICES ASSUME NEW u \in Threads, InQueue(u)'
               PROVE  pc'[u] \in Waits /\ ~call'[u].done
    BY DEF QueuedIsOpen
  <2>1. pc[u] \in Waits \cup Leads /\ ~call[u].done /\ u \notin Foremost(m) /\ u # t
    BY <1>13 DEF CallInv, QueuedIsOpen
  <2>2. pc[u] \notin Leads
    BY <1>5, <2>1 DEF QueueInv, HeadLeads
  <2> QED
    BY <1>9, <1>10, <2>1, <2>2
<1>16. Called' /\ CallIsNamed'
  <2>1. \A u \in Threads : call'[u].id = call[u].id /\ call'[u].kind = call[u].kind
    BY <1>9
  <2>2. \A u \in Threads : pc'[u] \in Waits \cup Leads \cup {"returned"}
           => pc[u] \in Waits \cup Leads \cup {"returned"}
    BY <1>10
  <2> QED
    BY <1>3, <2>1, <2>2 DEF CallInv, Called, CallIsNamed
<1>17. ReturnedIsDone'
  <2> SUFFICES ASSUME NEW u \in Threads, pc'[u] = "returned"
               PROVE  call'[u].done
    BY DEF ReturnedIsDone
  <2> QED
    BY <1>6, <1>9, <1>10 DEF CallInv, ReturnedIsDone
<1> QED
  BY <1>12, <1>14, <1>15, <1>16, <1>17 DEF CallInv

\* The leader goes from one part of its work on log and memtable to the next.
LEMMA CallWork ==
    ASSUME QueueInv, CallInv, NEW t \in Threads,
           StartGroup(t) \/ AddRecord(t) \/ Sync(t) \/ InsertInto(t)
    PROVE  CallInv'
<1>1. UNCHANGED <<call, calls, writers>> /\ pc[t] \in Leads
  BY DEF StartGroup, AddRecord, Sync, InsertInto, InRoom, queueVars, Leads, UsesFiles
<1>2. \E q \in UsesFiles : \A u \in Threads : pc'[u] = IF u = t THEN q ELSE pc[u]
  <2>1. pc \in [Threads -> Places] /\ pc[t] \in UsesFiles => pc[t] \in UsesFiles
    BY DEF QueueInv, QueueTypeOK
  <2>2. CASE \E q \in UsesFiles : pc' = [pc EXCEPT ![t] = q]
    BY <2>2 DEF QueueInv, QueueTypeOK
  <2>3. CASE UNCHANGED pc /\ pc[t] \in UsesFiles
    BY <2>3
  <2>4. StartGroup(t) \/ AddRecord(t) \/ Sync(t) => \E q \in UsesFiles : pc' = [pc EXCEPT ![t] = q]
    BY DEF StartGroup, AddRecord, Sync, Go, UsesFiles
  <2>5. InsertInto(t) => \/ \E q \in UsesFiles : pc' = [pc EXCEPT ![t] = q]
                         \/ UNCHANGED pc /\ pc[t] \in UsesFiles
    BY DEF InsertInto, Go, UsesFiles
  <2> QED
    BY <2>2, <2>3, <2>4, <2>5
<1>3. "returned" \notin UsesFiles /\ UsesFiles \subseteq Leads
  BY DEF UsesFiles, Leads
<1> QED
  BY <1>1, <1>2, <1>3, CallsKept DEF SameCall, Asks

\* The group of the thread at work is a front part of the queue: threads whose
\* calls are open.
LEMMA Members ==
    ASSUME QueueInv, CallInv, NEW t \in Threads, pc[t] \in UsesFiles
    PROVE  \E m \in 1..Len(writers) :
              /\ Elements(group.threads) = Foremost(m) /\ Last(group.threads) = writers[m]
              /\ \A u \in Foremost(m) : u \in Threads /\ ~call[u].done /\ Asks(u)
<1>1. PICK m \in 1..Len(writers) : group.threads = SubSeq(writers, 1, m)
  BY DEF QueueInv, GroupIsFront
<1>2. writers \in Seq(Threads) /\ \A i \in 1..m : writers[i] \in Threads /\ i \in 1..Len(writers)
  BY <1>1 DEF QueueInv, QueueTypeOK
<1>3. Len(SubSeq(writers, 1, m)) = IF 1 <= m THEN m - 1 + 1 ELSE 0
  BY <1>2, SubSeqProperties
<1>4. \A i \in 1 .. m - 1 + 1 : SubSeq(writers, 1, m)[i] = writers[1 + i - 1]
  BY <1>2, SubSeqProperties
<1>5. m \in Nat \ {0} /\ Len(group.threads) = m /\ \A i \in 1..m : group.threads[i] = writers[i]
  BY <1>1, <1>3, <1>4
<1>6. Elements(group.threads) = Foremost(m) /\ Last(group.threads) = writers[m]
  BY <1>5 DEF Elements, Foremost, Last
<1>7. \A u \in Foremost(m) : u \in Threads /\ ~call[u].done /\ Asks(u)
  BY <1>2 DEF CallInv, QueuedIsOpen, InQueue, Foremost, Asks
<1> QED
  BY <1>6, <1>7

\* The head gives up, or has nothing to log: its call is answered, and nobody
\* uses log and memtable.
LEMMA Alone ==
    ASSUME QueueInv, CallInv, NEW t \in Threads, YieldError(t) \/ NewLogFails(t) \/ NullBatch(t)
    PROVE  /\ \A u \in Threads : pc[u] \notin UsesFiles
           /\ Foremost(1) = {t} /\ 1 \in 1..Len(writers) /\ InQueue(t) /\ pc[t] \in Leads
           /\ UNCHANGED <<group, log, entries, last_sequence>>
           /\ CallInv'
           /\ \/ Answers(1, "error")
              \/ Answers(1, "ok") /\ call[t].kind.null
<1>1. pc[t] = "room" /\ pc[t] \in Leads /\ pc[t] \notin UsesFiles
      /\ UNCHANGED <<group, log, entries, last_sequence>>
  BY DEF YieldError, NewLogFails, NullBatch, NeedsNewMemTable, InRoom, dataVars, Leads, UsesFiles
<1>2. 1 \in 1..Len(writers) /\ writers[1] = t
  BY <1>1 DEF QueueInv, QueueTypeOK, HeadLeads
<1>3. \A u \in Threads : pc[u] \notin UsesFiles
  BY <1>1, <1>2 DEF QueueInv, HeadLeads, Leads
<1>4. Foremost(1) = {t} /\ InQueue(t)
  BY <1>2 DEF Foremost, InQueue
<1>5. CASE Finish(t, t, "error", pc)
  BY <1>1, <1>2, <1>3, <1>4, <1>5, CallFinish
<1>6. CASE Finish(t, t, "ok", pc) /\ call[t].kind.null
  BY <1>1, <1>2, <1>3, <1>4, <1>6, CallFinish
<1>7. Finish(t, t, "error", pc) \/ (Finish(t, t, "ok", pc) /\ call[t].kind.null)
  BY DEF YieldError, NewLogFails, NullBatch
<1> QED
  BY <1>5, <1>6, <1>7

LEMMA CallEndGroup ==
    ASSUME QueueInv, CallInv, NEW t \in Threads, EndGroup(t)
    PROVE  /\ CallInv'
           /\ \E m \in 1..Len(writers) :
                 /\ Elements(group.threads) = Foremost(m)
                 /\ \A u \in Foremost(m) : u \in Threads /\ ~call[u].done /\ Asks(u)
                 /\ Answers(m, IF pc[t] = "inserted" THEN "ok" ELSE "error")
<1>1. pc[t] \in UsesFiles /\ pc[t] \in Leads
  BY DEF EndGroup, UsesFiles, Leads
<1>2. PICK m \in 1..Len(writers) :
        /\ Elements(group.threads) = Foremost(m) /\ Last(group.threads) = writers[m]
        /\ \A u \in Foremost(m) : u \in Threads /\ ~call[u].done /\ Asks(u)
  BY <1>1, Members
<1> DEFINE status == IF pc[t] = "inserted" THEN "ok" ELSE "error"
<1>3. \E p \in {pc, SignalAll(pc)} : Finish(t, writers[m], status, p)
  BY <1>2 DEF EndGroup
<1>4. CallInv' /\ Answers(m, status)
  <2> HIDE DEF status
  <2>1. PICK p \in {pc, SignalAll(pc)} : Finish(t, writers[m], status, p)
    BY <1>3
  <2>2. p = pc \/ p = SignalAll(pc)
    BY <2>1
  <2> QED
    BY <1>1, <2>1, <2>2, CallFinish
<1> QED
  BY <1>2, <1>4

LEMMA CallInit == Init => CallInv
<1> SUFFICES ASSUME Init
             PROVE  CallInv
  OBVIOUS
<1>1. writers = <<>> /\ \A t \in Threads : pc[t] = "idle" /\ calls[t] = 0
  BY DEF Init
<1> QED
  BY <1>1 DEF CallInv, Distinct, QueuedIsOpen, InQueue, Called, CallIsNamed, ReturnedIsDone, Waits,
     Leads, UsesFiles

\* Every step is one of these.
LEMMA StepKinds ==
    ASSUME QueueInv, [Next]_vars
    PROVE  \/ Quiet
           \/ \E t \in Threads : \/ \E k \in Kinds : Write(t, k)
                                 \/ YieldError(t) \/ NewLogFails(t) \/ NullBatch(t)
                                 \/ StartGroup(t) \/ AddRecord(t) \/ Sync(t) \/ InsertInto(t)
                                 \/ EndGroup(t)
<1>1. CASE BackgroundStep \/ UNCHANGED vars
  BY <1>1, QuietBackground
<1>2. ASSUME NEW t \in Threads, ThreadStep(t) \/ SpuriousWakeUp(t)
      PROVE  \/ Quiet
             \/ YieldError(t) \/ NewLogFails(t) \/ NullBatch(t)
             \/ StartGroup(t) \/ AddRecord(t) \/ Sync(t) \/ InsertInto(t)
             \/ EndGroup(t)
  BY <1>2, QuietWoken, QuietRoom, QuietElsewhere DEF ThreadStep
<1> QED
  BY <1>1, <1>2 DEF Next

LEMMA CallStep == QueueInv /\ CallInv /\ [Next]_vars => CallInv'
<1> SUFFICES ASSUME QueueInv, CallInv, [Next]_vars
             PROVE  CallInv'
  OBVIOUS
<1> QED
  BY StepKinds, CallQuiet, CallWrite, Alone, CallWork, CallEndGroup

-----------------------------------------------------------------------------
(* The steps as the data see them.                                         *)

LEMMA DataInit == Init => DataInv
<1> SUFFICES ASSUME Init
             PROVE  DataInv
  OBVIOUS
<1>1. /\ group = NoGroup /\ log = <<>> /\ entries = {} /\ last_sequence = 0
      /\ \A t \in Threads : pc[t] = "idle" /\ calls[t] = 0
  BY DEF Init
<1>2. DataTypeOK
  BY <1>1 DEF DataTypeOK, NoGroup
<1>3. GroupIsSound /\ GroupIsUsed /\ InsertedInOrder
  BY <1>1 DEF GroupIsSound, GroupIsUsed, InsertedInOrder, UsesFiles, NoGroup
<1>4. EntriesInv /\ NothingEarly /\ AnswerIsTrue
  BY <1>1 DEF EntriesInv, NothingEarly, AnswerIsTrue, Answered
<1> QED
  BY <1>2, <1>3, <1>4 DEF DataInv

\* What the data say of a call depends on its id, kind, done and status.
LEMMA CallsAlike ==
    ASSUME NEW t \in Threads, call'[t].id = call[t].id, call'[t].kind = call[t].kind
    PROVE  OpsOfCall(t)' = OpsOfCall(t)
BY DEF OpsOfCall, OpsOf

\* Log and memtable only grow, and what is synced stays so.
Grows ==
    /\ entries \subseteq entries' /\ last_sequence <= last_sequence'
    /\ \A i \in 1..Len(log) :
          /\ i \in 1..Len(log') /\ log'[i].ops = log[i].ops /\ log'[i].first = log[i].first
          /\ log[i].synced => log'[i].synced

LEMMA Stays ==
    ASSUME DataTypeOK, UNCHANGED <<log, entries, last_sequence>>
    PROVE  Grows /\ last_sequence' \in Nat
BY DEF Grows, DataTypeOK

LEMMA StaysTrue ==
    ASSUME DataTypeOK, Grows, last_sequence' \in Nat,
           NEW t \in Threads, call'[t].id = call[t].id, call'[t].kind = call[t].kind, Fulfilled(t)
    PROVE  Fulfilled(t)'
<1>1. OpsOfCall(t)' = OpsOfCall(t)
  BY CallsAlike
<1>2. \A op : Visible(op) => Visible(op)'
  <2>1. \A e \in entries : e.seq \in Nat
    BY DEF DataTypeOK
  <2> QED
    BY <2>1 DEF Visible, Grows, DataTypeOK
<1>3. ASSUME NEW i \in 1..Len(log), OpsOfCall(t) \subseteq Elements(log[i].ops),
             call[t].kind.sync => log[i].synced
      PROVE  \E j \in 1..Len(log') : /\ OpsOfCall(t)' \subseteq Elements(log'[j].ops)
                                     /\ call'[t].kind.sync => log'[j].synced
  BY <1>1, <1>3 DEF Grows
<1> QED
  BY <1>1, <1>2, <1>3 DEF Fulfilled, Elements

LEMMA DataQuiet == ASSUME QueueInv, CallInv, DataInv, Quiet PROVE DataInv'
<1>1. /\ UNCHANGED <<calls, writers, group, log, entries, last_sequence>>
      /\ \A t \in Threads : SameCall(t) /\ OpsOfCall(t)' = OpsOfCall(t)
  BY CallsAlike DEF Quiet, SameCall
<1>2. DataTypeOK' /\ InsertedInOrder'
  BY <1>1 DEF DataInv, DataTypeOK, InsertedInOrder
<1>3. GroupIsSound'
  <2> SUFFICES ASSUME NEW t \in Threads, pc'[t] \in UsesFiles
               PROVE  GroupInv(t)'
    BY DEF GroupIsSound
  <2>1. pc'[t] = pc[t] /\ logfile_number' = logfile_number /\ pc[t] \in UsesFiles
    BY DEF Quiet
  <2>2. GroupInv(t)
    BY <2>1 DEF DataInv, GroupIsSound
  <2>3. \A u \in Elements(group.threads) : u \in Threads
    BY <2>1, Members
  <2>4. IsLogged(t) => IsLogged(t)'
    BY <1>1, <2>1 DEF IsLogged, SameCall
  <2>5. \A u \in Elements(group.threads) :
          OpsOfCall(u)' = OpsOfCall(u) /\ call'[u].kind = call[u].kind
    BY <1>1, <2>3 DEF SameCall
  <2>6. call'[t].kind = call[t].kind /\ Elements(group.threads)' = Elements(group.threads)
        /\ Elements(group.ops)' = Elements(group.ops)
    BY <1>1 DEF SameCall, Elements
  <2> QED
    BY <1>1, <2>1, <2>2, <2>4, <2>5, <2>6 DEF GroupInv
<1>4. GroupIsUsed'
  <2> SUFFICES ASSUME \A t \in Threads : pc'[t] \notin UsesFiles
               PROVE  group = NoGroup
    BY <1>1 DEF GroupIsUsed, NoGroup
  <2>1. \A t \in Threads : pc[t] \notin UsesFiles
    BY DEF Quiet
  <2> QED
    BY <2>1 DEF DataInv, GroupIsUsed
<1>5. EntriesInv'
  BY <1>1 DEF DataInv, EntriesInv
<1>6. NothingEarly'
  BY <1>1 DEF DataInv, NothingEarly, Answered, EntryIsCurrent, SameCall
<1>7. AnswerIsTrue'
  <2> SUFFICES ASSUME NEW t \in Threads, Answered(t, "ok")'
               PROVE  Fulfilled(t)'
    BY DEF AnswerIsTrue
  <2>1. Fulfilled(t)
    BY <1>1 DEF DataInv, AnswerIsTrue, Answered, SameCall
  <2> QED
    BY <1>1, <2>1, Stays, StaysTrue DEF DataInv, SameCall
<1> QED
  BY <1>2, <1>3, <1>4, <1>5, <1>6, <1>7 DEF DataInv

LEMMA DataWrite ==
    ASSUME QueueInv, CallInv, DataInv, NEW t \in Threads, NEW k \in Kinds, Write(t, k)
    PROVE  DataInv'
<1>1. UNCHANGED <<group, log, entries, last_sequence, logfile_number>>
  BY DEF Write, dataVars, memVars
<1>2. /\ ~InQueue(t) /\ ~Asks(t)
      /\ \A u \in Threads : calls'[u] = IF u = t THEN calls[t] + 1 ELSE calls[u]
      /\ \A u \in Threads : u # t => pc'[u] = pc[u] /\ call'[u] = call[u]
      /\ pc'[t] \in {"room", "waiting"}
      /\ call'[t].id = <<t, calls[t] + 1>> /\ ~call'[t].done
  BY CallWrite
<1>3. \A u \in Threads : u # t => OpsOfCall(u)' = OpsOfCall(u)
  BY <1>2, CallsAlike
<1>4. DataTypeOK' /\ InsertedInOrder'
  BY <1>1 DEF DataInv, DataTypeOK, InsertedInOrder
<1>5. pc[t] \notin UsesFiles /\ pc'[t] \notin UsesFiles
  BY <1>2 DEF Asks, UsesFiles, Leads
<1>6. GroupIsSound'
  <2> SUFFICES ASSUME NEW v \in Threads, pc'[v] \in UsesFiles
               PROVE  GroupInv(v)'
    BY DEF GroupIsSound
  <2>1. pc'[v] = pc[v] /\ call'[v] = call[v] /\ pc[v] \in UsesFiles
    BY <1>2, <1>5
  <2>2. GroupInv(v)
    BY <2>1 DEF DataInv, GroupIsSound
  <2>3. \A u \in Elements(group.threads) : u \in Threads /\ Asks(u)
    BY <2>1, Members
  <2>4. \A u \in Elements(group.threads) : OpsOfCall(u)' = OpsOfCall(u) /\ call'[u] = call[u]
    BY <1>2, <1>3, <2>3
  <2>5. IsLogged(v) => IsLogged(v)'
    BY <1>1, <2>1 DEF IsLogged
  <2>6. Elements(group.threads)' = Elements(group.threads) /\ Elements(group.ops)' = Elements(group.ops)
    BY <1>1 DEF Elements
  <2> QED
    BY <1>1, <2>1, <2>2, <2>4, <2>5, <2>6 DEF GroupInv
<1>7. GroupIsUsed'
  <2> SUFFICES ASSUME \A u \in Threads : pc'[u] \notin UsesFiles
               PROVE  group = NoGroup
    BY <1>1 DEF GroupIsUsed, NoGroup
  <2>1. \A u \in Threads : pc[u] \notin UsesFiles
    BY <1>2, <1>5
  <2> QED
    BY <2>1 DEF DataInv, GroupIsUsed
<1>8. calls \in [Threads -> Nat]
  BY DEF QueueInv, QueueTypeOK
<1>9. EntriesInv'
  <2>1. \A e \in entries : \E u \in Threads : e.op[1][1] = u /\ e.op[1][2] <= calls'[u]
    <3> SUFFICES ASSUME NEW e \in entries
                 PROVE  \E u \in Threads : e.op[1][1] = u /\ e.op[1][2] <= calls'[u]
      OBVIOUS
    <3>1. PICK u \in Threads : e.op[1][1] = u /\ e.op[1][2] <= calls[u]
      BY DEF DataInv, EntriesInv
    <3>2. e.op[1][2] \in Nat
      BY DEF DataInv, DataTypeOK, Op
    <3> QED
      BY <1>2, <1>8, <3>1, <3>2
  <2> QED
    BY <1>1, <2>1 DEF DataInv, EntriesInv
<1>10. NothingEarly'
  <2> SUFFICES ASSUME NEW u \in Threads, NEW e \in entries, calls'[u] > 0, e.op[1] = call'[u].id
               PROVE  Answered(u, "ok")' \/ (~call'[u].done /\ EntryIsCurrent(e)')
    BY <1>1 DEF NothingEarly
  <2>1. CASE u = t
    <3>1. PICK v \in Threads : e.op[1][1] = v /\ e.op[1][2] <= calls[v]
      BY DEF DataInv, EntriesInv
    <3>2. e.op[1][1] = t /\ e.op[1][2] = calls[t] + 1
      BY <1>2, <2>1
    <3> QED
      BY <1>8, <3>1, <3>2
  <2>2. CASE u # t
    BY <1>1, <1>2, <2>2 DEF DataInv, NothingEarly, Answered, EntryIsCurrent
  <2> QED
    BY <2>1, <2>2
<1>11. AnswerIsTrue'
  <2> SUFFICES ASSUME NEW u \in Threads, Answered(u, "ok")'
               PROVE  Fulfilled(u)'
    BY DEF AnswerIsTrue
  <2>1. u # t /\ call'[u] = call[u] /\ calls'[u] = calls[u]
    BY <1>2 DEF Answered
  <2>2. Fulfilled(u)
    BY <2>1 DEF DataInv, AnswerIsTrue, Answered
  <2> QED
    BY <1>1, <2>1, <2>2, Stays, StaysTrue DEF DataInv
<1> QED
  BY <1>4, <1>6, <1>7, <1>9, <1>10, <1>11 DEF DataInv

LEMMA DataAlone ==
    ASSUME QueueInv, CallInv, DataInv, NEW t \in Threads,
           YieldError(t) \/ NewLogFails(t) \/ NullBatch(t)
    PROVE  DataInv'
<1>1. /\ \A u \in Threads : pc[u] \notin UsesFiles
      /\ Foremost(1) = {t} /\ InQueue(t) /\ pc[t] \in Leads
      /\ UNCHANGED <<group, log, entries, last_sequence>>
      /\ \/ Answers(1, "error")
         \/ Answers(1, "ok") /\ call[t].kind.null
  BY Alone
<1>2. group = NoGroup
  BY <1>1 DEF DataInv, GroupIsUsed
<1>3. /\ \A u \in Threads : pc'[u] \notin UsesFiles
      /\ UNCHANGED calls
      /\ \A u \in Threads : u # t => call'[u] = call[u]
      /\ call'[t].id = call[t].id /\ call'[t].kind = call[t].kind
      /\ call'[t].status = "error" \/ call[t].kind.null
  BY <1>1 DEF Answers
<1>4. \A u \in Threads : OpsOfCall(u)' = OpsOfCall(u)
  BY <1>3, CallsAlike
<1>5. DataTypeOK' /\ InsertedInOrder'
  BY <1>1 DEF DataInv, DataTypeOK, InsertedInOrder
<1>6. GroupIsSound' /\ GroupIsUsed'
  BY <1>1, <1>2, <1>3 DEF GroupIsSound, GroupIsUsed, NoGroup
<1>7. EntriesInv'
  BY <1>1, <1>3 DEF DataInv, EntriesInv
<1>8. calls[t] > 0 /\ ~call[t].done
  BY <1>1 DEF CallInv, Called, QueuedIsOpen
<1>9. \A e \in entries : ~EntryIsCurrent(e)
  BY <1>2 DEF EntryIsCurrent, NoGroup
<1>10. NothingEarly'
  <2> SUFFICES ASSUME NEW u \in Threads, NEW e \in entries, calls[u] > 0, e.op[1] = call[u].id
               PROVE  Answered(u, "ok")' \/ (~call'[u].done /\ EntryIsCurrent(e)')
    BY <1>1, <1>3 DEF NothingEarly
  <2>1. Answered(u, "ok") /\ u # t
    BY <1>8, <1>9 DEF DataInv, NothingEarly, Answered
  <2> QED
    BY <1>3, <2>1 DEF Answered
<1>11. AnswerIsTrue'
  <2> SUFFICES ASSUME NEW u \in Threads, Answered(u, "ok")'
               PROVE  Fulfilled(u)'
    BY DEF AnswerIsTrue
  <2>1. CASE u # t
    <3>1. Fulfilled(u)
      BY <1>3, <2>1 DEF DataInv, AnswerIsTrue, Answered
    <3> QED
      BY <1>1, <1>3, <2>1, <3>1, Stays, StaysTrue DEF DataInv
  <2>2. CASE u = t
    <3>1. call[t].kind.null
      BY <1>3, <2>2 DEF Answered
    <3>2. call[t].kind \in Kinds /\ call[t].kind.ops = 0
      BY <1>8, <3>1, QueueAssumption DEF CallInv, CallIsNamed
    <3>3. OpsOfCall(t) = {}
      BY <3>2 DEF OpsOfCall, OpsOf
    <3> QED
      BY <1>3, <1>4, <2>2, <3>1, <3>3 DEF Fulfilled
  <2> QED
    BY <2>1, <2>2
<1> QED
  BY <1>5, <1>6, <1>7, <1>10, <1>11 DEF DataInv

\* The group that StartGroup builds, and its batch.
LEMMA Built ==
    ASSUME QueueInv, CallInv, NEW t \in Threads, pc[t] \in Leads
    PROVE  \E m \in 1..Len(writers) :
              /\ Len(BuildBatchGroup) = m /\ \A i \in 1..m : BuildBatchGroup[i] = writers[i]
              /\ DOMAIN BuildBatchGroup = 1..m
              /\ \A u \in Foremost(m) : /\ u \in Threads /\ calls[u] > 0
                                        /\ call[u].kind.sync => call[t].kind.sync
<1>1. writers \in Seq(Threads) /\ Len(writers) > 0 /\ writers[1] = t
  BY DEF QueueInv, QueueTypeOK, HeadLeads
<1>2. PICK m \in 1..Len(writers) :
        /\ BuildBatchGroup = SubSeq(writers, 1, m)
        /\ \A i \in 2..m : call[writers[i]].kind.sync => call[writers[1]].kind.sync
  BY <1>1, GroupExists
<1>3. \A i \in 1..m : writers[i] \in Threads /\ i \in 1..Len(writers)
  BY <1>1, <1>2
<1>4. Len(SubSeq(writers, 1, m)) = IF 1 <= m THEN m - 1 + 1 ELSE 0
  BY <1>3, SubSeqProperties
<1>5. \A i \in 1 .. m - 1 + 1 : SubSeq(writers, 1, m)[i] = writers[1 + i - 1]
  BY <1>3, SubSeqProperties
<1>6. SubSeq(writers, 1, m) \in Seq(Threads)
  BY <1>3, SubSeqProperties
<1>7. DOMAIN SubSeq(writers, 1, m) = 1..Len(SubSeq(writers, 1, m))
  BY <1>6, LenProperties
<1>8. /\ Len(BuildBatchGroup) = m /\ \A i \in 1..m : BuildBatchGroup[i] = writers[i]
      /\ DOMAIN BuildBatchGroup = 1..m
  BY <1>2, <1>4, <1>5, <1>7
<1>9. \A u \in Foremost(m) : u \in Threads /\ calls[u] > 0
  BY <1>3 DEF Foremost, InQueue, CallInv, QueuedIsOpen, Called
<1>10. \A u \in Foremost(m) : call[u].kind.sync => call[t].kind.sync
  <2> SUFFICES ASSUME NEW i \in 1..m, call[writers[i]].kind.sync
               PROVE  call[t].kind.sync
    BY DEF Foremost
  <2>1. i = 1 \/ i \in 2..m
    BY <1>2
  <2> QED
    BY <1>1, <1>2, <2>1
<1> QED
  BY <1>8, <1>9, <1>10

\* The operations of a call, in a sequence and in a set.
LEMMA OpsAreTyped ==
    ASSUME QueueInv, CallInv, NEW u \in Threads, calls[u] > 0
    PROVE  /\ Ops(u) \in Seq(Op)
           /\ \A op : op \in Elements(Ops(u)) <=> op \in OpsOfCall(u)
<1>1. call[u].kind \in Kinds /\ call[u].id = <<u, calls[u]>> /\ calls[u] \in Nat
  BY DEF CallInv, CallIsNamed, QueueInv, QueueTypeOK
<1> DEFINE n == call[u].kind.ops
           id == call[u].id
<1>2. n \in Nat
  BY <1>1, QueueAssumption
<1>3. id \in Threads \X Nat
  BY <1>1
<1>4. Ops(u) = [i \in 1..n |-> <<id, i>>]
  BY DEF Ops
<1>5. OpsOfCall(u) = {<<id, i>> : i \in 1..n}
  BY DEF OpsOfCall, OpsOf
<1> HIDE DEF n, id
<1>6. \A i \in 1..n : <<id, i>> \in Op
  BY <1>2, <1>3 DEF Op
<1>7. Ops(u) \in Seq(Op) /\ Len(Ops(u)) = n /\ \A i \in 1..n : Ops(u)[i] = <<id, i>>
  BY <1>2, <1>4, <1>6
<1>8. Elements(Ops(u)) = OpsOfCall(u)
  BY <1>5, <1>7 DEF Elements
<1> QED
  BY <1>7, <1>8

LEMMA DataStartGroup ==
    ASSUME QueueInv, CallInv, DataInv, NEW t \in Threads, StartGroup(t)
    PROVE  DataInv'
<1> DEFINE batches == [i \in DOMAIN BuildBatchGroup |-> Ops(BuildBatchGroup[i])]
<1>1. /\ pc[t] = "room" /\ pc[t] \in Leads /\ pc' = [pc EXCEPT ![t] = "append"]
      /\ UNCHANGED <<call, calls, writers, log, entries, last_sequence, logfile_number>>
      /\ group' = [threads |-> BuildBatchGroup, first |-> last_sequence + 1, inserted |-> 0,
                   ops |-> FlattenSeq(batches)]
  BY DEF StartGroup, InRoom, Leads, queueVars, dataVars, memVars
<1>2. \A u \in Threads : pc[u] \in UsesFiles => FALSE
  BY <1>1 DEF QueueInv, HeadLeads, Leads, UsesFiles
<1>3. group = NoGroup
  BY <1>2 DEF DataInv, GroupIsUsed
<1>4. \A u \in Threads : pc'[u] = IF u = t THEN "append" ELSE pc[u]
  BY <1>1 DEF QueueInv, QueueTypeOK
<1>5. PICK m \in 1..Len(writers) :
        /\ Len(BuildBatchGroup) = m /\ \A i \in 1..m : BuildBatchGroup[i] = writers[i]
        /\ DOMAIN BuildBatchGroup = 1..m
        /\ \A u \in Foremost(m) : /\ u \in Threads /\ calls[u] > 0
                                  /\ call[u].kind.sync => call[t].kind.sync
  BY <1>1, Built
<1>6. m \in Nat \ {0}
  BY DEF QueueInv, QueueTypeOK
<1>7. Elements(BuildBatchGroup) = Foremost(m)
  BY <1>5 DEF Elements, Foremost
<1>8. batches = [i \in 1..m |-> Ops(writers[i])]
  BY <1>5
<1> HIDE DEF batches
<1>9. Len(batches) = m /\ \A i \in 1..m : batches[i] = Ops(writers[i]) /\ writers[i] \in Foremost(m)
  BY <1>6, <1>8 DEF Foremost
<1>10. \A i \in 1..m : batches[i] \in Seq(Op)
         /\ \A op : op \in Elements(batches[i]) <=> op \in OpsOfCall(writers[i])
  <2> SUFFICES ASSUME NEW i \in 1..m
               PROVE  /\ batches[i] \in Seq(Op)
                      /\ \A op : op \in Elements(batches[i]) <=> op \in OpsOfCall(writers[i])
    OBVIOUS
  <2> DEFINE u == writers[i]
  <2>1. u \in Foremost(m) /\ batches[i] = Ops(u)
    BY <1>9
  <2>2. u \in Threads /\ calls[u] > 0
    BY <1>5, <2>1
  <2> HIDE DEF u
  <2>3. /\ Ops(u) \in Seq(Op)
        /\ \A op : op \in Elements(Ops(u)) <=> op \in OpsOfCall(u)
    BY <2>2, OpsAreTyped
  <2> QED
    BY <2>1, <2>3 DEF u
<1> DEFINE whole == FlattenSeq(batches)
<1>11. /\ whole \in Seq(Op)
       /\ \A op : op \in Elements(whole) <=> \E i \in 1..m : op \in Elements(batches[i])
  BY <1>6, <1>9, <1>10, Flattens
<1>12. \A op : op \in Elements(whole) <=> \E u \in Foremost(m) : op \in OpsOfCall(u)
  <2> HIDE DEF whole
  <2>1. ASSUME NEW op
        PROVE  (\E i \in 1..m : op \in Elements(batches[i]))
                  <=> \E u \in Foremost(m) : op \in OpsOfCall(u)
    <3>1. \A i \in 1..m : op \in Elements(batches[i]) <=> op \in OpsOfCall(writers[i])
      BY <1>10
    <3>2. \A u : u \in Foremost(m) <=> \E i \in 1..m : u = writers[i]
      BY DEF Foremost
    <3> QED
      BY <3>1, <3>2, Zenon
  <2> QED
    BY <1>11, <2>1
<1>13. /\ group'.threads = BuildBatchGroup /\ group'.first = last_sequence + 1
       /\ group'.inserted = 0 /\ group'.ops = whole
  BY <1>1
<1> HIDE DEF whole
<1>14. \A u \in Foremost(m) : OpsOfCall(u)' = OpsOfCall(u)
  BY <1>1 DEF OpsOfCall
<1>15. DataTypeOK'
  <2>1. Len(whole) \in Nat /\ last_sequence + 1 \in Nat
    BY <1>11 DEF DataInv, DataTypeOK
  <2> QED
    BY <1>1, <1>11, <1>13, <2>1 DEF DataInv, DataTypeOK
<1>16. GroupInv(t)'
  <2>1. Elements(group.threads)' = Foremost(m) /\ Elements(group.ops)' = Elements(whole)
    BY <1>7, <1>13 DEF Elements
  <2>2. pc'[t] = "append"
    BY <1>4
  <2> QED
    BY <1>1, <1>5, <1>12, <1>13, <1>14, <2>1, <2>2 DEF GroupInv
<1>17. GroupIsSound' /\ GroupIsUsed'
  BY <1>2, <1>4, <1>16 DEF GroupIsSound, GroupIsUsed, UsesFiles
<1>18. InsertedInOrder'
  BY <1>13 DEF InsertedInOrder
<1>19. group.inserted = 0
  BY <1>3 DEF NoGroup
<1>20. EntriesInv'
  BY <1>1, <1>13, <1>19 DEF DataInv, EntriesInv
<1>21. NothingEarly'
  <2>1. \A e \in entries : ~EntryIsCurrent(e)
    BY <1>19 DEF EntryIsCurrent
  <2> QED
    BY <1>1, <2>1 DEF DataInv, NothingEarly, Answered
<1>22. AnswerIsTrue'
  <2> SUFFICES ASSUME NEW u \in Threads, Answered(u, "ok")'
               PROVE  Fulfilled(u)'
    BY DEF AnswerIsTrue
  <2>1. Fulfilled(u)
    BY <1>1 DEF DataInv, AnswerIsTrue, Answered
  <2> QED
    BY <1>1, <2>1, Stays, StaysTrue DEF DataInv
<1> QED
  BY <1>15, <1>17, <1>18, <1>20, <1>21, <1>22 DEF DataInv

\* The thread that uses log and memtable is alone with them before and after a
\* step of its work.
LEMMA WorkAlone ==
    ASSUME QueueInv, DataInv, NEW t \in Threads, pc[t] \in UsesFiles, NEW q \in UsesFiles,
           pc' = [pc EXCEPT ![t] = q], GroupInv(t)'
    PROVE  GroupIsSound' /\ GroupIsUsed'
<1>1. \A u \in Threads : pc'[u] = IF u = t THEN q ELSE pc[u]
  BY DEF QueueInv, QueueTypeOK
<1>2. \A u \in Threads : pc[u] \in UsesFiles => u = t
  BY DEF QueueInv, HeadLeads, Leads
<1> QED
  BY <1>1, <1>2 DEF GroupIsSound, GroupIsUsed

\* What holds of entries and calls does not depend on where the record is.
LEMMA LogGrows ==
    ASSUME DataInv, Grows, UNCHANGED <<call, calls, group, entries, last_sequence>>
    PROVE  InsertedInOrder' /\ EntriesInv' /\ NothingEarly' /\ AnswerIsTrue'
<1>1. InsertedInOrder' /\ NothingEarly'
  BY DEF DataInv, InsertedInOrder, NothingEarly, Answered, EntryIsCurrent
<1>2. EntriesInv'
  <2>1. ASSUME NEW e \in entries
        PROVE  \E i \in 1..Len(log') : \E j \in 1..Len(log'[i].ops) :
                  log'[i].ops[j] = e.op /\ log'[i].first + j - 1 = e.seq
    <3>1. PICK i \in 1..Len(log) : \E j \in 1..Len(log[i].ops) :
            log[i].ops[j] = e.op /\ log[i].first + j - 1 = e.seq
      BY DEF DataInv, EntriesInv
    <3>2. i \in 1..Len(log') /\ log'[i].ops = log[i].ops /\ log'[i].first = log[i].first
      BY DEF Grows
    <3> QED
      BY <3>1, <3>2
  <2> QED
    BY <2>1 DEF DataInv, EntriesInv
<1>3. AnswerIsTrue'
  <2> SUFFICES ASSUME NEW u \in Threads, Answered(u, "ok")'
               PROVE  Fulfilled(u)'
    BY DEF AnswerIsTrue
  <2>1. Fulfilled(u) /\ last_sequence' \in Nat
    BY DEF DataInv, DataTypeOK, AnswerIsTrue, Answered
  <2> QED
    BY <2>1, StaysTrue DEF DataInv
<1> QED
  BY <1>1, <1>2, <1>3

LEMMA DataAddRecord ==
    ASSUME QueueInv, CallInv, DataInv, logfile_number \in Nat, NEW t \in Threads, AddRecord(t)
    PROVE  DataInv'
<1> DEFINE record == [file |-> logfile_number, first |-> group.first, ops |-> group.ops,
                      synced |-> FALSE]
<1>1. /\ pc[t] = "append" /\ pc[t] \in UsesFiles
      /\ UNCHANGED <<call, calls, writers, group, entries, last_sequence, logfile_number>>
  BY DEF AddRecord, UsesFiles, queueVars, memVars
<1>2. \/ log' = Append(log, record) /\ pc' = [pc EXCEPT ![t] = IF call[t].kind.sync THEN "sync" ELSE "insert"]
      \/ UNCHANGED log /\ pc' = [pc EXCEPT ![t] = "failed"]
  BY DEF AddRecord, Go
<1>3. record \in Record /\ record.ops = group.ops /\ record.first = group.first
      /\ record.file = logfile_number /\ log \in Seq(Record) /\ Len(log) \in Nat
  BY DEF DataInv, DataTypeOK, Record
<1> HIDE DEF record
<1>4. log' = Append(log, record) =>
        /\ log' \in Seq(Record) /\ Len(log') = Len(log) + 1 /\ log'[Len(log) + 1] = record
        /\ \A i \in 1..Len(log) : log'[i] = log[i]
  BY <1>3, AppendProperties
<1>5. Grows
  <2>1. CASE log' = Append(log, record)
    BY <1>1, <1>3, <1>4, <2>1 DEF Grows, DataInv, DataTypeOK
  <2>2. CASE UNCHANGED log
    BY <1>1, <2>2 DEF Grows, DataInv, DataTypeOK
  <2> QED
    BY <1>2, <2>1, <2>2
<1>6. DataTypeOK'
  BY <1>1, <1>2, <1>4 DEF DataInv, DataTypeOK
<1>7. GroupInv(t)
  BY <1>1 DEF DataInv, GroupIsSound
<1>8. \A u : OpsOfCall(u)' = OpsOfCall(u)
  BY <1>1 DEF OpsOfCall
<1>9. Elements(group.threads)' = Elements(group.threads) /\ Elements(group.ops)' = Elements(group.ops)
  BY <1>1 DEF Elements
<1>10. \A q : pc' = [pc EXCEPT ![t] = q] => pc'[t] = q
  BY DEF QueueInv, QueueTypeOK
<1>11. CASE log' = Append(log, record)
            /\ pc' = [pc EXCEPT ![t] = IF call[t].kind.sync THEN "sync" ELSE "insert"]
  <2> DEFINE q == IF call[t].kind.sync THEN "sync" ELSE "insert"
  <2>1. pc'[t] = q /\ q \in UsesFiles /\ q \in {"sync", "insert"}
    BY <1>10, <1>11 DEF UsesFiles
  <2>2. IsLogged(t)'
    <3>1. Len(log) + 1 \in 1..Len(log') /\ log'[Len(log) + 1] = record
      BY <1>3, <1>4, <1>11
    <3>2. pc'[t] # "sync" => ~call'[t].kind.sync
      BY <1>1, <2>1
    <3> QED
      BY <1>1, <1>3, <3>1, <3>2 DEF IsLogged
  <2>3. GroupInv(t)'
    BY <1>1, <1>7, <1>8, <1>9, <2>1, <2>2 DEF GroupInv
  <2>4. pc' = [pc EXCEPT ![t] = q]
    BY <1>11
  <2> HIDE DEF q
  <2> QED
    BY <1>1, <1>5, <1>6, <2>1, <2>3, <2>4, WorkAlone, LogGrows DEF DataInv
<1>12. CASE UNCHANGED log /\ pc' = [pc EXCEPT ![t] = "failed"]
  <2>1. pc'[t] = "failed" /\ "failed" \in UsesFiles
    BY <1>10, <1>12 DEF UsesFiles
  <2>2. GroupInv(t)'
    BY <1>1, <1>7, <1>8, <1>9, <2>1 DEF GroupInv
  <2> QED
    BY <1>1, <1>5, <1>6, <1>12, <2>1, <2>2, WorkAlone, LogGrows DEF DataInv
<1> QED
  BY <1>2, <1>11, <1>12

LEMMA DataSync ==
    ASSUME QueueInv, CallInv, DataInv, NEW t \in Threads, Sync(t)
    PROVE  DataInv'
<1> DEFINE Synced(i) == IF log[i].file = logfile_number THEN [log[i] EXCEPT !.synced = TRUE] ELSE log[i]
<1>1. /\ pc[t] = "sync" /\ pc[t] \in UsesFiles
      /\ UNCHANGED <<call, calls, writers, group, entries, last_sequence, logfile_number>>
  BY DEF Sync, UsesFiles, queueVars, memVars
<1>2. \/ log' = [i \in DOMAIN log |-> Synced(i)] /\ pc' = [pc EXCEPT ![t] = "insert"]
      \/ UNCHANGED log /\ pc' = [pc EXCEPT ![t] = "syncError"]
  BY DEF Sync, Go
<1>3. log \in Seq(Record) /\ Len(log) \in Nat /\ DOMAIN log = 1..Len(log)
      /\ \A i \in 1..Len(log) : log[i] \in Record
  BY DEF DataInv, DataTypeOK
<1>4. \A i \in 1..Len(log) :
        /\ Synced(i) \in Record /\ Synced(i).ops = log[i].ops /\ Synced(i).first = log[i].first
        /\ log[i].synced => Synced(i).synced
        /\ log[i].file = logfile_number => Synced(i).synced
  <2> SUFFICES ASSUME NEW r \in Record
               PROVE  LET x == [r EXCEPT !.synced = TRUE]
                      IN  x \in Record /\ x.ops = r.ops /\ x.first = r.first /\ x.synced
    BY <1>3
  <2> QED
    BY DEF Record
<1> HIDE DEF Synced
<1>5. log' = [i \in DOMAIN log |-> Synced(i)] =>
        /\ log' \in Seq(Record) /\ Len(log') = Len(log)
        /\ \A i \in 1..Len(log) : log'[i] = Synced(i)
  BY <1>3, <1>4
<1>6. Grows
  <2>1. CASE log' = [i \in DOMAIN log |-> Synced(i)]
    BY <1>1, <1>3, <1>4, <1>5, <2>1 DEF Grows, DataInv, DataTypeOK
  <2>2. CASE UNCHANGED log
    BY <1>1, <2>2 DEF Grows, DataInv, DataTypeOK
  <2> QED
    BY <1>2, <2>1, <2>2
<1>7. DataTypeOK'
  BY <1>1, <1>2, <1>5 DEF DataInv, DataTypeOK
<1>8. GroupInv(t) /\ IsLogged(t)
  BY <1>1 DEF DataInv, GroupIsSound, GroupInv
<1>9. \A u : OpsOfCall(u)' = OpsOfCall(u)
  BY <1>1 DEF OpsOfCall
<1>10. Elements(group.threads)' = Elements(group.threads) /\ Elements(group.ops)' = Elements(group.ops)
  BY <1>1 DEF Elements
<1>11. \A q : pc' = [pc EXCEPT ![t] = q] => pc'[t] = q
  BY DEF QueueInv, QueueTypeOK
<1>12. CASE log' = [i \in DOMAIN log |-> Synced(i)] /\ pc' = [pc EXCEPT ![t] = "insert"]
  <2>1. pc'[t] = "insert" /\ "insert" \in UsesFiles
    BY <1>11, <1>12 DEF UsesFiles
  <2>2. IsLogged(t)'
    <3>1. PICK i \in 1..Len(log) : /\ log[i].ops = group.ops /\ log[i].first = group.first
                                   /\ log[i].file = logfile_number
      BY <1>1, <1>8 DEF IsLogged
    <3>2. i \in 1..Len(log') /\ log'[i].ops = group.ops /\ log'[i].first = group.first /\ log'[i].synced
      BY <1>4, <1>5, <1>12, <3>1
    <3> QED
      BY <1>1, <2>1, <3>2 DEF IsLogged
  <2>3. GroupInv(t)'
    BY <1>1, <1>8, <1>9, <1>10, <2>1, <2>2 DEF GroupInv
  <2> QED
    BY <1>1, <1>6, <1>7, <1>12, <2>1, <2>3, WorkAlone, LogGrows DEF DataInv
<1>13. CASE UNCHANGED log /\ pc' = [pc EXCEPT ![t] = "syncError"]
  <2>1. pc'[t] = "syncError" /\ "syncError" \in UsesFiles
    BY <1>11, <1>13 DEF UsesFiles
  <2>2. GroupInv(t)'
    BY <1>1, <1>8, <1>9, <1>10, <2>1 DEF GroupInv
  <2> QED
    BY <1>1, <1>6, <1>7, <1>13, <2>1, <2>2, WorkAlone, LogGrows DEF DataInv
<1> QED
  BY <1>2, <1>12, <1>13

\* An operation of the group belongs to a call of its members.
LEMMA OpOfGroup ==
    ASSUME QueueInv, CallInv, DataInv, NEW t \in Threads, pc[t] \in UsesFiles,
           NEW j \in 1..Len(group.ops)
    PROVE  \E u \in Elements(group.threads) :
              /\ u \in Threads /\ ~call[u].done /\ calls[u] > 0
              /\ group.ops[j] \in OpsOfCall(u)
              /\ group.ops[j][1] = call[u].id /\ call[u].id = <<u, calls[u]>>
<1>1. group.ops[j] \in Op /\ group.ops[j] \in Elements(group.ops)
  BY DEF DataInv, DataTypeOK, Elements
<1>2. PICK u \in Elements(group.threads) : group.ops[j] \in OpsOfCall(u)
  BY <1>1 DEF DataInv, GroupIsSound, GroupInv
<1>3. u \in Threads /\ ~call[u].done /\ Asks(u)
  BY Members
<1>4. calls[u] > 0 /\ call[u].id = <<u, calls[u]>>
  BY <1>3 DEF CallInv, Called, CallIsNamed, Asks
<1>5. group.ops[j][1] = call[u].id
  BY <1>2 DEF OpsOfCall, OpsOf
<1> QED
  BY <1>2, <1>3, <1>4, <1>5

LEMMA DataInserted ==
    ASSUME QueueInv, CallInv, DataInv, NEW t \in Threads, InsertInto(t),
           group.inserted = Len(group.ops)
    PROVE  DataInv'
<1>1. /\ pc[t] = "insert" /\ pc[t] \in UsesFiles /\ pc' = [pc EXCEPT ![t] = "inserted"]
      /\ UNCHANGED <<call, calls, writers, group, log, entries, last_sequence, logfile_number>>
  BY DEF InsertInto, Go, UsesFiles, queueVars
<1>2. Grows
  BY <1>1, Stays DEF DataInv
<1>3. GroupInv(t) /\ IsLogged(t)
  BY <1>1 DEF DataInv, GroupIsSound, GroupInv
<1>4. pc'[t] = "inserted" /\ "inserted" \in UsesFiles
  BY <1>1 DEF QueueInv, QueueTypeOK, UsesFiles
<1>5. IsLogged(t)'
  BY <1>1, <1>3, <1>4 DEF IsLogged
<1>6. Elements(group.threads)' = Elements(group.threads) /\ Elements(group.ops)' = Elements(group.ops)
      /\ \A u : OpsOfCall(u)' = OpsOfCall(u)
  BY <1>1 DEF Elements, OpsOfCall
<1>7. GroupInv(t)'
  BY <1>1, <1>3, <1>4, <1>5, <1>6 DEF GroupInv
<1>8. DataTypeOK'
  BY <1>1 DEF DataInv, DataTypeOK
<1> QED
  BY <1>1, <1>2, <1>4, <1>7, <1>8, WorkAlone, LogGrows DEF DataInv

LEMMA DataInsert ==
    ASSUME QueueInv, CallInv, DataInv, NEW t \in Threads, InsertInto(t),
           group.inserted # Len(group.ops)
    PROVE  DataInv'
<1> DEFINE j == group.inserted + 1
           new == [seq |-> group.first + group.inserted, op |-> group.ops[j]]
<1>1. /\ pc[t] = "insert" /\ pc[t] \in UsesFiles /\ UNCHANGED pc
      /\ UNCHANGED <<call, calls, writers, log, last_sequence, logfile_number>>
      /\ entries' = entries \cup {new}
      /\ group' = [group EXCEPT !.inserted = @ + 1]
  BY DEF InsertInto, UsesFiles, queueVars
<1>2. /\ group'.threads = group.threads /\ group'.first = group.first /\ group'.ops = group.ops
      /\ group'.inserted = j
  BY <1>1 DEF QueueInv, QueueTypeOK, Fields
<1>3. /\ group.inserted \in Nat /\ j \in Nat /\ j \in 1..Len(group.ops) /\ Len(group.ops) \in Nat
      /\ group.first \in Nat /\ last_sequence \in Nat
  BY DEF DataInv, DataTypeOK
<1>4. group.first = last_sequence + 1 /\ GroupInv(t) /\ IsLogged(t)
  BY <1>1 DEF DataInv, GroupIsSound, GroupInv
<1>5. new.seq = last_sequence + j /\ new.op = group.ops[j] /\ new \in [seq : Nat, op : Op]
  <2>1. group.ops \in Seq(Op)
    BY DEF DataInv, DataTypeOK
  <2>2. group.ops[j] \in Op
    BY <1>3, <2>1, ElementOfSeq
  <2> DEFINE op == group.ops[j]
             seq == group.first + group.inserted
  <2>3. seq \in Nat /\ seq = last_sequence + j
    BY <1>3, <1>4
  <2> HIDE DEF seq, op, j
  <2>4. new = [seq |-> seq, op |-> op]
    BY DEF seq, op
  <2> HIDE DEF new
  <2>5. op \in Op
    BY <2>2 DEF op
  <2>6. op = group.ops[j]
    BY DEF op
  <2> QED
    BY <2>3, <2>4, <2>5, <2>6
<1>6. PICK u \in Elements(group.threads) :
        /\ u \in Threads /\ ~call[u].done /\ calls[u] > 0
        /\ new.op[1] = call[u].id /\ call[u].id = <<u, calls[u]>>
  BY <1>1, <1>3, <1>5, OpOfGroup
<1>7. \A i \in 1..group.inserted : i \in 1..j /\ i # j
  BY <1>3
<1>8. \A i \in 1..j : i \in 1..group.inserted \/ i = j
  BY <1>3
<1> HIDE DEF j, new
<1>9. DataTypeOK'
  BY <1>1, <1>2, <1>3, <1>5 DEF DataInv, DataTypeOK
<1>10. GroupIsSound' /\ GroupIsUsed'
  <2>1. IsLogged(t)'
    BY <1>1, <1>2, <1>4 DEF IsLogged
  <2>2. Elements(group.threads)' = Elements(group.threads) /\ Elements(group.ops)' = Elements(group.ops)
        /\ \A v : OpsOfCall(v)' = OpsOfCall(v)
    BY <1>1, <1>2 DEF Elements, OpsOfCall
  <2>3. GroupInv(t)'
    BY <1>1, <1>2, <1>4, <2>1, <2>2 DEF GroupInv
  <2>4. pc' = [pc EXCEPT ![t] = "insert"]
    BY <1>1 DEF QueueInv, QueueTypeOK
  <2>5. "insert" \in UsesFiles
    BY DEF UsesFiles
  <2> QED
    BY <1>1, <2>3, <2>4, <2>5, WorkAlone
<1>11. InsertedInOrder'
  <2> SUFFICES ASSUME NEW i \in 1..j
               PROVE  [seq |-> group.first + i - 1, op |-> group.ops[i]] \in entries'
    BY <1>2 DEF InsertedInOrder
  <2>1. CASE i \in 1..group.inserted
    BY <1>1, <2>1 DEF DataInv, InsertedInOrder
  <2>2. CASE i = j
    <3>1. group.first + i - 1 = group.first + group.inserted /\ group.ops[i] = group.ops[j]
      BY <1>3, <2>2 DEF j
    <3>2. new = [seq |-> group.first + i - 1, op |-> group.ops[i]]
      BY <3>1 DEF new
    <3> QED
      BY <1>1, <3>2
  <2> QED
    BY <1>8, <2>1, <2>2
<1>12. \A e \in entries : e.seq \in Nat /\ e.seq < new.seq
  <2> SUFFICES ASSUME NEW e \in entries
               PROVE  e.seq \in Nat /\ e.seq < new.seq
    OBVIOUS
  <2>1. e.seq \in Nat /\ e.seq <= last_sequence + group.inserted
    BY DEF DataInv, DataTypeOK, EntriesInv
  <2> QED
    BY <1>3, <1>5, <2>1 DEF j
<1>13. EntriesInv'
  <2>1. \A e \in entries' : e.seq <= last_sequence' + group'.inserted
    BY <1>1, <1>2, <1>3, <1>5, <1>12
  <2>2. \A e \in entries' : \A f \in entries' : e.seq = f.seq => e = f
    <3>1. new.seq \in Nat
      BY <1>5
    <3>2. \A e \in entries : e.seq # new.seq
      BY <1>12, <3>1
    <3> QED
      BY <1>1, <3>2 DEF DataInv, EntriesInv
  <2>3. \A e \in entries' : \E i \in 1..Len(log') : \E h \in 1..Len(log'[i].ops) :
          log'[i].ops[h] = e.op /\ log'[i].first + h - 1 = e.seq
    <3> SUFFICES \E i \in 1..Len(log) : \E h \in 1..Len(log[i].ops) :
                    log[i].ops[h] = new.op /\ log[i].first + h - 1 = new.seq
      BY <1>1 DEF DataInv, EntriesInv
    <3>1. PICK i \in 1..Len(log) : log[i].ops = group.ops /\ log[i].first = group.first
      BY <1>4 DEF IsLogged
    <3>2. log[i].first + j - 1 = new.seq
      BY <1>3, <1>4, <1>5, <3>1
    <3> QED
      BY <1>3, <1>5, <3>1, <3>2
  <2>4. \A e \in entries' : \E v \in Threads : e.op[1][1] = v /\ e.op[1][2] <= calls'[v]
    <3>1. new.op[1][1] = u /\ new.op[1][2] = calls[u] /\ calls[u] \in Nat
      BY <1>6 DEF QueueInv, QueueTypeOK
    <3>2. calls[u] <= calls[u]
      BY <3>1
    <3> QED
      BY <1>1, <1>6, <3>1, <3>2 DEF DataInv, EntriesInv
  <2> QED
    BY <2>1, <2>2, <2>3, <2>4 DEF EntriesInv
<1>14. NothingEarly'
  <2> SUFFICES ASSUME NEW v \in Threads, NEW e \in entries', calls[v] > 0, e.op[1] = call[v].id
               PROVE  Answered(v, "ok") \/ (~call[v].done /\ EntryIsCurrent(e)')
    BY <1>1 DEF NothingEarly, Answered
  <2>1. CASE e \in entries
    <3>1. EntryIsCurrent(e) => EntryIsCurrent(e)'
      BY <1>2, <1>7 DEF EntryIsCurrent
    <3> QED
      BY <2>1, <3>1 DEF DataInv, NothingEarly
  <2>2. CASE e = new
    <3>1. call[v].id = <<v, calls[v]>>
      BY DEF CallInv, CallIsNamed
    <3>2. v = u
      BY <1>6, <2>2, <3>1
    <3>3. j \in 1..j
      BY <1>3
    <3>4. EntryIsCurrent(e)'
      BY <1>2, <1>5, <2>2, <3>3 DEF EntryIsCurrent
    <3> QED
      BY <1>6, <3>2, <3>4
  <2> QED
    BY <1>1, <2>1, <2>2
<1>15. AnswerIsTrue'
  <2>1. Grows
    BY <1>1, <1>3 DEF Grows
  <2> SUFFICES ASSUME NEW v \in Threads, Answered(v, "ok")'
               PROVE  Fulfilled(v)'
    BY DEF AnswerIsTrue
  <2>2. Fulfilled(v) /\ last_sequence' \in Nat
    BY <1>1, <1>3 DEF DataInv, AnswerIsTrue, Answered
  <2> QED
    BY <1>1, <2>1, <2>2, StaysTrue DEF DataInv
<1> QED
  BY <1>9, <1>10, <1>11, <1>13, <1>14, <1>15 DEF DataInv

LEMMA DataEndGroup ==
    ASSUME QueueInv, CallInv, DataInv, NEW t \in Threads, EndGroup(t)
    PROVE  DataInv'
<1> DEFINE status == IF pc[t] = "inserted" THEN "ok" ELSE "error"
<1>1. /\ pc[t] \in {"inserted", "failed", "syncError"} /\ pc[t] \in UsesFiles
      /\ last_sequence' = last_sequence + Len(group.ops) /\ group' = NoGroup
      /\ UNCHANGED <<log, entries>>
  BY DEF EndGroup, UsesFiles
<1>2. PICK m \in 1..Len(writers) :
        /\ Elements(group.threads) = Foremost(m)
        /\ \A u \in Foremost(m) : u \in Threads /\ ~call[u].done /\ Asks(u)
        /\ Answers(m, status)
  BY CallEndGroup
<1>3. /\ \A u \in Threads : u \in Foremost(m) =>
            /\ call'[u].id = call[u].id /\ call'[u].kind = call[u].kind
            /\ call'[u].done /\ call'[u].status = status
      /\ \A u \in Threads : u \notin Foremost(m) => call'[u] = call[u]
      /\ \A u \in Threads : pc'[u] \notin UsesFiles
      /\ UNCHANGED calls
  BY <1>2 DEF Answers
<1>4. GroupInv(t)
  BY <1>1 DEF DataInv, GroupIsSound
<1>5. /\ group.inserted \in 0..Len(group.ops) /\ Len(group.ops) \in Nat /\ last_sequence \in Nat
      /\ group.ops \in Seq(Op)
  BY DEF DataInv, DataTypeOK
<1>6. pc[t] = "inserted" => group.inserted = Len(group.ops) /\ IsLogged(t)
  BY <1>4 DEF GroupInv
<1>7. pc[t] # "inserted" => group.inserted = 0
  BY <1>1, <1>4 DEF GroupInv
<1>8. last_sequence' \in Nat /\ last_sequence <= last_sequence'
      /\ last_sequence + group.inserted <= last_sequence'
  BY <1>1, <1>5
<1>9. Grows
  BY <1>1, <1>8 DEF Grows
<1>10. DataTypeOK'
  BY <1>1, <1>8 DEF DataInv, DataTypeOK, NoGroup
<1>11. GroupIsSound' /\ GroupIsUsed' /\ InsertedInOrder'
  BY <1>1, <1>3 DEF GroupIsSound, GroupIsUsed, InsertedInOrder, NoGroup
<1>12. EntriesInv'
  <2>1. \A e \in entries : e.seq <= last_sequence' + 0
    <3> SUFFICES ASSUME NEW e \in entries
                 PROVE  e.seq <= last_sequence' + 0
      OBVIOUS
    <3>1. e.seq \in Nat /\ e.seq <= last_sequence + group.inserted
      BY DEF DataInv, DataTypeOK, EntriesInv
    <3> QED
      BY <1>5, <1>8, <3>1
  <2>2. group'.inserted = 0
    BY <1>1 DEF NoGroup
  <2> QED
    BY <1>1, <1>3, <2>1, <2>2 DEF DataInv, EntriesInv
<1>13. NothingEarly'
  <2> SUFFICES ASSUME NEW u \in Threads, NEW e \in entries, calls[u] > 0, e.op[1] = call[u].id
               PROVE  Answered(u, "ok")'
    BY <1>1, <1>3 DEF NothingEarly
  <2>1. Answered(u, "ok") \/ (~call[u].done /\ EntryIsCurrent(e))
    BY DEF DataInv, NothingEarly
  <2>2. CASE Answered(u, "ok")
    BY <1>2, <1>3, <2>2 DEF Answered
  <2>3. CASE ~call[u].done /\ EntryIsCurrent(e)
    <3>1. PICK j \in 1..group.inserted : e.op = group.ops[j]
      BY <2>3 DEF EntryIsCurrent
    <3>2. j \in 1..Len(group.ops) /\ pc[t] = "inserted"
      BY <1>5, <1>7
    <3>3. PICK v \in Elements(group.threads) :
            v \in Threads /\ group.ops[j][1] = call[v].id /\ call[v].id = <<v, calls[v]>>
      BY <1>1, <3>2, OpOfGroup
    <3>4. call[u].id = <<u, calls[u]>>
      BY DEF CallInv, CallIsNamed
    <3>5. u \in Foremost(m)
      BY <1>2, <3>1, <3>3, <3>4
    <3> QED
      BY <1>3, <3>2, <3>5 DEF Answered
  <2> QED
    BY <2>1, <2>2, <2>3
<1>14. AnswerIsTrue'
  <2> SUFFICES ASSUME NEW u \in Threads, Answered(u, "ok")'
               PROVE  Fulfilled(u)'
    BY DEF AnswerIsTrue
  <2>1. CASE u \notin Foremost(m)
    <3>1. Fulfilled(u)
      BY <1>3, <2>1 DEF DataInv, AnswerIsTrue, Answered
    <3> QED
      BY <1>3, <1>8, <1>9, <2>1, <3>1, StaysTrue DEF DataInv
  <2>2. CASE u \in Foremost(m)
    <3>1. pc[t] = "inserted"
      BY <1>3, <2>2 DEF Answered
    <3>2. OpsOfCall(u)' = OpsOfCall(u) /\ call'[u].kind = call[u].kind
      BY <1>3, <2>2, CallsAlike
    <3>3. \A op \in OpsOfCall(u) : op \in Elements(group.ops)
      <4>1. calls[u] > 0
        BY <1>2, <2>2 DEF CallInv, Called, Asks
      <4>2. \A op \in OpsOfCall(u) : op \in Op
        <5>1. Ops(u) \in Seq(Op) /\ \A op : op \in Elements(Ops(u)) <=> op \in OpsOfCall(u)
          BY <4>1, OpsAreTyped
        <5> HIDE DEF Op
        <5>2. \A i \in 1..Len(Ops(u)) : Ops(u)[i] \in Op
          BY <5>1, ElementOfSeq
        <5> QED
          BY <5>1, <5>2 DEF Elements
      <4> QED
        BY <1>2, <1>4, <2>2, <4>2 DEF GroupInv
    <3>4. ASSUME NEW op \in OpsOfCall(u)
          PROVE  Visible(op)'
      <4>1. PICK j \in 1..Len(group.ops) : op = group.ops[j]
        BY <3>3 DEF Elements
      <4> DEFINE e == [seq |-> group.first + j - 1, op |-> group.ops[j]]
      <4>2. e \in entries
        BY <1>6, <3>1 DEF DataInv, InsertedInOrder
      <4>3. e.seq = last_sequence + j /\ j <= Len(group.ops) /\ e.op = op
        BY <1>4, <1>5, <4>1 DEF GroupInv
      <4> HIDE DEF e
      <4>4. e.seq <= last_sequence'
        BY <1>1, <1>5, <4>3
      <4> QED
        BY <1>1, <4>2, <4>3, <4>4 DEF Visible
    <3>5. PICK i \in 1..Len(log) : /\ log[i].ops = group.ops
                                   /\ call[t].kind.sync => log[i].synced
      BY <1>6, <3>1 DEF IsLogged
    <3>6. call[u].kind.sync => log[i].synced
      BY <1>2, <1>4, <2>2, <3>5 DEF GroupInv
    <3>7. OpsOfCall(u) \subseteq Elements(log[i].ops)
      BY <3>3, <3>5
    <3> QED
      BY <1>1, <3>2, <3>4, <3>6, <3>7 DEF Fulfilled, Elements
  <2> QED
    BY <2>1, <2>2
<1> QED
  BY <1>10, <1>11, <1>12, <1>13, <1>14 DEF DataInv

LEMMA DataStep == QueueInv /\ LogInv /\ CallInv /\ DataInv /\ [Next]_vars => DataInv'
<1> SUFFICES ASSUME QueueInv, LogInv, CallInv, DataInv, [Next]_vars
             PROVE  DataInv'
  OBVIOUS
<1>1. logfile_number \in Nat
  BY DEF LogInv
<1>2. ASSUME NEW t \in Threads, InsertInto(t)
      PROVE  DataInv'
  BY <1>2, DataInserted, DataInsert
<1> QED
  BY <1>1, <1>2, StepKinds, DataQuiet, DataWrite, DataAlone, DataStartGroup, DataAddRecord, DataSync,
     DataEndGroup

\* The inductive invariant of the whole write path.
WriteInv == LogInv /\ QueueInv /\ CallInv /\ DataInv

LEMMA WriteInvariant == Spec => []WriteInv
<1>1. Init => WriteInv
  BY LogInit, QueueInit, CallInit, DataInit DEF WriteInv
<1>2. WriteInv /\ [Next]_vars => WriteInv'
  BY LogStep, QueueStep, CallStep, DataStep DEF WriteInv
<1> QED
  BY <1>1, <1>2, PTL DEF Spec

\* Log and memtable agree, operation by operation, on sequence numbers, and no
\* number is given twice, whatever groups form and whatever fails
\* (db_impl.cc:1211-1216): WriteQueue's LogMatchesMemory.
THEOREM LogMatchesMemorySafe == Spec => []LogMatchesMemory
<1>1. WriteInv => LogMatchesMemory
  <2> SUFFICES ASSUME WriteInv, NEW e \in entries
               PROVE  /\ \A f \in entries : e.seq = f.seq => e = f
                      /\ \E i \in DOMAIN log : \E j \in DOMAIN log[i].ops :
                            log[i].ops[j] = e.op /\ log[i].first + j - 1 = e.seq
    BY DEF LogMatchesMemory
  <2>1. log \in Seq(Record) /\ DOMAIN log = 1..Len(log)
    BY DEF WriteInv, DataInv, DataTypeOK
  <2>2. PICK i \in 1..Len(log) : \E j \in 1..Len(log[i].ops) :
          log[i].ops[j] = e.op /\ log[i].first + j - 1 = e.seq
    BY DEF WriteInv, DataInv, EntriesInv
  <2>3. log[i].ops \in Seq(Op)
    <3>1. log[i] \in Record
      BY <2>1, ElementOfSeq
    <3> QED
      BY <3>1 DEF Record
  <2>4. DOMAIN log[i].ops = 1..Len(log[i].ops)
    BY <2>3
  <2> QED
    BY <2>1, <2>2, <2>4 DEF WriteInv, DataInv, EntriesInv
<1> QED
  BY <1>1, WriteInvariant, PTL

\* Whoever did the work, a caller that is told OK has its whole batch in log and
\* memtable, synced if it asked for that; one that is told of an error has none
\* of it to be seen (db_impl.cc:1248-1257): WriteQueue's OutcomeIsTrue.
THEOREM OutcomeIsTrueSafe == Spec => []OutcomeIsTrue
<1>1. WriteInv => OutcomeIsTrue
  <2> SUFFICES ASSUME WriteInv, NEW t \in Threads, pc[t] = "returned"
               PROVE  /\ call[t].status = "ok" =>
                            /\ \A op \in OpsOfCall(t) : Visible(op)
                            /\ ~call[t].kind.null => \E i \in DOMAIN log :
                                  OpsOfCall(t) \subseteq ToSet(log[i].ops) /\ (call[t].kind.sync => log[i].synced)
                      /\ call[t].status = "error" => \A op \in OpsOfCall(t) : ~Visible(op)
    BY DEF OutcomeIsTrue, OpsOfCall
  <2>1. calls[t] > 0 /\ call[t].done
    BY DEF WriteInv, CallInv, Called, ReturnedIsDone
  <2>2. CASE call[t].status = "ok"
    <3>1. Fulfilled(t)
      BY <2>1, <2>2 DEF WriteInv, DataInv, AnswerIsTrue, Answered
    <3>2. ASSUME NEW i \in 1..Len(log)
          PROVE  i \in DOMAIN log /\ Elements(log[i].ops) = ToSet(log[i].ops)
      <4>1. log \in Seq(Record)
        BY DEF WriteInv, DataInv, DataTypeOK
      <4>2. log[i].ops \in Seq(Op)
        <5>1. log[i] \in Record
          BY <4>1, ElementOfSeq
        <5> QED
          BY <5>1 DEF Record
      <4>3. DOMAIN log[i].ops = 1..Len(log[i].ops)
        BY <4>2
      <4> QED
        BY <4>1, <4>3 DEF Elements, ToSet
    <3> QED
      BY <2>2, <3>1, <3>2 DEF Fulfilled
  <2>3. CASE call[t].status = "error"
    <3> SUFFICES ASSUME NEW op \in OpsOfCall(t), NEW e \in entries, e.op = op
                 PROVE  FALSE
      BY <2>3 DEF Visible
    <3>1. e.op[1] = call[t].id
      BY DEF OpsOfCall, OpsOf
    <3> QED
      BY <2>1, <2>3, <3>1 DEF WriteInv, DataInv, NothingEarly, Answered
  <2> QED
    BY <2>2, <2>3
<1> QED
  BY <1>1, WriteInvariant, PTL

-----------------------------------------------------------------------------
(* The promise of Commits. The writes in effect are those up to the last    *)
(* number; what a group adds, when its numbers are taken into account, is   *)
(* what Commits says: the ids of its members that have a batch, in order.   *)

Id == Threads \X Nat

\* The recursion of IdsUpTo.
LEMMA IdsStepwise ==
    ASSUME NEW all, all \subseteq [seq : Nat, op : Op], NEW last \in Nat
    PROVE  /\ IdsUpTo(all, last) \in [0..last -> Seq(Id)]
           /\ IdsUpTo(all, last)[0] = <<>>
           /\ \A n \in 1..last : IdsUpTo(all, last)[n] =
                IF Begun(all, n) = {} THEN IdsUpTo(all, last)[n-1]
                ELSE Append(IdsUpTo(all, last)[n-1], CHOOSE id \in Begun(all, n) : TRUE)
<1> DEFINE T == Seq(Id)
           new(n) == CHOOSE id \in Begun(all, n) : TRUE
           With(n, s) == IF Begun(all, n) = {} THEN s ELSE Append(s, new(n))
           step == [x \in (1..last) \X T |-> With(x[1], x[2])]
           UpTo == CHOOSE f : f = [n \in 0..last |->
                      IF n = 0 THEN <<>>
                      ELSE IF Begun(all, n) = {} THEN f[n-1]
                      ELSE Append(f[n-1], CHOOSE id \in Begun(all, n) : TRUE)]
<1>1. IdsUpTo(all, last) = UpTo
  BY DEF IdsUpTo
<1>2. \A n \in 1..last : Begun(all, n) # {} => new(n) \in Id
  <2>1. \A n : Begun(all, n) \subseteq Id
    BY DEF Begun, Op, Id
  <2> QED
    BY <2>1
<1>3. \A n \in 1..last, s \in T : With(n, s) \in T
  <2> HIDE DEF new
  <2> QED
    BY <1>2, AppendProperties
<1> HIDE DEF With
<1>4. step \in [(1..last) \X T -> T] /\ \A n \in 1..last, s \in T : step[<<n, s>>] = With(n, s)
  BY <1>3
<1>5. <<>> \in T
  OBVIOUS
<1> HIDE DEF step, T
<1>6. PICK f : Follows(f, T, last, <<>>, step)
  BY <1>4, <1>5, Recursion
<1>7. f \in [0..last -> T] /\ f[0] = <<>> /\ \A n \in 1..last : f[n] = With(n, f[n-1])
  <2>1. \A n \in 1..last : n - 1 \in 0..last
    OBVIOUS
  <2> QED
    BY <1>4, <1>6, <2>1 DEF Follows
<1>8. f = [n \in 0..last |-> IF n = 0 THEN <<>> ELSE With(n, f[n-1])]
  BY <1>7
<1>9. f = [n \in 0..last |->
             IF n = 0 THEN <<>>
             ELSE IF Begun(all, n) = {} THEN f[n-1]
             ELSE Append(f[n-1], CHOOSE id \in Begun(all, n) : TRUE)]
  BY <1>8 DEF With
<1>10. UpTo = [n \in 0..last |->
             IF n = 0 THEN <<>>
             ELSE IF Begun(all, n) = {} THEN UpTo[n-1]
             ELSE Append(UpTo[n-1], CHOOSE id \in Begun(all, n) : TRUE)]
  BY <1>9
<1> HIDE DEF UpTo
<1> DEFINE body(n) == IF n = 0 THEN <<>> ELSE With(n, UpTo[n-1])
<1>11. UpTo = [n \in 0..last |-> body(n)]
  BY <1>10 DEF With
<1> HIDE DEF body, new
<1>12. \A n \in 0..last : UpTo[n] = body(n)
  BY <1>11
<1>13. UpTo = [n \in 0..last |-> UpTo[n]]
  BY <1>11, <1>12
<1>14. UpTo[0] = <<>> /\ \A n \in 1..last : UpTo[n] = With(n, UpTo[n-1])
  BY <1>12 DEF body
<1> DEFINE I == {n \in Nat : n \in 0..last => UpTo[n] = f[n]}
<1>15. Nat \subseteq I
  <2>1. 0 \in I
    BY <1>7, <1>14
  <2>2. ASSUME NEW n \in Nat, n \in I
        PROVE  n + 1 \in I
    <3> SUFFICES ASSUME n + 1 \in 0..last
                 PROVE  UpTo[n + 1] = f[n + 1]
      OBVIOUS
    <3>1. n \in 0..last /\ n + 1 \in 1..last /\ (n + 1) - 1 = n
      OBVIOUS
    <3>2. UpTo[n] = f[n]
      BY <2>2, <3>1
    <3>3. UpTo[n + 1] = With(n + 1, UpTo[n]) /\ f[n + 1] = With(n + 1, f[n])
      BY <1>7, <1>14, <3>1
    <3> QED
      BY <3>2, <3>3
  <2> HIDE DEF I
  <2> QED
    BY <2>1, <2>2, Induction
<1>16. UpTo = f
  BY <1>7, <1>13, <1>15
<1> QED
  BY <1>1, <1>7, <1>16 DEF T, With, new

\* Entries with greater numbers do not matter.
LEMMA IdsAgree ==
    ASSUME NEW all, all \subseteq [seq : Nat, op : Op], NEW last \in Nat,
           NEW more, more \subseteq [seq : Nat, op : Op], NEW end \in Nat, last <= end,
           \A n \in 1..last : Begun(more, n) = Begun(all, n)
    PROVE  \A n \in 0..last : IdsUpTo(more, end)[n] = IdsUpTo(all, last)[n]
<1> DEFINE f == IdsUpTo(all, last)
           g == IdsUpTo(more, end)
           I == {n \in Nat : n \in 0..last => g[n] = f[n]}
<1>1. /\ f[0] = <<>>
      /\ \A n \in 1..last : f[n] = IF Begun(all, n) = {} THEN f[n-1]
                                   ELSE Append(f[n-1], CHOOSE id \in Begun(all, n) : TRUE)
  BY IdsStepwise
<1>2. /\ g[0] = <<>>
      /\ \A n \in 1..end : g[n] = IF Begun(more, n) = {} THEN g[n-1]
                                  ELSE Append(g[n-1], CHOOSE id \in Begun(more, n) : TRUE)
  BY IdsStepwise
<1> HIDE DEF f, g
<1>3. 0 \in I
  BY <1>1, <1>2
<1>4. ASSUME NEW n \in Nat, n \in I
      PROVE  n + 1 \in I
  <2> SUFFICES ASSUME n + 1 \in 0..last
               PROVE  g[n + 1] = f[n + 1]
    OBVIOUS
  <2> DEFINE k == n + 1
  <2>1. n \in 0..last /\ k \in 1..last /\ k \in 1..end /\ k - 1 = n
    OBVIOUS
  <2> HIDE DEF k
  <2>2. g[n] = f[n] /\ Begun(more, k) = Begun(all, k)
    BY <1>4, <2>1
  <2>3. g[k] = f[k]
    BY <1>1, <1>2, <2>1, <2>2
  <2> QED
    BY <2>3 DEF k
<1>5. Nat \subseteq I
  <2> HIDE DEF I
  <2> QED
    BY <1>3, <1>4, Induction
<1> QED
  BY <1>5 DEF f, g

LEMMA IdsBelow ==
    ASSUME NEW all, all \subseteq [seq : Nat, op : Op], NEW last \in Nat, NEW end \in Nat, last <= end
    PROVE  IdsUpTo(all, end)[last] = IdsUpTo(all, last)[last]
<1>1. \A n \in 0..last : IdsUpTo(all, end)[n] = IdsUpTo(all, last)[n]
  BY IdsAgree
<1> QED
  BY <1>1

\* A function that stays the same from one number to another.
LEMMA SameUpTo ==
    ASSUME NEW g, NEW from \in Nat, NEW k \in Nat,
           \A n \in Nat : n > from /\ n <= from + k => g[n] = g[n-1]
    PROVE  g[from + k] = g[from]
<1> DEFINE I == {n \in Nat : n <= k => g[from + n] = g[from]}
<1>1. 0 \in I
  OBVIOUS
<1>2. ASSUME NEW n \in Nat, n \in I
      PROVE  n + 1 \in I
  <2> SUFFICES ASSUME n + 1 <= k
               PROVE  g[from + (n + 1)] = g[from]
    OBVIOUS
  <2> DEFINE j == from + (n + 1)
  <2>1. j \in Nat /\ j > from /\ j <= from + k /\ j - 1 = from + n /\ n <= k
    OBVIOUS
  <2> HIDE DEF j
  <2>2. g[j] = g[j-1]
    BY <2>1
  <2>3. g[from + n] = g[from]
    BY <1>2, <2>1
  <2>4. g[j] = g[from]
    BY <2>1, <2>2, <2>3
  <2> QED
    BY <2>4 DEF j
<1>3. k \in I
  <2> HIDE DEF I
  <2> QED
    BY <1>1, <1>2, Induction
<1> QED
  BY <1>3

\* The writes in effect do not change as long as no number counts for a write.
LEMMA SameIds ==
    ASSUME NEW all, all \subseteq [seq : Nat, op : Op], NEW last \in Nat, NEW k \in Nat,
           \A n \in Nat : n > last /\ n <= last + k => Begun(all, n) = {}
    PROVE  IdsUpTo(all, last + k)[last + k] = IdsUpTo(all, last)[last]
<1> DEFINE end == last + k
           g == IdsUpTo(all, end)
<1>1. end \in Nat /\ last <= end /\ last \in 0..last
  OBVIOUS
<1>2. g[last] = IdsUpTo(all, last)[last]
  <2> HIDE DEF end
  <2> QED
    BY <1>1, IdsBelow
<1>3. \A n \in 1..end : g[n] = IF Begun(all, n) = {} THEN g[n-1]
                               ELSE Append(g[n-1], CHOOSE id \in Begun(all, n) : TRUE)
  <2> HIDE DEF end
  <2> QED
    BY <1>1, IdsStepwise
<1> HIDE DEF g
<1>4. \A n \in Nat : n > last /\ n <= last + k => g[n] = g[n-1]
  BY <1>3
<1>5. g[last + k] = g[last]
  BY <1>4, SameUpTo
<1> QED
  BY <1>2, <1>5 DEF g

\* The group at work is the front of the queue, in order.
LEMMA GroupInOrder ==
    ASSUME QueueInv, NEW t \in Threads, pc[t] \in UsesFiles
    PROVE  \E m \in 1..Len(writers) :
              /\ DOMAIN group.threads = 1..m /\ Last(group.threads) = writers[m]
              /\ \A i \in 1..m : group.threads[i] = writers[i] /\ writers[i] \in Threads
                                 /\ InQueue(writers[i])
<1>1. PICK m \in 1..Len(writers) : group.threads = SubSeq(writers, 1, m)
  BY DEF QueueInv, GroupIsFront
<1>2. writers \in Seq(Threads) /\ \A i \in 1..m : writers[i] \in Threads /\ i \in 1..Len(writers)
  BY <1>1 DEF QueueInv, QueueTypeOK
<1>3. Len(SubSeq(writers, 1, m)) = IF 1 <= m THEN m - 1 + 1 ELSE 0
  BY <1>2, SubSeqProperties
<1>4. \A i \in 1 .. m - 1 + 1 : SubSeq(writers, 1, m)[i] = writers[1 + i - 1]
  BY <1>2, SubSeqProperties
<1>5. SubSeq(writers, 1, m) \in Seq(Threads)
  BY <1>2, SubSeqProperties
<1>6. DOMAIN SubSeq(writers, 1, m) = 1..Len(SubSeq(writers, 1, m))
  BY <1>5, LenProperties
<1>7. /\ m \in Nat \ {0} /\ Len(group.threads) = m /\ DOMAIN group.threads = 1..m
      /\ \A i \in 1..m : group.threads[i] = writers[i]
  BY <1>1, <1>3, <1>4, <1>6
<1>8. Last(group.threads) = writers[m]
  BY <1>7 DEF Last
<1>9. \A i \in 1..m : writers[i] \in Threads /\ InQueue(writers[i])
  BY <1>2 DEF InQueue
<1> QED
  BY <1>7, <1>8, <1>9

\* What the group at work writes is what its members ask for, in order.
GroupIsJoined ==
    (\E t \in Threads : pc[t] \in UsesFiles) =>
        group.ops = FlattenSeq([i \in DOMAIN group.threads |-> Ops(group.threads[i])])

LEMMA JoinedKept ==
    ASSUME QueueInv, GroupIsJoined, UNCHANGED <<writers, group.ops, group.threads>>,
           (\E t \in Threads : pc'[t] \in UsesFiles) => \E t \in Threads : pc[t] \in UsesFiles,
           \A u \in Threads : InQueue(u) => call'[u].id = call[u].id /\ call'[u].kind = call[u].kind
    PROVE  GroupIsJoined'
<1> SUFFICES ASSUME NEW t \in Threads, pc[t] \in UsesFiles
             PROVE  group'.ops = FlattenSeq([i \in DOMAIN group'.threads |-> Ops(group.threads[i])'])
  BY DEF GroupIsJoined
<1>1. group.ops = FlattenSeq([i \in DOMAIN group.threads |-> Ops(group.threads[i])])
  BY DEF GroupIsJoined
<1>2. PICK m \in 1..Len(writers) :
         /\ DOMAIN group.threads = 1..m
         /\ \A i \in 1..m : group.threads[i] = writers[i] /\ writers[i] \in Threads /\ InQueue(writers[i])
  BY GroupInOrder
<1>3. \A i \in DOMAIN group.threads : Ops(group.threads[i])' = Ops(group.threads[i])
  BY <1>2 DEF Ops
<1>4. [i \in DOMAIN group'.threads |-> Ops(group.threads[i])']
        = [i \in DOMAIN group.threads |-> Ops(group.threads[i])]
  BY <1>3
<1> QED
  BY <1>1, <1>4

LEMMA JoinedStep == QueueInv /\ CallInv /\ GroupIsJoined /\ [Next]_vars => GroupIsJoined'
<1> SUFFICES ASSUME QueueInv, CallInv, GroupIsJoined, [Next]_vars
             PROVE  GroupIsJoined'
  OBVIOUS
<1>1. CASE Quiet
  BY <1>1, JoinedKept DEF Quiet, SameCall
<1>2. ASSUME NEW t \in Threads, NEW k \in Kinds, Write(t, k)
      PROVE  GroupIsJoined'
  <2>1. /\ ~InQueue(t) /\ \A u \in Threads : u # t => pc'[u] = pc[u] /\ call'[u] = call[u]
        /\ pc'[t] \notin UsesFiles /\ UNCHANGED group
        /\ writers \in Seq(Threads) /\ writers' = Append(writers, t)
    BY <1>2, CallWrite DEF UsesFiles, Write, QueueInv, QueueTypeOK
  <2> SUFFICES ASSUME NEW u \in Threads, pc[u] \in UsesFiles
               PROVE  group'.ops = FlattenSeq([i \in DOMAIN group'.threads |-> Ops(group.threads[i])'])
    BY <2>1 DEF GroupIsJoined
  <2>2. PICK m \in 1..Len(writers) :
           /\ DOMAIN group.threads = 1..m
           /\ \A i \in 1..m : group.threads[i] = writers[i] /\ writers[i] \in Threads /\ InQueue(writers[i])
    BY GroupInOrder
  <2>3. \A i \in DOMAIN group.threads : Ops(group.threads[i])' = Ops(group.threads[i])
    BY <2>1, <2>2 DEF Ops
  <2>4. [i \in DOMAIN group'.threads |-> Ops(group.threads[i])']
          = [i \in DOMAIN group.threads |-> Ops(group.threads[i])]
    BY <2>1, <2>3
  <2> QED
    BY <2>1, <2>4 DEF GroupIsJoined
<1>3. ASSUME NEW t \in Threads, YieldError(t) \/ NewLogFails(t) \/ NullBatch(t) \/ EndGroup(t)
      PROVE  GroupIsJoined'
  <2>1. CASE EndGroup(t)
    BY <2>1, CallEndGroup DEF Answers, GroupIsJoined
  <2>2. CASE YieldError(t) \/ NewLogFails(t) \/ NullBatch(t)
    BY <2>2, Alone DEF Answers, GroupIsJoined
  <2> QED
    BY <1>3, <2>1, <2>2
<1>4. ASSUME NEW t \in Threads, StartGroup(t)
      PROVE  GroupIsJoined'
  <2>1. /\ group'.threads = BuildBatchGroup /\ UNCHANGED call
        /\ group'.ops = FlattenSeq([i \in DOMAIN BuildBatchGroup |-> Ops(BuildBatchGroup[i])])
    BY <1>4 DEF StartGroup, queueVars
  <2>2. \A u : Ops(u)' = Ops(u)
    BY <2>1 DEF Ops
  <2> QED
    BY <2>1, <2>2 DEF GroupIsJoined
<1>5. ASSUME NEW t \in Threads, AddRecord(t) \/ Sync(t) \/ InsertInto(t)
      PROVE  GroupIsJoined'
  <2>1. /\ UNCHANGED <<call, writers>> /\ pc[t] \in UsesFiles
        /\ group'.ops = group.ops /\ group'.threads = group.threads
    BY <1>5 DEF AddRecord, Sync, InsertInto, queueVars, QueueInv, QueueTypeOK, Fields, UsesFiles
  <2> QED
    BY <2>1, JoinedKept
<1> QED
  BY <1>1, <1>2, <1>3, <1>4, <1>5, StepKinds

\* What is in effect when the first calls of the queue are.
Takes(f, n) ==
    /\ f \in [0..n -> Seq(Id)] /\ f[0] = EffectiveIds
    /\ \A i \in 1..n : f[i] = IF call[writers[i]].kind.null THEN f[i-1]
                              ELSE Append(f[i-1], call[writers[i]].id)

LEMMA EffectiveIdsAreTyped == ASSUME DataInv PROVE EffectiveIds \in Seq(Id)
<1>1. entries \subseteq [seq : Nat, op : Op] /\ last_sequence \in Nat /\ last_sequence \in 0..last_sequence
  BY DEF DataInv, DataTypeOK
<1>2. IdsUpTo(entries, last_sequence) \in [0..last_sequence -> Seq(Id)]
  BY <1>1, IdsStepwise
<1> QED
  BY <1>1, <1>2 DEF EffectiveIds

LEMMA QueuedIsNamed ==
    ASSUME QueueInv, CallInv, NEW i \in 1..Len(writers)
    PROVE  /\ writers[i] \in Threads /\ calls[writers[i]] > 0
           /\ call[writers[i]].id = <<writers[i], calls[writers[i]]>>
           /\ call[writers[i]].id \in Id /\ call[writers[i]].id # NoCall.id
           /\ call[writers[i]].kind \in Kinds
<1>1. writers[i] \in Threads /\ InQueue(writers[i])
  BY DEF QueueInv, QueueTypeOK, InQueue
<1>2. /\ calls[writers[i]] \in Nat /\ calls[writers[i]] > 0
      /\ call[writers[i]].id = <<writers[i], calls[writers[i]]>>
      /\ call[writers[i]].kind \in Kinds
  BY <1>1 DEF QueueInv, QueueTypeOK, CallInv, QueuedIsOpen, Called, CallIsNamed
<1> QED
  BY <1>1, <1>2 DEF Id, NoCall

LEMMA TakenStepwise ==
    ASSUME QueueInv, CallInv, DataInv, NEW n \in 1..Len(writers)
    PROVE  \E f : Takes(f, n) /\ Promise!Taken(n) = f[n]
<1> DEFINE T == Seq(Id)
           Null(i) == call[writers[i]].kind.null
           id(i) == call[writers[i]].id
           item(i) == <<writers[i], IF Null(i) THEN NoCall.id ELSE id(i)>>
           queue == [i \in DOMAIN writers |-> item(i)]
           After(i, s) == IF Null(i) THEN s ELSE Append(s, id(i))
           step == [x \in (1..n) \X T |-> After(x[1], x[2])]
           With == CHOOSE f : f = [i \in 0..n |->
                      IF i = 0 THEN EffectiveIds
                      ELSE IF queue[i][2] = NoCall.id THEN f[i-1] ELSE Append(f[i-1], queue[i][2])]
<1>1. Promise!Taken(n) = With[n]
  BY DEF Promise!Taken
<1>2. n \in Nat /\ DOMAIN writers = 1..Len(writers) /\ \A i \in 1..n : i \in DOMAIN writers
  BY DEF QueueInv, QueueTypeOK
<1>3. \A i \in 1..n : id(i) \in Id /\ id(i) # NoCall.id
  BY <1>2, QueuedIsNamed
<1> HIDE DEF id, Null
<1>4. \A i \in 1..n : queue[i] = item(i)
  BY <1>2
<1> HIDE DEF queue
<1>5. \A i \in 1..n : queue[i][2] = IF Null(i) THEN NoCall.id ELSE id(i)
  BY <1>4
<1>6. \A i \in 1..n : \A s : (IF queue[i][2] = NoCall.id THEN s ELSE Append(s, queue[i][2])) = After(i, s)
  BY <1>3, <1>5
<1>7. \A i \in 1..n, s \in T : After(i, s) \in T
  BY <1>3, AppendProperties
<1> HIDE DEF After
<1>8. step \in [(1..n) \X T -> T] /\ \A i \in 1..n, s \in T : step[<<i, s>>] = After(i, s)
  BY <1>7
<1>9. EffectiveIds \in T
  BY EffectiveIdsAreTyped
<1> HIDE DEF step, T
<1>10. PICK f : Follows(f, T, n, EffectiveIds, step)
  BY <1>2, <1>8, <1>9, Recursion
<1>11. f \in [0..n -> T] /\ f[0] = EffectiveIds /\ \A i \in 1..n : f[i] = After(i, f[i-1])
  <2>1. \A i \in 1..n : i - 1 \in 0..n
    BY <1>2
  <2> QED
    BY <1>8, <1>10, <2>1 DEF Follows
<1>12. f = [i \in 0..n |->
               IF i = 0 THEN EffectiveIds
               ELSE IF queue[i][2] = NoCall.id THEN f[i-1] ELSE Append(f[i-1], queue[i][2])]
  <2>1. f = [i \in 0..n |-> f[i]]
    BY <1>11
  <2>2. ASSUME NEW i \in 0..n, i # 0
        PROVE  f[i] = IF queue[i][2] = NoCall.id THEN f[i-1] ELSE Append(f[i-1], queue[i][2])
    <3>1. i \in 1..n
      BY <1>2, <2>2
    <3>2. f[i] = After(i, f[i-1])
      BY <1>11, <3>1
    <3>3. (IF queue[i][2] = NoCall.id THEN f[i-1] ELSE Append(f[i-1], queue[i][2])) = After(i, f[i-1])
      BY <1>6, <3>1, Zenon
    <3> QED
      BY <3>2, <3>3, Zenon
  <2>3. \A i \in 0..n : f[i] = IF i = 0 THEN EffectiveIds
                               ELSE IF queue[i][2] = NoCall.id THEN f[i-1]
                               ELSE Append(f[i-1], queue[i][2])
    BY <1>11, <2>2
  <2> QED
    BY <2>1, <2>3
<1>13. With = [i \in 0..n |->
               IF i = 0 THEN EffectiveIds
               ELSE IF queue[i][2] = NoCall.id THEN With[i-1] ELSE Append(With[i-1], queue[i][2])]
  BY <1>12
<1> HIDE DEF With
<1> DEFINE body(i) == IF i = 0 THEN EffectiveIds
                      ELSE IF queue[i][2] = NoCall.id THEN With[i-1] ELSE Append(With[i-1], queue[i][2])
<1>14. With = [i \in 0..n |-> body(i)]
  BY <1>13
<1> HIDE DEF body
<1>15. \A i \in 0..n : With[i] = body(i)
  BY <1>14
<1>16. With[0] = EffectiveIds /\ \A i \in 1..n : With[i] = After(i, With[i-1])
  <2>1. With[0] = EffectiveIds
    BY <1>2, <1>15 DEF body
  <2>2. ASSUME NEW i \in 1..n
        PROVE  With[i] = After(i, With[i-1])
    <3>1. i \in 0..n /\ i # 0
      BY <1>2
    <3>2. With[i] = IF queue[i][2] = NoCall.id THEN With[i-1] ELSE Append(With[i-1], queue[i][2])
      BY <1>15, <3>1 DEF body
    <3>3. (IF queue[i][2] = NoCall.id THEN With[i-1] ELSE Append(With[i-1], queue[i][2]))
            = After(i, With[i-1])
      BY <1>6, Zenon
    <3> QED
      BY <3>2, <3>3, Zenon
  <2> QED
    BY <2>1, <2>2
<1> DEFINE I == {i \in Nat : i \in 0..n => With[i] = f[i]}
<1>17. n \in I
  <2>1. 0 \in I
    BY <1>11, <1>16
  <2>2. ASSUME NEW i \in Nat, i \in I
        PROVE  i + 1 \in I
    <3> SUFFICES ASSUME i + 1 \in 0..n
                 PROVE  With[i + 1] = f[i + 1]
      OBVIOUS
    <3>1. i \in 0..n /\ i + 1 \in 1..n /\ (i + 1) - 1 = i
      BY <1>2
    <3>2. With[i] = f[i]
      BY <2>2, <3>1
    <3>3. With[i + 1] = After(i + 1, With[i]) /\ f[i + 1] = After(i + 1, f[i])
      BY <1>11, <1>16, <3>1
    <3> QED
      BY <3>2, <3>3
  <2> HIDE DEF I
  <2> QED
    BY <1>2, <2>1, <2>2, Induction
<1>18. With[n] = f[n]
  BY <1>2, <1>17
<1>19. Takes(f, n)
  BY <1>11 DEF Takes, After, Null, id, T
<1> QED
  BY <1>1, <1>18, <1>19

\* Where FlattenSeq puts the elements of each sequence.
Pieces(F, n, seqs) ==
    \A i \in 1..n : /\ Len(F[i-1]) \in Nat /\ Len(seqs[i]) \in Nat
                    /\ Len(F[i]) = Len(F[i-1]) + Len(seqs[i])
                    /\ Len(F[i]) <= Len(F[n])
                    /\ \A j \in 1..Len(seqs[i]) : F[n][Len(F[i-1]) + j] = seqs[i][j]

LEMMA Placed ==
    ASSUME NEW S, NEW n, NEW seqs, NEW F, Joins(F, S, n, seqs),
           n \in Nat, \A i \in 1..n : seqs[i] \in Seq(S)
    PROVE  Pieces(F, n, seqs)
<1> DEFINE Begins(m, i) == /\ Len(F[i]) <= Len(F[m])
                           /\ \A j \in 1..Len(F[i]) : F[m][j] = F[i][j]
           I == {m \in Nat : m <= n => \A i \in 0..m : Begins(m, i)}
<1>1. \A i \in 0..n : F[i] \in Seq(S) /\ Len(F[i]) \in Nat
  BY DEF Joins
<1>2. \A i \in 1..n : /\ i \in Nat /\ i - 1 \in 0..n /\ i \in 0..n
                      /\ F[i] = F[i-1] \o seqs[i]
                      /\ Len(seqs[i]) \in Nat
  <2>1. \A i \in 1..n : i \in Nat /\ i - 1 \in 0..n /\ i \in 0..n
    OBVIOUS
  <2>2. \A i \in 1..n : F[i] = F[i-1] \o seqs[i]
    BY DEF Joins
  <2>3. \A i \in 1..n : Len(seqs[i]) \in Nat
    OBVIOUS
  <2> QED
    BY <2>1, <2>2, <2>3
<1>3. ASSUME NEW i \in 1..n
      PROVE  /\ Len(F[i]) = Len(F[i-1]) + Len(seqs[i])
             /\ \A j \in 1..Len(F[i]) : F[i][j] = IF j <= Len(F[i-1]) THEN F[i-1][j]
                                                  ELSE seqs[i][j - Len(F[i-1])]
  <2> DEFINE whole == F[i]
             front == F[i-1]
  <2>1. front \in Seq(S) /\ seqs[i] \in Seq(S) /\ whole = front \o seqs[i]
    BY <1>1, <1>2
  <2> HIDE DEF whole, front
  <2>2. Len(front) \in Nat /\ Len(seqs[i]) \in Nat
    BY <2>1
  <2>3. /\ Len(front \o seqs[i]) = Len(front) + Len(seqs[i])
        /\ \A j \in 1..Len(front) + Len(seqs[i]) :
              (front \o seqs[i])[j] = IF j <= Len(front) THEN front[j] ELSE seqs[i][j - Len(front)]
    BY <2>1, ConcatProperties
  <2> QED
    BY <2>1, <2>3 DEF whole, front
<1>4. 0 \in I
  <2>1. \A i \in 0..0 : i = 0
    OBVIOUS
  <2>2. Begins(0, 0)
    BY <1>1
  <2> QED
    BY <2>1, <2>2
<1>5. ASSUME NEW m \in Nat, m \in I
      PROVE  m + 1 \in I
  <2> SUFFICES ASSUME m + 1 <= n, NEW i \in 0..m + 1
               PROVE  Begins(m + 1, i)
    OBVIOUS
  <2> DEFINE k == m + 1
  <2>1. k \in 1..n /\ k - 1 = m /\ k \in 0..n /\ m \in 0..n /\ m <= n
    OBVIOUS
  <2>2. i = k \/ i \in 0..m
    OBVIOUS
  <2> HIDE DEF k
  <2>3. CASE i = k
    BY <1>1, <2>1, <2>3
  <2>4. CASE i \in 0..m
    <3>1. i \in 0..n /\ Begins(m, i)
      BY <1>5, <2>1, <2>4
    <3>2. /\ Len(F[k]) = Len(F[m]) + Len(seqs[k])
          /\ \A j \in 1..Len(F[k]) : j <= Len(F[m]) => F[k][j] = F[m][j]
      BY <1>3, <2>1
    <3>3. Len(F[m]) \in Nat /\ Len(seqs[k]) \in Nat /\ Len(F[i]) \in Nat
      BY <1>1, <1>2, <2>1, <3>1
    <3>4. Begins(k, i)
      <4> DEFINE here == Len(F[i])
                 middle == Len(F[m])
                 more == Len(seqs[k])
      <4>1. here <= middle /\ \A j \in 1..here : F[m][j] = F[i][j]
        BY <3>1
      <4>2. here \in Nat /\ middle \in Nat /\ middle <= Len(F[k])
        <5>1. here \in Nat /\ middle \in Nat /\ more \in Nat /\ Len(F[k]) = middle + more
          BY <3>2, <3>3
        <5> HIDE DEF here, middle, more
        <5> QED
          BY <5>1
      <4>3. \A j \in 1..here : j \in 1..Len(F[k]) /\ j <= middle
        <5>1. Len(F[k]) \in Nat
          BY <1>1, <2>1
        <5> HIDE DEF here, middle
        <5> QED
          BY <4>1, <4>2, <5>1
      <4>4. here <= Len(F[k])
        <5>1. Len(F[k]) \in Nat
          BY <1>1, <2>1
        <5> HIDE DEF here, middle
        <5> QED
          BY <4>1, <4>2, <5>1
      <4> QED
        BY <3>2, <4>1, <4>3, <4>4
    <3> QED
      BY <3>4 DEF k
  <2> QED
    BY <2>2, <2>3, <2>4 DEF k
<1>6. n \in I
  <2> HIDE DEF I
  <2> QED
    BY <1>4, <1>5, Induction
<1> SUFFICES ASSUME NEW i \in 1..n
             PROVE  /\ Len(F[i-1]) \in Nat /\ Len(seqs[i]) \in Nat
                    /\ Len(F[i]) = Len(F[i-1]) + Len(seqs[i])
                    /\ Len(F[i]) <= Len(F[n])
                    /\ \A j \in 1..Len(seqs[i]) : F[n][Len(F[i-1]) + j] = seqs[i][j]
  BY DEF Pieces
<1>7. /\ Len(F[i-1]) \in Nat /\ Len(seqs[i]) \in Nat
      /\ Len(F[i]) = Len(F[i-1]) + Len(seqs[i])
      /\ i \in 0..n
  BY <1>1, <1>2, <1>3
<1>8. Begins(n, i)
  <2>1. \A x \in 0..n : Begins(n, x)
    <3> HIDE DEF Begins
    <3> QED
      BY <1>6
  <2> QED
    BY <1>7, <2>1
<1>9. ASSUME NEW j \in 1..Len(seqs[i])
      PROVE  F[n][Len(F[i-1]) + j] = seqs[i][j]
  <2> DEFINE front == Len(F[i-1])
             k == Len(seqs[i])
             a == front + j
  <2>1. front \in Nat /\ k \in Nat /\ Len(F[i]) = front + k /\ j \in 1..k
    BY <1>7
  <2>2. a \in 1..Len(F[i]) /\ ~(a <= front) /\ a - front = j
    <3> HIDE DEF front, k
    <3> QED
      BY <2>1
  <2> HIDE DEF a
  <2>3. F[n][a] = F[i][a]
    BY <1>8, <2>2
  <2>4. F[i][a] = seqs[i][j]
    BY <1>3, <2>2
  <2> QED
    BY <2>3, <2>4 DEF a
<1> QED
  BY <1>7, <1>8, <1>9

\* The numbers of one batch add its write.
OfOneWrite(all, end, a, ops, name) ==
    /\ all \subseteq [seq : Nat, op : Op] /\ end \in Nat /\ a \in Nat /\ ops \in Nat /\ a + ops <= end
    /\ \A j \in 1..ops : Begun(all, a + j) = IF j = 1 THEN {name} ELSE {}

LEMMA OneWrite ==
    ASSUME NEW all, NEW end, NEW a, NEW ops, NEW name, OfOneWrite(all, end, a, ops, name)
    PROVE  IdsUpTo(all, end)[a + ops] = IF ops = 0 THEN IdsUpTo(all, end)[a]
                                        ELSE Append(IdsUpTo(all, end)[a], name)
<1> DEFINE g == IdsUpTo(all, end)
<1> USE DEF OfOneWrite
<1>1. \A n \in 1..end : g[n] = IF Begun(all, n) = {} THEN g[n-1]
                               ELSE Append(g[n-1], CHOOSE id \in Begun(all, n) : TRUE)
  BY IdsStepwise
<1> HIDE DEF g
<1>2. CASE ops = 0
  BY <1>2 DEF g
<1>3. CASE ops # 0
  <2> DEFINE b == a + 1
             k == ops - 1
  <2>1. b \in 1..end /\ b \in Nat /\ b - 1 = a /\ k \in Nat /\ 1 \in 1..ops /\ a + ops = b + k
    BY <1>3
  <2>2. Begun(all, b) = {name}
    BY <2>1
  <2>3. \A n \in Nat : n > b /\ n <= b + k => g[n] = g[n-1]
    <3> SUFFICES ASSUME NEW n \in Nat, n > b, n <= b + k
                 PROVE  g[n] = g[n-1]
      OBVIOUS
    <3> DEFINE j == n - a
    <3>1. j \in 1..ops /\ j # 1 /\ a + j = n /\ n \in 1..end
      BY <2>1
    <3> HIDE DEF j
    <3>2. Begun(all, n) = {}
      BY <3>1
    <3> QED
      BY <1>1, <3>1, <3>2
  <2> HIDE DEF b, k
  <2>4. g[b + k] = g[b]
    BY <2>1, <2>3, SameUpTo
  <2>5. g[b] = Append(g[b-1], name)
    BY <1>1, <2>1, <2>2
  <2> QED
    BY <1>3, <2>1, <2>4, <2>5 DEF g
<1> QED
  BY <1>2, <1>3

\* Batches with numbers of their own, one behind the other, add their writes.
Batched(all, last, m, front, size, name) ==
    /\ all \subseteq [seq : Nat, op : Op] /\ last \in Nat /\ m \in Nat
    /\ \A i \in 0..m : front[i] \in Nat
    /\ front[0] = 0
    /\ \A i \in 1..m : /\ size[i] \in Nat
                       /\ front[i] = front[i-1] + size[i] /\ front[i] <= front[m]
    /\ \A i \in 1..m : \A j \in 1..size[i] :
          Begun(all, last + (front[i-1] + j)) = IF j = 1 THEN {name[i]} ELSE {}

AddsUp(f, all, last, m, size, name) ==
    /\ f[0] = IdsUpTo(all, last)[last]
    /\ \A i \in 1..m : f[i] = IF size[i] = 0 THEN f[i-1] ELSE Append(f[i-1], name[i])

LEMMA Accumulates ==
    ASSUME NEW all, NEW last, NEW m, NEW front, NEW size, NEW name, NEW f,
           Batched(all, last, m, front, size, name), AddsUp(f, all, last, m, size, name)
    PROVE  IdsUpTo(all, last + front[m])[last + front[m]] = f[m]
<1> DEFINE end == last + front[m]
           g == IdsUpTo(all, end)
           I == {i \in Nat : i <= m => g[last + front[i]] = f[i]}
<1>1. end \in Nat /\ last <= end /\ last \in 0..last /\ m \in 0..m
  BY DEF Batched
<1>2. 0 \in I
  <2>1. last + front[0] = last
    BY DEF Batched
  <2>2. IdsUpTo(all, end)[last] = IdsUpTo(all, last)[last]
    <3>1. all \subseteq [seq : Nat, op : Op] /\ last \in Nat
      BY DEF Batched
    <3> HIDE DEF end
    <3> QED
      BY <1>1, <3>1, IdsBelow
  <2> QED
    BY <2>1, <2>2 DEF AddsUp
<1>3. ASSUME NEW i \in Nat, i \in I
      PROVE  i + 1 \in I
  <2> SUFFICES ASSUME i + 1 <= m
               PROVE  g[last + front[i + 1]] = f[i + 1]
    OBVIOUS
  <2>0. m \in Nat /\ last \in Nat
    BY DEF Batched
  <2> DEFINE k == i + 1
             from == last + front[i]
             ops == size[k]
  <2>1. k \in 1..m /\ k - 1 = i /\ i \in 0..m /\ g[from] = f[i]
    BY <1>3, <2>0
  <2> HIDE DEF k
  <2>2. /\ from \in Nat /\ ops \in Nat /\ last + front[k] = from + ops /\ from + ops <= end
        /\ \A j \in 1..ops : from + j = last + (front[i] + j)
    BY <2>1 DEF Batched
  <2>3. \A j \in 1..ops : Begun(all, last + (front[i] + j)) = IF j = 1 THEN {name[k]} ELSE {}
    BY <2>1 DEF Batched
  <2> HIDE DEF from, ops, end
  <2>4. \A j \in 1..ops : Begun(all, from + j) = IF j = 1 THEN {name[k]} ELSE {}
    BY <2>2, <2>3
  <2>5. IdsUpTo(all, end)[from + ops] = IF ops = 0 THEN IdsUpTo(all, end)[from]
                                        ELSE Append(IdsUpTo(all, end)[from], name[k])
    <3>1. OfOneWrite(all, end, from, ops, name[k])
      BY <1>1, <2>2, <2>4 DEF OfOneWrite, Batched
    <3> QED
      BY <3>1, OneWrite
  <2>6. f[k] = IF ops = 0 THEN f[i] ELSE Append(f[i], name[k])
    BY <2>1 DEF ops, AddsUp
  <2> QED
    BY <2>1, <2>2, <2>5, <2>6 DEF k
<1>4. m \in I
  <2>1. m \in Nat
    BY DEF Batched
  <2> HIDE DEF I
  <2> QED
    BY <1>2, <1>3, <2>1, Induction
<1> QED
  BY <1>4

\* The operations of a group that is inserted have their numbers.
LEMMA GroupIsNumbered ==
    ASSUME DataInv, NEW t \in Threads, pc[t] = "inserted", NEW k \in 1..Len(group.ops)
    PROVE  Begun(entries, last_sequence + k) =
             IF group.ops[k][2] = 1 THEN {group.ops[k][1]} ELSE {}
<1> DEFINE n == last_sequence + k
           e == [seq |-> n, op |-> group.ops[k]]
<1>1. /\ group.inserted = Len(group.ops) /\ group.first = last_sequence + 1
      /\ last_sequence \in Nat /\ Len(group.ops) \in Nat
  BY DEF DataInv, DataTypeOK, GroupIsSound, GroupInv, UsesFiles
<1>2. [seq |-> group.first + k - 1, op |-> group.ops[k]] \in entries
  BY <1>1 DEF DataInv, InsertedInOrder
<1>3. group.first + k - 1 = n
  BY <1>1
<1> HIDE DEF n
<1>4. e \in entries /\ e.seq = n /\ e.op = group.ops[k]
  BY <1>2, <1>3
<1> HIDE DEF e
<1>5. \A x \in entries : x.seq = n => x = e
  BY <1>4 DEF DataInv, EntriesInv
<1>6. {x \in entries : x.seq = n /\ x.op[2] = 1} = IF group.ops[k][2] = 1 THEN {e} ELSE {}
  BY <1>4, <1>5
<1>7. Begun(entries, n) = IF group.ops[k][2] = 1 THEN {group.ops[k][1]} ELSE {}
  BY <1>4, <1>6 DEF Begun
<1> QED
  BY <1>7 DEF n

\* They take effect as the writes of its members, in order.
LEMMA GroupTakesEffect ==
    ASSUME QueueInv, CallInv, DataInv, GroupIsJoined, NEW t \in Threads, pc[t] = "inserted",
           NEW m \in 1..Len(writers), DOMAIN group.threads = 1..m,
           \A i \in 1..m : group.threads[i] = writers[i],
           NEW f, Takes(f, m)
    PROVE  IdsUpTo(entries, last_sequence + Len(group.ops))[last_sequence + Len(group.ops)] = f[m]
<1> DEFINE seqs == [i \in 1..m |-> Ops(writers[i])]
           name == [i \in 1..m |-> call[writers[i]].id]
           size == [i \in 1..m |-> call[writers[i]].kind.ops]
<1>1. /\ last_sequence \in Nat /\ Len(group.ops) \in Nat /\ m \in Nat /\ m \in Nat \ {0}
      /\ entries \subseteq [seq : Nat, op : Op]
      /\ \A i \in 1..m : i \in 1..Len(writers)
  BY DEF DataInv, DataTypeOK, QueueInv, QueueTypeOK
<1>2. ASSUME NEW i \in 1..m
      PROVE  /\ size[i] \in Nat /\ call[writers[i]].kind.null = (size[i] = 0)
             /\ seqs[i] \in Seq(Op) /\ Len(seqs[i]) = size[i]
             /\ \A j \in 1..size[i] : seqs[i][j] = <<name[i], j>>
  <2>1. writers[i] \in Threads /\ calls[writers[i]] > 0 /\ call[writers[i]].kind \in Kinds
    BY <1>1, QueuedIsNamed
  <2>2. size[i] \in Nat /\ call[writers[i]].kind.null = (size[i] = 0)
    BY <2>1, QueueAssumption
  <2>3. seqs[i] \in Seq(Op)
    BY <2>1, OpsAreTyped
  <2>4. seqs[i] = [j \in 1..size[i] |-> <<name[i], j>>]
    BY DEF Ops
  <2> HIDE DEF seqs, size, name
  <2> QED
    BY <2>2, <2>3, <2>4
<1>3. group.ops = FlattenSeq(seqs)
  <2>1. group.ops = FlattenSeq([i \in DOMAIN group.threads |-> Ops(group.threads[i])])
    BY DEF GroupIsJoined, UsesFiles
  <2>2. [i \in DOMAIN group.threads |-> Ops(group.threads[i])] = seqs
    OBVIOUS
  <2> QED
    BY <2>1, <2>2
<1>4. Len(seqs) = m
  BY <1>1
<1>5. f[0] = EffectiveIds
      /\ \A i \in 1..m : f[i] = IF size[i] = 0 THEN f[i-1] ELSE Append(f[i-1], name[i])
  BY <1>2 DEF Takes
<1> HIDE DEF seqs, size, name
<1>6. PICK F : Joins(F, Op, m, seqs)
  BY <1>1, <1>2, <1>4, FlattensStepwise
<1> DEFINE front == [i \in 0..m |-> Len(F[i])]
<1>7. F[m] = group.ops /\ front[m] = Len(group.ops) /\ front[0] = 0
      /\ \A i \in 0..m : front[i] \in Nat
  BY <1>1, <1>3, <1>6 DEF Joins
<1>8. \A i \in 1..m :
         /\ front[i] = front[i-1] + size[i] /\ front[i] <= front[m]
         /\ \A j \in 1..size[i] : group.ops[front[i-1] + j] = <<name[i], j>>
  <2> SUFFICES ASSUME NEW i \in 1..m
               PROVE  /\ front[i] = front[i-1] + size[i] /\ front[i] <= front[m]
                      /\ \A j \in 1..size[i] : group.ops[front[i-1] + j] = <<name[i], j>>
    OBVIOUS
  <2>1. /\ Len(F[i]) = Len(F[i-1]) + Len(seqs[i])
        /\ Len(F[i]) <= Len(F[m])
        /\ \A j \in 1..Len(seqs[i]) : F[m][Len(F[i-1]) + j] = seqs[i][j]
    <3>1. \A h \in 1..m : seqs[h] \in Seq(Op)
      BY <1>2
    <3>2. m \in Nat
      BY <1>1
    <3>3. Pieces(F, m, seqs)
      BY <1>6, <3>1, <3>2, Placed
    <3> HIDE DEF front
    <3> QED
      BY <3>3 DEF Pieces
  <2>2. front[i] = Len(F[i]) /\ front[i-1] = Len(F[i-1]) /\ front[m] = Len(F[m])
    BY <1>1
  <2> HIDE DEF front
  <2> QED
    BY <1>2, <1>7, <2>1, <2>2
<1> HIDE DEF front
<1>9. \A i \in 1..m : \A j \in 1..size[i] :
         Begun(entries, last_sequence + (front[i-1] + j)) = IF j = 1 THEN {name[i]} ELSE {}
  <2> SUFFICES ASSUME NEW i \in 1..m, NEW j \in 1..size[i]
               PROVE  Begun(entries, last_sequence + (front[i-1] + j)) = IF j = 1 THEN {name[i]} ELSE {}
    OBVIOUS
  <2> DEFINE k == front[i-1] + j
  <2>1. k \in 1..Len(group.ops) /\ group.ops[k] = <<name[i], j>>
    <3>1. front[i-1] \in Nat /\ front[m] = Len(group.ops) /\ size[i] \in Nat
      BY <1>1, <1>2, <1>7
    <3>2. front[i] = front[i-1] + size[i] /\ front[i] <= front[m]
          /\ group.ops[front[i-1] + j] = <<name[i], j>>
      BY <1>8
    <3> QED
      BY <1>1, <3>1, <3>2
  <2> HIDE DEF k
  <2>2. Begun(entries, last_sequence + k) = IF group.ops[k][2] = 1 THEN {group.ops[k][1]} ELSE {}
    BY <2>1, GroupIsNumbered
  <2>3. group.ops[k][2] = j /\ group.ops[k][1] = name[i]
    BY <2>1
  <2> QED
    BY <2>2, <2>3 DEF k
<1>10. f[0] = IdsUpTo(entries, last_sequence)[last_sequence]
  BY <1>5 DEF EffectiveIds
<1>11. Batched(entries, last_sequence, m, front, size, name)
  BY <1>1, <1>2, <1>7, <1>8, <1>9 DEF Batched
<1>12. AddsUp(f, entries, last_sequence, m, size, name)
  BY <1>5, <1>10 DEF AddsUp
<1>13. IdsUpTo(entries, last_sequence + front[m])[last_sequence + front[m]] = f[m]
  BY <1>11, <1>12, Accumulates
<1> QED
  BY <1>7, <1>13

\* A call is open until its thread has taken its answer; what Commits sees of it.
Opened(t) == pc[t] = "returned" \/ Asks(t)
OpenPlaces == {"returned"} \cup Waits \cup Leads
SameOpen == \A u \in Threads : Opened(u)' <=> Opened(u)

LEMMA OutcomeIs ==
    ASSUME QueueInv, NEW t \in Threads
    PROVE  Outcome(t) = IF Opened(t) THEN IF call[t].done THEN call[t].status ELSE "pending" ELSE "none"
<1>1. pc[t] \in Places
  BY DEF QueueInv, QueueTypeOK
<1>2. Opened(t) <=> pc[t] \notin {"idle", "flushWait", "flushWoken", "rangeWait", "rangeWoken"}
  BY <1>1 DEF Opened, Asks, Places, Waits, Leads, UsesFiles
<1> QED
  BY <1>2 DEF Outcome

LEMMA OutcomeIsNext ==
    ASSUME QueueInv', NEW t \in Threads
    PROVE  Outcome(t)' = IF Opened(t)' THEN IF call'[t].done THEN call'[t].status ELSE "pending"
                         ELSE "none"
<1>1. pc'[t] \in Places
  BY DEF QueueInv, QueueTypeOK
<1>2. Opened(t)' <=> pc'[t] \notin {"idle", "flushWait", "flushWoken", "rangeWait", "rangeWoken"}
  BY <1>1 DEF Opened, Asks, Places, Waits, Leads, UsesFiles
<1> QED
  BY <1>2 DEF Outcome

LEMMA OpenMoves ==
    ASSUME QueueInv, NEW t \in Threads, NEW q, pc' = [pc EXCEPT ![t] = q],
           q \in OpenPlaces <=> pc[t] \in OpenPlaces
    PROVE  SameOpen
<1>1. \A u \in Threads : pc'[u] = IF u = t THEN q ELSE pc[u]
  BY DEF QueueInv, QueueTypeOK
<1> QED
  BY <1>1 DEF SameOpen, Opened, Asks, OpenPlaces

LEMMA OpenSignals == SignalAll(pc) = pc' => SameOpen
<1> SUFFICES ASSUME pc' = SignalAll(pc), NEW u \in Threads
             PROVE  Opened(u)' <=> Opened(u)
  BY DEF SameOpen
<1>1. pc'[u] = CASE pc[u] = "bgWait" -> "bgWoken"
                 [] pc[u] = "flushWait" -> "flushWoken"
                 [] pc[u] = "rangeWait" -> "rangeWoken"
                 [] OTHER -> pc[u]
  BY DEF SignalAll
<1> QED
  BY <1>1 DEF Opened, Asks, Waits, Leads, UsesFiles

\* Every step but the start of a call, the answers to some, and the return.
LEMMA OpenKept ==
    ASSUME QueueInv,
           \/ BackgroundStep \/ UNCHANGED vars
           \/ \E t \in Threads :
                 \/ Woken(t) \/ SpuriousWakeUp(t) \/ Sleep(t) \/ WaitForBackground(t) \/ Relock(t)
                 \/ SwitchMemTable(t) \/ StartGroup(t) \/ AddRecord(t) \/ Sync(t) \/ InsertInto(t)
                 \/ AwaitFlush(t) \/ TakeSlot(t) \/ AwaitCompaction(t) \/ LeaveRange(t)
    PROVE  SameOpen
<1>1. CASE UNCHANGED pc
  BY <1>1 DEF SameOpen, Opened, Asks
<1>2. CASE BackgroundStep \/ UNCHANGED vars
  <2>1. pc' = SignalAll(pc) \/ UNCHANGED pc
    BY <1>2 DEF BackgroundStep, BackgroundCall, MergeYields, TableWritten, MemTableCompacted, FlushFails,
       MergeDone, MergeLosesManual, EndCall, vars
  <2> QED
    BY <1>1, <2>1, OpenSignals
<1>3. ASSUME NEW t \in Threads,
             \/ Woken(t) \/ SpuriousWakeUp(t) \/ Sleep(t) \/ WaitForBackground(t) \/ Relock(t)
             \/ SwitchMemTable(t) \/ StartGroup(t) \/ AddRecord(t) \/ Sync(t) \/ InsertInto(t)
      PROVE  SameOpen
  <2>1. pc[t] \in OpenPlaces
    BY <1>3 DEF Woken, SpuriousWakeUp, Sleep, WaitForBackground, Relock, SwitchMemTable,
       NeedsNewMemTable, StartGroup, AddRecord, Sync, InsertInto, InRoom, OpenPlaces, Waits, Leads,
       UsesFiles
  <2>2. UNCHANGED pc \/ \E q \in OpenPlaces : pc' = [pc EXCEPT ![t] = q]
    <3>1. {"returned", "room", "waiting", "woken", "asleep", "bgWait", "append", "sync", "insert",
           "inserted", "failed", "syncError"} \subseteq OpenPlaces
      BY DEF OpenPlaces, Waits, Leads, UsesFiles
    <3>2. CASE Woken(t) \/ SpuriousWakeUp(t) \/ Sleep(t) \/ WaitForBackground(t) \/ Relock(t)
      BY <3>1, <3>2 DEF Woken, SpuriousWakeUp, Sleep, WaitForBackground, Relock, Lead
    <3>3. CASE SwitchMemTable(t) \/ StartGroup(t) \/ AddRecord(t) \/ Sync(t) \/ InsertInto(t)
      BY <3>1, <3>3 DEF SwitchMemTable, StartGroup, AddRecord, Sync, InsertInto, Go
    <3> QED
      BY <1>3, <3>2, <3>3
  <2> QED
    BY <1>1, <2>1, <2>2, OpenMoves
<1>4. ASSUME NEW t \in Threads, AwaitFlush(t) \/ TakeSlot(t) \/ AwaitCompaction(t) \/ LeaveRange(t)
      PROVE  SameOpen
  <2>1. pc[t] \notin OpenPlaces
    BY <1>4 DEF AwaitFlush, TakeSlot, AwaitCompaction, LeaveRange, InRange, OpenPlaces, Waits, Leads,
       UsesFiles
  <2>2. \E q \in {"idle", "flushWait", "rangeWait", "rangeWoken"} : pc' = [pc EXCEPT ![t] = q]
    BY <1>4 DEF AwaitFlush, TakeSlot, AwaitCompaction, LeaveRange, Go
  <2>3. \A q \in {"idle", "flushWait", "rangeWait", "rangeWoken"} : q \notin OpenPlaces
    BY DEF OpenPlaces, Waits, Leads, UsesFiles
  <2> QED
    BY <2>1, <2>2, <2>3, OpenMoves
<1> QED
  BY <1>2, <1>3, <1>4

\* The end of Write, as the queue sees it.
LEMMA FinishLeaves ==
    ASSUME QueueInv, CallInv, NEW t \in Threads, pc[t] \in Leads,
           NEW m \in 1..Len(writers), NEW status, NEW p, p = pc \/ p = SignalAll(pc),
           Finish(t, writers[m], status, p)
    PROVE  writers' = SubSeq(writers, m + 1, Len(writers)) /\ SameOpen
<1> DEFINE n == CHOOSE i \in DOMAIN writers : writers[i] = writers[m]
           rest == SubSeq(writers, n + 1, Len(writers))
           Ready == {writers[i] : i \in 1..n} \ {t}
           Signalled == Ready \cup (IF rest = <<>> THEN {} ELSE {rest[1]})
<1>1. DOMAIN writers = 1..Len(writers)
  BY DEF QueueInv, QueueTypeOK
<1>2. n = m
  BY <1>1 DEF CallInv, Distinct
<1>3. /\ writers' = rest
      /\ pc' = [u \in Threads |-> IF u = t THEN "returned"
                                  ELSE IF u \in Signalled /\ p[u] = "waiting" THEN "woken" ELSE p[u]]
  BY DEF Finish
<1> HIDE DEF n, Signalled
<1>4. \A u \in Threads : /\ p[u] = "waiting" => pc[u] = "waiting"
                         /\ p[u] \in OpenPlaces <=> pc[u] \in OpenPlaces
  <2>1. CASE p = pc
    BY <2>1
  <2>2. CASE p = SignalAll(pc)
    BY <2>2 DEF SignalAll, OpenPlaces, Waits, Leads, UsesFiles
  <2> QED
    BY <2>1, <2>2
<1>5. "waiting" \in OpenPlaces /\ "woken" \in OpenPlaces /\ pc[t] \in OpenPlaces /\ "returned" \in OpenPlaces
  BY DEF OpenPlaces, Waits
<1>6. \A u \in Threads : pc'[u] \in OpenPlaces <=> pc[u] \in OpenPlaces
  BY <1>3, <1>4, <1>5
<1>7. SameOpen
  BY <1>6 DEF SameOpen, Opened, Asks, OpenPlaces
<1> QED
  BY <1>2, <1>3, <1>7

\* An answer is OK or an error.
StatusIsGiven == \A t \in Threads : calls[t] > 0 /\ call[t].done => call[t].status \in {"ok", "error"}

LEMMA StatusStep == QueueInv /\ CallInv /\ StatusIsGiven /\ [Next]_vars => StatusIsGiven'
<1> SUFFICES ASSUME QueueInv, CallInv, StatusIsGiven, [Next]_vars
             PROVE  StatusIsGiven'
  OBVIOUS
<1>1. CASE Quiet
  BY <1>1 DEF Quiet, SameCall, StatusIsGiven
<1>2. ASSUME NEW t \in Threads, NEW k \in Kinds, Write(t, k)
      PROVE  StatusIsGiven'
  BY <1>2, CallWrite DEF StatusIsGiven
<1>3. ASSUME NEW m, NEW status \in {"ok", "error"}, Answers(m, status)
      PROVE  StatusIsGiven'
  BY <1>3 DEF Answers, StatusIsGiven
<1>4. ASSUME NEW t \in Threads, YieldError(t) \/ NewLogFails(t) \/ NullBatch(t)
      PROVE  StatusIsGiven'
  BY <1>3, <1>4, Alone
<1>5. ASSUME NEW t \in Threads, EndGroup(t)
      PROVE  StatusIsGiven'
  BY <1>3, <1>5, CallEndGroup
<1>6. ASSUME NEW t \in Threads, StartGroup(t) \/ AddRecord(t) \/ Sync(t) \/ InsertInto(t)
      PROVE  StatusIsGiven'
  BY <1>6 DEF StartGroup, AddRecord, Sync, InsertInto, queueVars, StatusIsGiven
<1> QED
  BY <1>1, <1>2, <1>4, <1>5, <1>6, StepKinds

\* What Commits sees of the queue and of the calls.
Queued(t) == <<t, IF call[t].kind.null THEN NoCall.id ELSE call[t].id>>
Queue == [i \in DOMAIN writers |-> Queued(writers[i])]
Outcomes == [t \in Threads |-> Outcome(t)]

LEMMA Stutters ==
    ASSUME QueueInv, QueueInv', UNCHANGED writers, EffectiveIds' = EffectiveIds, SameOpen,
           \A u \in Threads : SameCall(u)
    PROVE  UNCHANGED Promise!vars
<1>1. \A u \in Threads : Outcome(u)' = Outcome(u)
  BY OutcomeIs, OutcomeIsNext DEF SameOpen, SameCall
<1>2. Outcomes' = Outcomes
  BY <1>1 DEF Outcomes
<1>3. Queue' = Queue
  <2>1. \A i \in DOMAIN writers : writers[i] \in Threads
    BY DEF QueueInv, QueueTypeOK
  <2>2. \A i \in DOMAIN writers : Queued(writers[i])' = Queued(writers[i])
    BY <2>1 DEF Queued, SameCall
  <2> QED
    BY <2>2 DEF Queue
<1> QED
  BY <1>2, <1>3 DEF Promise!vars, Queue, Queued, Outcomes

LEMMA MapsReturn ==
    ASSUME QueueInv, QueueInv', CallInv, StatusIsGiven, NEW t \in Threads, Return(t)
    PROVE  Promise!Return(t)
<1>1. /\ UNCHANGED <<call, calls, writers, entries, last_sequence>> /\ pc[t] = "returned"
      /\ \E q \in {"idle", "flushWoken"} : pc' = [pc EXCEPT ![t] = q]
  BY DEF Return, Go, queueVars, dataVars
<1>2. Opened(t) /\ ~Opened(t)' /\ \A u \in Threads : u # t => (Opened(u)' <=> Opened(u))
  BY <1>1 DEF QueueInv, QueueTypeOK, Opened, Asks, Waits, Leads, UsesFiles
<1>3. call[t].done /\ call[t].status \in {"ok", "error"}
  BY <1>1 DEF CallInv, ReturnedIsDone, Called, StatusIsGiven
<1>4. Outcome(t) \in {"ok", "error"}
  BY <1>2, <1>3, OutcomeIs
<1>5. \A u \in Threads : Outcome(u)' = IF u = t THEN "none" ELSE Outcome(u)
  BY <1>1, <1>2, OutcomeIs, OutcomeIsNext
<1>6. Outcomes' = [Outcomes EXCEPT ![t] = "none"]
  BY <1>5 DEF Outcomes
<1>7. Queue' = Queue /\ EffectiveIds' = EffectiveIds
  BY <1>1 DEF Queue, Queued, EffectiveIds, IdsUpTo, Begun
<1>8. Outcomes[t] \in {"ok", "error"}
  BY <1>4 DEF Outcomes
<1> QED
  BY <1>6, <1>7, <1>8 DEF Promise!Return, Queue, Queued, Outcomes

LEMMA MapsCall ==
    ASSUME QueueInv, QueueInv', CallInv, NEW t \in Threads, NEW k \in Kinds, Write(t, k)
    PROVE  Promise!Call(t)
<1>1. /\ ~InQueue(t) /\ ~Opened(t)
      /\ \A u \in Threads : u # t => pc'[u] = pc[u] /\ call'[u] = call[u]
      /\ pc'[t] \in {"room", "waiting"}
      /\ call'[t].id = <<t, calls[t] + 1>> /\ ~call'[t].done
  BY CallWrite DEF Opened
<1>2. /\ writers \in Seq(Threads) /\ writers' = Append(writers, t) /\ calls[t] < MaxCalls
      /\ calls[t] \in Nat /\ UNCHANGED <<entries, last_sequence>>
  BY DEF Write, dataVars, QueueInv, QueueTypeOK
<1>3. Opened(t)' /\ \A u \in Threads : u # t => (Opened(u)' <=> Opened(u))
  BY <1>1 DEF Opened, Asks, Waits, Leads
<1>4. Outcome(t) = "none" /\ \A u \in Threads : Outcome(u)' = IF u = t THEN "pending" ELSE Outcome(u)
  BY <1>1, <1>3, OutcomeIs, OutcomeIsNext
<1>5. Outcomes[t] = "none" /\ Outcomes' = [Outcomes EXCEPT ![t] = "pending"]
  BY <1>4 DEF Outcomes
<1> DEFINE b == IF call'[t].kind.null THEN NoCall.id ELSE call'[t].id
<1>6. b \in (Threads \X (1..MaxCalls)) \cup {NoCall.id} /\ Queued(t)' = <<t, b>>
  <2>1. calls[t] + 1 \in 1..MaxCalls
    BY <1>2, QueueAssumption
  <2> QED
    BY <1>1, <2>1 DEF Queued
<1>7. /\ \A i \in 1..Len(writers) : writers[i] \in Threads /\ writers[i] # t
      /\ \A u \in Threads : u # t => Queued(u)' = Queued(u)
  <2>1. \A i \in 1..Len(writers) : writers[i] \in Threads /\ writers[i] # t
    BY <1>1, <1>2 DEF InQueue
  <2> QED
    BY <1>1, <2>1 DEF Queued
<1>8. Queue' = Append(Queue, <<t, b>>)
  <2>1. /\ Len(writers') = Len(writers) + 1 /\ Len(writers) \in Nat
        /\ \A i \in 1..Len(writers) : writers'[i] = writers[i]
        /\ writers'[Len(writers) + 1] = t
        /\ DOMAIN writers = 1..Len(writers) /\ DOMAIN writers' = 1..Len(writers')
    BY <1>2, AppendProperties
  <2>2. Queue' = [i \in 1..Len(writers) + 1 |-> Queued(writers[i])']
    BY <2>1 DEF Queue
  <2> DEFINE item(i) == Queued(writers[i])
             n == Len(writers)
  <2>3. Queue' = [i \in 1..n + 1 |-> IF i = n + 1 THEN <<t, b>> ELSE item(i)]
    <3>1. \A i \in 1..n + 1 : Queued(writers[i])' = IF i = n + 1 THEN <<t, b>> ELSE item(i)
      <4> SUFFICES ASSUME NEW i \in 1..n + 1
                   PROVE  Queued(writers[i])' = IF i = n + 1 THEN <<t, b>> ELSE item(i)
        OBVIOUS
      <4>1. CASE i = n + 1
        BY <1>6, <2>1, <4>1 DEF Queued
      <4>2. CASE i # n + 1
        <5>1. i \in 1..n
          BY <2>1, <4>2
        <5>2. writers'[i] = writers[i] /\ writers[i] \in Threads /\ writers[i] # t
          BY <1>7, <2>1, <5>1
        <5>3. call'[writers[i]] = call[writers[i]]
          BY <1>1, <5>2
        <5> QED
          BY <4>2, <5>2, <5>3 DEF Queued
      <4> QED
        BY <4>1, <4>2
    <3> QED
      BY <2>2, <3>1
  <2>4. Queue = [i \in 1..n |-> item(i)]
    BY <2>1 DEF Queue
  <2> HIDE DEF item, n, b
  <2>5. n \in Nat
    BY <2>1 DEF n
  <2> QED
    BY <2>3, <2>4, <2>5
<1>9. EffectiveIds' = EffectiveIds
  BY <1>2 DEF EffectiveIds, IdsUpTo, Begun
<1> HIDE DEF b
<1> QED
  BY <1>5, <1>6, <1>8, <1>9 DEF Promise!Call, Queue, Queued, Outcomes

LEMMA Suffix ==
    ASSUME NEW S, NEW s \in Seq(S), NEW m \in Nat, m <= Len(s)
    PROVE  SubSeq(s, m + 1, Len(s)) = [i \in 1..(Len(s) - m) |-> s[m + i]]
<1> DEFINE a == m + 1
           b == Len(s)
           n == Len(s) - m
           rest == SubSeq(s, a, b)
<1>1. b \in Nat /\ n \in Nat /\ a \in 1..b+1 /\ \A i \in a..b : s[i] \in S
  OBVIOUS
<1>2. (IF a <= b THEN b - a + 1 ELSE 0) = n /\ b - a + 1 = n
  BY <1>1
<1>3. \A i \in 1..n : a + i - 1 = m + i
  BY <1>1
<1> HIDE DEF a, b, n
<1>4. /\ rest \in Seq(S) /\ Len(rest) = IF a <= b THEN b - a + 1 ELSE 0
      /\ \A i \in 1 .. b - a + 1 : rest[i] = s[a + i - 1]
  BY <1>1, SubSeqProperties DEF a, b
<1> HIDE DEF rest
<1>5. Len(rest) = n /\ \A i \in 1..n : rest[i] = s[m + i]
  BY <1>2, <1>3, <1>4
<1>6. rest = [i \in 1..n |-> s[m + i]]
  BY <1>1, <1>4, <1>5
<1> QED
  BY <1>6 DEF rest, a, b, n

LEMMA MapsResolve ==
    ASSUME QueueInv, QueueInv', CallInv, NEW m \in 1..Len(writers), NEW status \in {"ok", "error"},
           Answers(m, status), writers' = SubSeq(writers, m + 1, Len(writers)), SameOpen,
           EffectiveIds' = IF status = "ok" THEN Promise!Taken(m) ELSE EffectiveIds
    PROVE  Promise!Next
<1>1. /\ writers \in Seq(Threads) /\ Len(writers) \in Nat /\ m \in Nat /\ DOMAIN writers = 1..Len(writers)
      /\ \A i \in 1..m : i \in 1..Len(writers)
  BY DEF QueueInv, QueueTypeOK
<1>2. \A u \in Threads : u \in Foremost(m) => Opened(u)
  BY <1>1 DEF Foremost, CallInv, QueuedIsOpen, InQueue, Opened, Asks
<1>3. \A u \in Threads : Outcome(u)' = IF u \in Foremost(m) THEN status ELSE Outcome(u)
  BY <1>2, OutcomeIs, OutcomeIsNext DEF SameOpen, Answers
<1> DEFINE first == {Queue[i][1] : i \in 1..m}
<1>4. first = Foremost(m)
  BY <1>1 DEF Queue, Queued, Foremost
<1>5. Outcomes' = [u \in Threads |-> IF u \in first THEN status ELSE Outcomes[u]]
  BY <1>3, <1>4 DEF Outcomes
<1>6. Len(Queue) = Len(writers)
  BY <1>1 DEF Queue
<1>7. Queue' = SubSeq(Queue, m + 1, Len(Queue))
  <2> DEFINE n == Len(writers) - m
             T == {Queued(u) : u \in Threads}
  <2>1. n \in Nat /\ m <= Len(writers) /\ m <= Len(Queue) /\ \A i \in 1..n : m + i \in 1..Len(writers)
    BY <1>1, <1>6
  <2>2. writers' = [i \in 1..n |-> writers[m + i]]
    BY <1>1, <2>1, Suffix
  <2>3. Queue \in Seq(T)
    BY <1>1 DEF Queue
  <2>4. SubSeq(Queue, m + 1, Len(Queue)) = [i \in 1..n |-> Queue[m + i]]
    <3> HIDE DEF T
    <3>1. SubSeq(Queue, m + 1, Len(Queue)) = [i \in 1..(Len(Queue) - m) |-> Queue[m + i]]
      BY <1>1, <2>1, <2>3, Suffix
    <3> QED
      BY <1>6, <3>1
  <2> HIDE DEF n
  <2>5. \A i \in 1..n : Queued(writers[i])' = Queue[m + i]
    <3> SUFFICES ASSUME NEW i \in 1..n
                 PROVE  Queued(writers[i])' = Queue[m + i]
      OBVIOUS
    <3>1. writers'[i] = writers[m + i] /\ writers[m + i] \in Threads
      BY <1>1, <2>1, <2>2
    <3>2. call'[writers[m + i]].id = call[writers[m + i]].id
          /\ call'[writers[m + i]].kind = call[writers[m + i]].kind
      BY <3>1 DEF Answers
    <3>3. Queue[m + i] = Queued(writers[m + i])
      BY <1>1, <2>1 DEF Queue
    <3> QED
      BY <3>1, <3>2, <3>3 DEF Queued
  <2>6. Queue' = [i \in 1..n |-> Queue[m + i]]
    <3>1. DOMAIN writers' = 1..n
      BY <2>2
    <3> QED
      BY <2>5, <3>1 DEF Queue
  <2> QED
    BY <2>4, <2>6
<1> HIDE DEF first
<1>8. Promise!Resolve(m, status)
  BY <1>5, <1>7 DEF Promise!Resolve, Promise!First, Queue, Queued, Outcomes, first
<1>9. m \in 1..Len(Queue)
  BY <1>6
<1> QED
  BY <1>8, <1>9 DEF Promise!Next, Queue, Queued

\* A call that is answered on its own: an error, or nothing to write.
LEMMA MapsAlone ==
    ASSUME QueueInv, QueueInv', CallInv, DataInv, NEW t \in Threads,
           YieldError(t) \/ NewLogFails(t) \/ NullBatch(t)
    PROVE  Promise!Next
<1>1. /\ 1 \in 1..Len(writers) /\ writers[1] = t /\ pc[t] \in Leads
      /\ UNCHANGED <<entries, last_sequence>>
  BY Alone DEF QueueInv, HeadLeads
<1>2. EffectiveIds' = EffectiveIds
  BY <1>1 DEF EffectiveIds, IdsUpTo, Begun
<1>3. CASE Finish(t, t, "error", pc)
  <2>1. CallInv' /\ Answers(1, "error") /\ writers' = SubSeq(writers, 1 + 1, Len(writers)) /\ SameOpen
    BY <1>1, <1>3, CallFinish, FinishLeaves
  <2> QED
    BY <1>1, <1>2, <2>1, MapsResolve
<1>4. CASE Finish(t, t, "ok", pc) /\ call[t].kind.null
  <2>1. Answers(1, "ok") /\ writers' = SubSeq(writers, 1 + 1, Len(writers)) /\ SameOpen
    BY <1>1, <1>4, CallFinish, FinishLeaves
  <2>2. PICK f : Takes(f, 1) /\ Promise!Taken(1) = f[1]
    BY <1>1, TakenStepwise
  <2>3. Promise!Taken(1) = EffectiveIds
    BY <1>1, <1>4, <2>2 DEF Takes
  <2> QED
    BY <1>1, <1>2, <2>1, <2>3, MapsResolve
<1> QED
  BY <1>3, <1>4 DEF YieldError, NewLogFails, NullBatch

\* A group that is in the memtable takes effect when its numbers are counted;
\* a group that failed has put nothing there.
LEMMA MapsEndGroup ==
    ASSUME QueueInv, QueueInv', CallInv, DataInv, GroupIsJoined, NEW t \in Threads, EndGroup(t)
    PROVE  Promise!Next
<1> DEFINE status == IF pc[t] = "inserted" THEN "ok" ELSE "error"
           ops == Len(group.ops)
<1>1. /\ pc[t] \in UsesFiles /\ pc[t] \in Leads /\ pc[t] \in {"inserted", "failed", "syncError"}
      /\ UNCHANGED entries /\ last_sequence' = last_sequence + ops
  BY DEF EndGroup, UsesFiles, Leads
<1>2. PICK m \in 1..Len(writers) :
         /\ DOMAIN group.threads = 1..m /\ Last(group.threads) = writers[m]
         /\ \A i \in 1..m : group.threads[i] = writers[i]
  BY <1>1, GroupInOrder
<1>3. \E p \in {pc, SignalAll(pc)} : Finish(t, writers[m], status, p)
  BY <1>2 DEF EndGroup
<1>4. Answers(m, status) /\ writers' = SubSeq(writers, m + 1, Len(writers)) /\ SameOpen
  <2> HIDE DEF status
  <2>1. PICK p \in {pc, SignalAll(pc)} : Finish(t, writers[m], status, p)
    BY <1>3
  <2>2. p = pc \/ p = SignalAll(pc)
    BY <2>1
  <2> QED
    BY <1>1, <2>1, <2>2, CallFinish, FinishLeaves
<1>5. /\ last_sequence \in Nat /\ ops \in Nat /\ group.inserted \in Nat
      /\ entries \subseteq [seq : Nat, op : Op]
  BY DEF DataInv, DataTypeOK
<1>6. EffectiveIds' = IdsUpTo(entries, last_sequence + ops)[last_sequence + ops]
  <2> HIDE DEF ops
  <2> QED
    BY <1>1 DEF EffectiveIds, IdsUpTo, Begun
<1>7. CASE pc[t] = "inserted"
  <2>1. PICK f : Takes(f, m) /\ Promise!Taken(m) = f[m]
    BY TakenStepwise
  <2>2. IdsUpTo(entries, last_sequence + ops)[last_sequence + ops] = f[m]
    BY <1>2, <1>7, <2>1, GroupTakesEffect
  <2> QED
    BY <1>4, <1>6, <1>7, <2>1, <2>2, MapsResolve
<1>8. CASE pc[t] # "inserted"
  <2>1. group.inserted = 0
    BY <1>1, <1>8 DEF DataInv, GroupIsSound, GroupInv
  <2>2. \A n \in Nat : n > last_sequence /\ n <= last_sequence + ops => Begun(entries, n) = {}
    <3>1. \A e \in entries : e.seq <= last_sequence + 0 /\ e.seq \in Nat
      BY <1>5, <2>1 DEF DataInv, EntriesInv
    <3>2. \A n \in Nat, e \in entries : n > last_sequence => e.seq # n
      BY <1>5, <3>1
    <3> QED
      BY <3>2 DEF Begun
  <2>3. IdsUpTo(entries, last_sequence + ops)[last_sequence + ops] = EffectiveIds
    <3> HIDE DEF ops
    <3>1. IdsUpTo(entries, last_sequence + ops)[last_sequence + ops]
            = IdsUpTo(entries, last_sequence)[last_sequence]
      BY <1>5, <2>2, SameIds
    <3> QED
      BY <3>1 DEF EffectiveIds
  <2> QED
    BY <1>4, <1>6, <1>8, <2>3, MapsResolve
<1> QED
  BY <1>7, <1>8

\* What is not yet counted is not yet in effect.
LEMMA InsertUnseen ==
    ASSUME QueueInv, DataInv, NEW t \in Threads, InsertInto(t)
    PROVE  EffectiveIds' = EffectiveIds
<1>1. /\ pc[t] = "insert" /\ pc[t] \in UsesFiles /\ UNCHANGED last_sequence
      /\ last_sequence \in Nat /\ entries \subseteq [seq : Nat, op : Op]
      /\ group.first = last_sequence + 1 /\ group.inserted \in Nat
      /\ group.ops \in Seq(Op) /\ group.inserted \in 0..Len(group.ops)
  BY DEF InsertInto, UsesFiles, DataInv, DataTypeOK, GroupIsSound, GroupInv
<1>2. CASE UNCHANGED entries
  BY <1>1, <1>2 DEF EffectiveIds, IdsUpTo, Begun
<1>3. CASE group.inserted # Len(group.ops)
  <2> DEFINE j == group.inserted + 1
             new == [seq |-> group.first + group.inserted, op |-> group.ops[j]]
             last == last_sequence
             more == entries \cup {new}
  <2>1. entries' = more
    BY <1>3 DEF InsertInto
  <2>2. new.seq \in Nat /\ new.seq > last
    BY <1>1
  <2>3. new \in [seq : Nat, op : Op]
    <3>1. j \in 1..Len(group.ops)
      BY <1>1, <1>3
    <3>2. group.ops[j] \in Op
      BY <1>1, <3>1, ElementOfSeq
    <3> QED
      BY <2>2, <3>2
  <2> HIDE DEF new
  <2>4. \A n \in 1..last : Begun(more, n) = Begun(entries, n)
    BY <1>1, <2>2 DEF Begun
  <2>5. more \subseteq [seq : Nat, op : Op] /\ last \in Nat /\ last <= last /\ last \in 0..last
    BY <1>1, <2>3
  <2> HIDE DEF more, last
  <2>6. entries \subseteq [seq : Nat, op : Op]
    BY <1>1
  <2>7. \A n \in 0..last : IdsUpTo(more, last)[n] = IdsUpTo(entries, last)[n]
    BY <2>4, <2>5, <2>6, IdsAgree
  <2>8. IdsUpTo(more, last)[last] = IdsUpTo(entries, last)[last]
    BY <2>5, <2>7
  <2>9. EffectiveIds = IdsUpTo(entries, last)[last]
    BY DEF EffectiveIds, last
  <2>10. EffectiveIds' = IdsUpTo(more, last)[last]
    BY <1>1, <2>1 DEF EffectiveIds, IdsUpTo, Begun, last
  <2> QED
    BY <2>8, <2>9, <2>10
<1> QED
  BY <1>2, <1>3 DEF InsertInto

LEMMA MapsToStutter ==
    ASSUME QueueInv, QueueInv', DataInv,
           \/ BackgroundStep \/ UNCHANGED vars
           \/ \E t \in Threads :
                 \/ Woken(t) \/ SpuriousWakeUp(t) \/ Sleep(t) \/ WaitForBackground(t) \/ Relock(t)
                 \/ SwitchMemTable(t) \/ StartGroup(t) \/ AddRecord(t) \/ Sync(t) \/ InsertInto(t)
                 \/ AwaitFlush(t) \/ TakeSlot(t) \/ AwaitCompaction(t) \/ LeaveRange(t)
    PROVE  UNCHANGED Promise!vars
<1>1. SameOpen
  BY OpenKept
<1>2. CASE Quiet
  <2>1. EffectiveIds' = EffectiveIds
    BY <1>2 DEF Quiet, EffectiveIds, IdsUpTo, Begun
  <2> QED
    BY <1>1, <1>2, <2>1, Stutters DEF Quiet
<1>3. ASSUME NEW t \in Threads, StartGroup(t) \/ AddRecord(t) \/ Sync(t) \/ InsertInto(t)
      PROVE  UNCHANGED Promise!vars
  <2>1. UNCHANGED <<call, writers>>
    BY <1>3 DEF StartGroup, AddRecord, Sync, InsertInto, queueVars
  <2>2. EffectiveIds' = EffectiveIds
    <3>1. CASE InsertInto(t)
      BY <3>1, InsertUnseen
    <3>2. CASE UNCHANGED <<entries, last_sequence>>
      BY <3>2 DEF EffectiveIds, IdsUpTo, Begun
    <3> QED
      BY <1>3, <3>1, <3>2 DEF StartGroup, AddRecord, Sync, dataVars
  <2>3. \A u \in Threads : SameCall(u)
    BY <2>1 DEF SameCall
  <2> QED
    BY <1>1, <2>1, <2>2, <2>3, Stutters
<1> QED
  BY <1>2, <1>3, QuietWoken, QuietRoom, QuietElsewhere, QuietBackground

LEMMA MapsStep ==
    ASSUME QueueInv, QueueInv', CallInv, DataInv, GroupIsJoined, StatusIsGiven, [Next]_vars
    PROVE  [Promise!Next]_(Promise!vars)
<1>1. CASE BackgroundStep \/ UNCHANGED vars
  BY <1>1, MapsToStutter
<1>2. ASSUME NEW t \in Threads, NEW k \in Kinds, Write(t, k)
      PROVE  Promise!Next
  BY <1>2, MapsCall DEF Promise!Next
<1>3. ASSUME NEW t \in Threads, Return(t)
      PROVE  Promise!Next
  BY <1>3, MapsReturn DEF Promise!Next
<1>4. ASSUME NEW t \in Threads, ThreadStep(t) \/ SpuriousWakeUp(t)
      PROVE  Promise!Next \/ UNCHANGED Promise!vars
  BY <1>3, <1>4, MapsAlone, MapsEndGroup, MapsToStutter DEF ThreadStep
<1> QED
  BY <1>1, <1>2, <1>4 DEF Next

\* Write implements the promise of Commits, for any number of threads and of
\* calls, whatever groups form and whatever fails: calls take effect whole, in
\* the order in which they came, between their start and their return, and an
\* error means that the call has no effect (db_impl.cc:1184-1265): WriteQueue's
\* KeepsPromise.
THEOREM KeepsPromiseSafe == Spec => KeepsPromise
<1> DEFINE Inv == WriteInv /\ GroupIsJoined /\ StatusIsGiven
<1>1. Init => Inv
  <2> SUFFICES ASSUME Init
               PROVE  Inv
    OBVIOUS
  <2>1. \A t \in Threads : pc[t] = "idle" /\ calls[t] = 0
    BY DEF Init
  <2> QED
    BY <2>1, LogInit, QueueInit, CallInit, DataInit DEF WriteInv, GroupIsJoined, StatusIsGiven, UsesFiles
<1>2. Inv /\ [Next]_vars => Inv'
  BY LogStep, QueueStep, CallStep, DataStep, JoinedStep, StatusStep DEF WriteInv
<1>3. Init => Promise!Init
  <2> SUFFICES ASSUME Init
               PROVE  Promise!Init
    OBVIOUS
  <2>1. writers = <<>> /\ entries = {} /\ last_sequence = 0 /\ \A t \in Threads : pc[t] = "idle"
    BY DEF Init
  <2>2. EffectiveIds = <<>>
    BY <2>1, IdsStepwise DEF EffectiveIds
  <2>3. \A t \in Threads : Outcome(t) = "none"
    BY <2>1 DEF Outcome
  <2> QED
    BY <2>1, <2>2, <2>3 DEF Promise!Init
<1>4. Inv /\ Inv' /\ [Next]_vars => [Promise!Next]_(Promise!vars)
  BY MapsStep DEF WriteInv
<1> HIDE DEF Inv
<1> QED
  BY <1>1, <1>2, <1>3, <1>4, PTL DEF Spec, KeepsPromise, Promise!Spec

-----------------------------------------------------------------------------
(* The lock. Who makes room holds it; nobody else in pc does.               *)

MutexInv ==
    /\ mutex \in Threads => pc[mutex] = "room"
    /\ \A t \in Threads : pc[t] = "room" => mutex = t

\* A step that goes on without the lock.
LEMMA MutexElsewhere ==
    ASSUME QueueInv, MutexInv, UNCHANGED mutex,
           \A u \in Threads : pc'[u] = "room" <=> pc[u] = "room"
    PROVE  MutexInv'
BY DEF MutexInv

\* One that takes it, and one that gives it up.
LEMMA MutexTaken ==
    ASSUME QueueInv, MutexInv, NEW t \in Threads, mutex = "free", Lead(t)
    PROVE  MutexInv'
<1>1. \A u \in Threads : pc[u] # "room"
  BY QueueAssumption DEF MutexInv
<1>2. mutex' = t /\ \A u \in Threads : pc'[u] = IF u = t THEN "room" ELSE pc[u]
  BY DEF Lead, QueueInv, QueueTypeOK
<1> QED
  BY <1>1, <1>2 DEF MutexInv

LEMMA MutexFreed ==
    ASSUME mutex' \notin Threads, \A u \in Threads : pc'[u] # "room"
    PROVE  MutexInv'
BY DEF MutexInv

LEMMA MutexFinish ==
    ASSUME QueueInv, MutexInv, NEW t \in Threads, mutex = t \/ mutex = "free",
           NEW last, NEW status, NEW p, p = pc \/ p = SignalAll(pc), Finish(t, last, status, p)
    PROVE  MutexInv'
<1>1. \A u \in Threads : u # t => pc[u] # "room"
  BY QueueAssumption DEF MutexInv
<1>2. \A u \in Threads : u # t => p[u] # "room"
  <2>1. CASE p = pc
    BY <1>1, <2>1
  <2>2. CASE p = SignalAll(pc)
    BY <1>1, <2>2 DEF SignalAll
  <2> QED
    BY <2>1, <2>2
<1>3. mutex' = "free" /\ \A u \in Threads : pc'[u] = "returned" \/ pc'[u] = "woken" \/ (u # t /\ pc'[u] = p[u])
  BY DEF Finish
<1> QED
  BY <1>2, <1>3, QueueAssumption, MutexFreed

LEMMA MutexThread ==
    ASSUME QueueInv, MutexInv, NEW t \in Threads, ThreadStep(t) \/ SpuriousWakeUp(t)
    PROVE  MutexInv'
<1>1. CASE YieldError(t) \/ NewLogFails(t) \/ NullBatch(t) \/ EndGroup(t)
  <2>1. mutex = t \/ mutex = "free"
    BY <1>1 DEF YieldError, NewLogFails, NeedsNewMemTable, NullBatch, EndGroup, InRoom
  <2>2. \E last, status, p : (p = pc \/ p = SignalAll(pc)) /\ Finish(t, last, status, p)
    BY <1>1 DEF YieldError, NewLogFails, NullBatch, EndGroup
  <2> QED
    BY <2>1, <2>2, MutexFinish
<1>2. CASE (Woken(t) \/ Relock(t)) /\ Lead(t)
  BY <1>2, MutexTaken DEF Woken, Relock
<1>3. CASE Sleep(t) \/ WaitForBackground(t)
  <2>1. mutex = t /\ mutex' = "free"
    BY <1>3 DEF Sleep, WaitForBackground, InRoom
  <2>2. \E q \in {"asleep", "bgWait"} : \A u \in Threads : pc'[u] = IF u = t THEN q ELSE pc[u]
    BY <1>3 DEF Sleep, WaitForBackground, QueueInv, QueueTypeOK
  <2> QED
    BY <2>1, <2>2, QueueAssumption, MutexFreed DEF MutexInv
<1>4. CASE StartGroup(t)
  <2>1. mutex = t /\ mutex' = "free"
    BY <1>4 DEF StartGroup, InRoom
  <2>2. \A u \in Threads : pc'[u] = IF u = t THEN "append" ELSE pc[u]
    BY <1>4 DEF StartGroup, QueueInv, QueueTypeOK
  <2> QED
    BY <2>1, <2>2, QueueAssumption, MutexFreed DEF MutexInv
<1>5. CASE SwitchMemTable(t)
  BY <1>5, MutexElsewhere DEF SwitchMemTable
<1>6. CASE \/ Woken(t) /\ ~Lead(t)
           \/ AddRecord(t) \/ Sync(t) \/ InsertInto(t) \/ Return(t) \/ AwaitFlush(t) \/ TakeSlot(t)
           \/ AwaitCompaction(t) \/ LeaveRange(t) \/ SpuriousWakeUp(t)
  <2>1. UNCHANGED mutex /\ pc[t] # "room"
    BY <1>6 DEF Woken, AddRecord, Sync, InsertInto, Return, AwaitFlush, TakeSlot, AwaitCompaction,
       LeaveRange, SpuriousWakeUp, InRange
  <2>2. UNCHANGED pc \/ \E q : q # "room" /\ pc' = [pc EXCEPT ![t] = q]
    <3>1. CASE (Woken(t) /\ ~Lead(t)) \/ SpuriousWakeUp(t) \/ AddRecord(t) \/ Sync(t) \/ InsertInto(t)
      BY <3>1 DEF Woken, SpuriousWakeUp, AddRecord, Sync, InsertInto, Go
    <3>2. CASE Return(t) \/ AwaitFlush(t) \/ TakeSlot(t) \/ AwaitCompaction(t) \/ LeaveRange(t)
      BY <3>2 DEF Return, AwaitFlush, TakeSlot, AwaitCompaction, LeaveRange, Go
    <3> QED
      BY <1>6, <3>1, <3>2
  <2>3. \A u \in Threads : pc'[u] = "room" <=> pc[u] = "room"
    BY <2>1, <2>2 DEF QueueInv, QueueTypeOK
  <2> QED
    BY <2>1, <2>3, MutexElsewhere
<1>7. Relock(t) => Lead(t)
  BY DEF Relock
<1> QED
  BY <1>1, <1>2, <1>3, <1>4, <1>5, <1>6, <1>7 DEF ThreadStep

LEMMA MutexStep == QueueInv /\ MutexInv /\ [Next]_vars => MutexInv'
<1> SUFFICES ASSUME QueueInv, MutexInv, [Next]_vars
             PROVE  MutexInv'
  OBVIOUS
<1>1. ASSUME NEW t \in Threads, NEW k \in Kinds, Write(t, k)
      PROVE  MutexInv'
  <2>1. CASE Lead(t)
    BY <1>1, <2>1, MutexTaken DEF Write
  <2>2. CASE pc' = [pc EXCEPT ![t] = "waiting"] /\ UNCHANGED mutex
    <3>1. pc[t] # "room" /\ \A u \in Threads : pc'[u] = IF u = t THEN "waiting" ELSE pc[u]
      BY <1>1, <2>2 DEF Write, QueueInv, QueueTypeOK
    <3> QED
      BY <2>2, <3>1, MutexElsewhere
  <2> QED
    BY <1>1, <2>1, <2>2 DEF Write
<1>2. CASE BackgroundStep
  <2>1. pc' = SignalAll(pc) \/ UNCHANGED pc
    BY <1>2 DEF BackgroundStep, BackgroundCall, MergeYields, TableWritten, MemTableCompacted, FlushFails,
       MergeDone, MergeLosesManual, EndCall
  <2>2. \A u \in Threads : pc'[u] = "room" <=> pc[u] = "room"
    BY <2>1 DEF SignalAll
  <2>3. UNCHANGED mutex \/ (mutex = "free" /\ mutex' = "background")
    BY <1>2 DEF BackgroundStep, BackgroundCall, MergeYields, TableWritten, MemTableCompacted, FlushFails,
       MergeDone, MergeLosesManual
  <2>4. CASE mutex = "free" /\ mutex' = "background"
    BY <2>2, <2>4, QueueAssumption, MutexFreed DEF MutexInv
  <2> QED
    BY <2>2, <2>3, <2>4, MutexElsewhere
<1>3. CASE UNCHANGED vars
  BY <1>3, MutexElsewhere DEF vars
<1> QED
  BY <1>1, <1>2, <1>3, MutexThread DEF Next

\* The mutex is held by the thread that makes room, the group exists while its
\* leader works without the lock, for every value of the constants: WriteQueue's
\* TypeOK.
THEOREM TypeOKSafe == Spec => []TypeOK
<1>1. Init => MutexInv
  BY QueueAssumption DEF Init, MutexInv
<1>2. WriteInv /\ MutexInv => TypeOK
  <2> SUFFICES ASSUME WriteInv, MutexInv
               PROVE  (group # NoGroup) <=> \E t \in Threads : pc[t] \in UsesFiles
    BY DEF TypeOK, MutexInv, UsesFiles
  <2>1. ASSUME NEW t \in Threads, pc[t] \in UsesFiles
        PROVE  group # NoGroup
    <3>1. group.first = last_sequence + 1 /\ last_sequence \in Nat
      BY <2>1 DEF WriteInv, DataInv, DataTypeOK, GroupIsSound, GroupInv
    <3> QED
      BY <3>1 DEF NoGroup
  <2> QED
    BY <2>1 DEF WriteInv, DataInv, GroupIsUsed
<1>3. WriteInv /\ MutexInv /\ [Next]_vars => MutexInv'
  BY MutexStep DEF WriteInv
<1> QED
  BY <1>1, <1>2, <1>3, WriteInvariant, PTL DEF Spec

=============================================================================
