------------------------------ MODULE DBFiles ------------------------------
(***************************************************************************)
(* The files of a LevelDB database and what crashes do to them:            *)
(* db/db_impl.cc (NewDB, Recover, RecoverLogFile, Open, CompactMemTable,   *)
(* DoCompactionWork, DeleteObsoleteFiles), db/version_set.cc (LogAndApply, *)
(* Recover), db/builder.cc and SetCurrentFile of db/filename.cc.           *)
(*                                                                         *)
(* A file is a sequence of records; LogFile says when a record of a log    *)
(* can be read. The file system keeps the order of directory operations    *)
(* and loses the last ones, and the last unsynced records, in a power cut; *)
(* an unsynced table is lost whole. A write is a key of its own: Compaction *)
(* is about versions of one key.                                           *)
(***************************************************************************)
EXTENDS Integers, Sequences, FiniteSets, SequencesExt

CONSTANTS MaxWrites,    \* bound: writes
          Budgets,      \* bound: how often what is rare happens, see Occasions
          FsyncLinks    \* whether syncing a file makes its directory entry durable

\* Writes, deaths of the process and of the machine, failing writes of a
\* MANIFEST, memtables filled, compactions of tables, iterators.
Occasions == {"writes", "kills", "cuts", "failures", "switches", "merges", "iterators"}

ASSUME FilesAssumption ==
    /\ MaxWrites \in Nat /\ Budgets \subseteq [Occasions -> 0..MaxWrites]
    /\ FsyncLinks \in BOOLEAN

VARIABLES os,     \* the file system
          db,     \* the memory of the process
          issued, \* history: writes issued
          acked,  \* history: acknowledged with sync
          left    \* what is left of the budget

vars == <<os, db, issued, acked, left>>

-----------------------------------------------------------------------------
(* The file system. A file is <<type, number>>; CURRENT is a number, 0     *)
(* where there is none.                                                    *)

Log(n) == <<"log", n>>
Table(n) == <<"table", n>>
Manifest(n) == <<"manifest", n>>

\* A directory: the files it names and what CURRENT says. Of the file system, dir
\* is the directory as the process sees it, and dirs are those a power cut may
\* leave: what was synced, and after each operation since.
Link(d, f) == [d EXCEPT !.files = @ \cup {f}]
Unlink(d, f) == [d EXCEPT !.files = @ \ {f}]
Rename(d, n) == [d EXCEPT !.current = n]

Prune(o) ==
    LET kept == UNION {d.files : d \in o.dirs}
    IN  [o EXCEPT !.data = [f \in DOMAIN @ \cap kept |-> @[f]],
                  !.synced = [f \in DOMAIN @ \cap kept |-> @[f]]]

Become(o, d) == Prune([o EXCEPT !.dir = d, !.dirs = @ \cup {d}])

\* A file of that name, empty: it is created or truncated.
NewWritableFile(o, f) ==
    Become([o EXCEPT !.data = [g \in DOMAIN @ \cup {f} |-> IF g = f THEN <<>> ELSE @[g]],
                     !.synced = [g \in DOMAIN @ \cup {f} |-> IF g = f THEN 0 ELSE @[g]]],
           Link(o.dir, f))

DeleteFile(o, f) == Become(o, Unlink(o.dir, f))

AddRecord(o, f, r) == [o EXCEPT !.data[f] = Append(@, r)]

SyncDir(o) == Prune([o EXCEPT !.dirs = {o.dir}])

Sync(o, f) ==
    LET done == [o EXCEPT !.synced[f] = Len(o.data[f])]
    IN  IF FsyncLinks \/ f[1] = "manifest" THEN SyncDir(done) ELSE done

\* WriteStringToFileSync of a temporary file, then the rename.
SetCurrentFile(o, n) == Become(IF FsyncLinks THEN SyncDir(o) ELSE o, Rename(o.dir, n))

-----------------------------------------------------------------------------
(* The MANIFEST.                                                           *)

NoEdit == [add |-> {}, del |-> {}, log |-> -1, next |-> 0, seq |-> 0, torn |-> FALSE]

\* What VersionSet::Recover knows after each of the records of a MANIFEST. A
\* record that was written in part ends the reading.
Nothing == [tables |-> {}, log |-> -1, next |-> 0, seq |-> 0]

Later(v, e) ==
    IF e.torn THEN v
    ELSE [tables |-> (v.tables \ e.del) \cup e.add,
          log |-> IF e.log >= 0 THEN e.log ELSE v.log,
          next |-> IF e.next > 0 THEN e.next ELSE v.next,
          seq |-> IF e.next > 0 THEN e.seq ELSE v.seq]

Versions(records) ==
    LET After[i \in 0..Len(records)] ==
            IF i = 0 THEN Nothing ELSE Later(After[i-1], records[i])
    IN  After

Records(o) ==
    LET f == Manifest(o.dir.current)
    IN  IF f \in o.dir.files THEN o.data[f] ELSE <<>>

Recovered(o) == Versions(Records(o))[Len(Records(o))]

\* A record behind a torn one is corruption, and so is a missing number.
Readable(o) ==
    /\ \A i \in 1..Len(Records(o)) - 1 : ~Records(o)[i].torn
    /\ Recovered(o).next > 0 /\ Recovered(o).log >= 0

Numbers(files, type) == {f[2] : f \in {g \in files : g[1] = type}}

\* A table is one record, damaged if a power cut came before its sync.
TableOK(o, n) == Table(n) \in o.dir.files /\ o.data[Table(n)] # <<>>
TableData(o, n) == IF TableOK(o, n) THEN o.data[Table(n)][1] ELSE {}

\* The logs that are not yet in a table.
LiveLogs(o) == {n \in Numbers(o.dir.files, "log") : n >= Recovered(o).log}

InTables(o, numbers) == UNION {TableData(o, n) : n \in numbers}
InLogs(o, numbers) == UNION {ToSet(o.data[Log(n)]) : n \in numbers}

\* The writes a process that starts now finds.
Reopened(o) ==
    IF o.dir.current = 0 \/ ~Readable(o) THEN {}
    ELSE InTables(o, Recovered(o).tables) \cup InLogs(o, LiveLogs(o))

MaxSeq(records) ==
    LET seqs == {0} \cup {r.seq : r \in records} IN CHOOSE m \in seqs : \A n \in seqs : n <= m

-----------------------------------------------------------------------------
(* The process. apply is a LogAndApply under way, doomed what              *)
(* DeleteObsoleteFiles is going to delete.                                 *)

NoApply == [who |-> "none", step |-> "none", edit |-> NoEdit, new |-> FALSE]
NoMerge == [inputs |-> {}, out |-> 0]

Down == [phase |-> "down", mem |-> {}, imm |-> {}, has_imm |-> FALSE, log |-> 0, tables |-> {},
         log_number |-> 0, next |-> 0, seq |-> 0, manifest |-> 0, bg_error |-> FALSE,
         outputs |-> {}, pinned |-> {}, flush |-> 0, merge |-> NoMerge, doomed |-> {},
         edit |-> NoEdit, replay |-> {}, apply |-> NoApply]

Quiet == db.apply = NoApply /\ db.doomed = {}
Spend(what) == left[what] > 0 /\ left' = [left EXCEPT ![what] = @ - 1]
History == <<issued, acked, left>>

\* Mutant of Obsolete: the current log and MANIFEST go too.
ObsoleteEager(o, d) ==
    IF d.bg_error THEN {}
    ELSE {f \in o.dir.files :
            \/ f[1] = "log" /\ f[2] <= d.log_number
            \/ f[1] = "manifest" /\ f[2] <= d.manifest
            \/ f[1] = "table" /\ f[2] \notin d.tables \cup d.outputs \cup UNION d.pinned}

\* DeleteObsoleteFiles: after an error it is not known which version is on disk.
Obsolete(o, d) ==
    IF d.bg_error THEN {}
    ELSE {f \in o.dir.files :
            \/ f[1] = "log" /\ f[2] < d.log_number
            \/ f[1] = "manifest" /\ f[2] < d.manifest
            \/ f[1] = "table" /\ f[2] \notin d.tables \cup d.outputs \cup UNION d.pinned}

-----------------------------------------------------------------------------
(* DB::Open.                                                               *)

NewDB ==
    /\ db.phase = "down" /\ os.dir.current = 0
    /\ os' = AddRecord(NewWritableFile(os, Manifest(1)), Manifest(1),
                       [NoEdit EXCEPT !.log = 0, !.next = 2])
    /\ db' = [Down EXCEPT !.phase = "newdb"]
    /\ UNCHANGED History

NewDBCurrent ==
    /\ db.phase = "newdb"
    /\ os' = SetCurrentFile(os, 1)
    /\ db' = [db EXCEPT !.phase = "recover"]
    /\ UNCHANGED History

FindDB ==
    /\ db.phase = "down" /\ os.dir.current # 0
    /\ db' = [Down EXCEPT !.phase = "recover"]
    /\ UNCHANGED <<os, History>>

\* VersionSet::Recover, and the files DBImpl::Recover finds and misses.
Recover ==
    /\ db.phase = "recover"
    /\ LET r == Recovered(os)
       IN  IF Readable(os) /\ \A n \in r.tables : Table(n) \in os.dir.files
           THEN db' = [db EXCEPT !.phase = "replay", !.tables = r.tables, !.log_number = r.log,
                                 !.seq = r.seq, !.manifest = r.next, !.next = r.next + 1,
                                 !.replay = LiveLogs(os)]
           ELSE db' = [db EXCEPT !.phase = "broken"]
    /\ UNCHANGED <<os, History>>

\* RecoverLogFile: the oldest log becomes a table; its number is marked used.
RecoverLogFile ==
    /\ db.phase = "replay"
    /\ \E n \in db.replay :
         LET records == ToSet(os.data[Log(n)])
             f == Table(db.next)
             used == IF records = {} THEN db.next ELSE db.next + 1
         IN  /\ \A m \in db.replay : n <= m
             /\ os' = IF records = {} THEN os
                      ELSE Sync(AddRecord(NewWritableFile(os, f), f, records), f)
             /\ db' = [db EXCEPT !.replay = @ \ {n},
                                 !.edit.add = IF records = {} THEN @ ELSE @ \cup {db.next},
                                 !.next = IF used <= n THEN n + 1 ELSE used,
                                 !.seq = LET m == MaxSeq(records) IN IF m > @ THEN m ELSE @]
    /\ UNCHANGED History

OpenNewLog ==
    /\ db.phase = "replay" /\ db.replay = {}
    /\ os' = NewWritableFile(os, Log(db.next))
    /\ db' = [db EXCEPT !.phase = "opening", !.log = db.next, !.next = @ + 1,
                        !.apply = [who |-> "open", step |-> "append", new |-> TRUE,
                                   edit |-> [db.edit EXCEPT !.log = db.next]]]
    /\ UNCHANGED History

-----------------------------------------------------------------------------
(* VersionSet::LogAndApply, as it is called by Open, by a flush and by a   *)
(* compaction.                                                             *)

\* The edit is written; into a new MANIFEST, behind a snapshot.
ApplyAppend ==
    /\ db.apply.step = "append"
    /\ LET f == Manifest(db.manifest)
           edit == [db.apply.edit EXCEPT !.next = db.next, !.seq = db.seq,
                                         !.log = IF @ >= 0 THEN @ ELSE db.log_number]
           o == IF db.apply.new
                THEN AddRecord(NewWritableFile(os, f), f, [NoEdit EXCEPT !.add = db.tables]) ELSE os
       IN  /\ os' = AddRecord(o, f, edit)
           /\ db' = [db EXCEPT !.apply.step = "sync", !.apply.edit = edit]
    /\ UNCHANGED History

\* The new version is installed; what it makes obsolete is found.
Installed(o, d) ==
    LET edit == d.apply.edit
        v == [d EXCEPT !.tables = (@ \ edit.del) \cup edit.add, !.log_number = edit.log,
                       !.phase = "open", !.apply = NoApply, !.edit = NoEdit,
                       !.imm = IF d.apply.who = "flush" THEN {} ELSE @,
                       !.has_imm = IF d.apply.who = "flush" THEN FALSE ELSE @,
                       !.outputs = IF d.apply.who = "merge" THEN {} ELSE @,
                       !.merge = IF d.apply.who = "merge" THEN NoMerge ELSE @]
    IN  [v EXCEPT !.doomed = Obsolete(o, v)]

\* Mutant of ApplySync: the MANIFEST is not synced.
ApplySyncSkipped ==
    /\ db.apply.step = "sync"
    /\ os' = os
    /\ db' = IF db.apply.new THEN [db EXCEPT !.apply.step = "current"] ELSE Installed(os', db)
    /\ UNCHANGED History

ApplySync ==
    /\ db.apply.step = "sync"
    /\ os' = Sync(os, Manifest(db.manifest))
    /\ db' = IF db.apply.new THEN [db EXCEPT !.apply.step = "current"] ELSE Installed(os', db)
    /\ UNCHANGED History

ApplyCurrent ==
    /\ db.apply.step = "current"
    /\ os' = SetCurrentFile(os, db.manifest)
    /\ db' = Installed(os', db)
    /\ UNCHANGED History

\* Mutant of GivenUp: the error is not recorded.
GivenUpForgets ==
    LET d == [db EXCEPT !.apply = NoApply, !.bg_error = FALSE]
    IN  IF db.apply.who # "merge" THEN d
        ELSE LET e == [d EXCEPT !.outputs = {}, !.merge = NoMerge]
             IN  [e EXCEPT !.doomed = Obsolete(os, e)]

\* What the callers of LogAndApply do about an error: RecordBackgroundError and
\* CleanupCompaction, and DeleteObsoleteFiles after a merge. A merge that was
\* interrupted for the flush goes on.
GivenUp ==
    LET d == [db EXCEPT !.apply = NoApply, !.bg_error = TRUE]
    IN  IF db.apply.who # "merge" THEN d
        ELSE LET e == [d EXCEPT !.outputs = {}, !.merge = NoMerge]
             IN  [e EXCEPT !.doomed = Obsolete(os, e)]

\* The record is not written, written in part, or written but not synced, or CURRENT
\* is not replaced. A MANIFEST that was to be new is deleted and Open fails.
ApplyFails ==
    /\ db.apply # NoApply /\ Spend("failures")
    /\ LET f == Manifest(db.manifest)
       IN  IF db.apply.new
           THEN /\ os' = DeleteFile(IF f \in os.dir.files THEN os ELSE NewWritableFile(os, f), f)
                /\ db' = Down
           ELSE /\ \/ os' = os
                   \/ /\ db.apply.step = "append"
                      /\ os' = AddRecord(os, f, [NoEdit EXCEPT !.torn = TRUE])
                /\ db' = GivenUp
    /\ UNCHANGED <<issued, acked>>

DeleteObsoleteFile ==
    /\ \E f \in db.doomed : /\ os' = DeleteFile(os, f)
                            /\ db' = [db EXCEPT !.doomed = @ \ {f}]
    /\ UNCHANGED History

-----------------------------------------------------------------------------
(* An open database: the writer, the background thread, an iterator.       *)

Open == db.phase = "open" /\ db.doomed = {}

Write(sync) ==
    /\ Open /\ ~db.bg_error /\ Spend("writes")
    /\ LET record == [id |-> issued + 1, seq |-> db.seq + 1]
           o == AddRecord(os, Log(db.log), record)
       IN  /\ os' = IF sync THEN Sync(o, Log(db.log)) ELSE o
           /\ db' = [db EXCEPT !.mem = @ \cup {record}, !.seq = @ + 1]
    /\ issued' = issued + 1
    /\ acked' = IF sync THEN acked \cup {issued + 1} ELSE acked

SwitchMemTable ==
    /\ Open /\ ~db.bg_error /\ ~db.has_imm /\ db.mem # {} /\ Spend("switches")
    /\ os' = NewWritableFile(os, Log(db.next))
    /\ db' = [db EXCEPT !.imm = db.mem, !.has_imm = TRUE, !.mem = {}, !.log = db.next,
                        !.next = @ + 1]
    /\ UNCHANGED <<issued, acked>>

\* CompactMemTable, on its own or in the middle of a merge.
FlushStart ==
    /\ Open /\ Quiet /\ db.has_imm /\ db.flush = 0 /\ (db.bg_error => db.merge # NoMerge)
    /\ os' = NewWritableFile(os, Table(db.next))
    /\ db' = [db EXCEPT !.flush = db.next, !.next = @ + 1, !.outputs = @ \cup {db.next}]
    /\ UNCHANGED History

FlushBuilt ==
    /\ Open /\ Quiet /\ db.flush # 0
    /\ os' = Sync(AddRecord(os, Table(db.flush), db.imm), Table(db.flush))
    /\ db' = [db EXCEPT !.flush = 0, !.outputs = @ \ {db.flush},
                        !.apply = [who |-> "flush", step |-> "append", new |-> FALSE,
                                   edit |-> [NoEdit EXCEPT !.add = {db.flush}, !.log = db.log]]]
    /\ UNCHANGED History

\* DoCompactionWork, with one output.
MergeStart ==
    /\ Open /\ Quiet /\ db.flush = 0 /\ ~db.bg_error /\ ~db.has_imm
    /\ db.merge = NoMerge /\ Spend("merges")
    /\ \E inputs \in (SUBSET db.tables) \ {{}} :
          /\ os' = NewWritableFile(os, Table(db.next))
          /\ db' = [db EXCEPT !.merge = [inputs |-> inputs, out |-> db.next], !.next = @ + 1,
                              !.outputs = @ \cup {db.next}]
    /\ UNCHANGED <<issued, acked>>

MergeBuilt ==
    /\ Open /\ Quiet /\ db.flush = 0 /\ db.merge # NoMerge
    /\ LET f == Table(db.merge.out)
       IN  os' = Sync(AddRecord(os, f, InTables(os, db.merge.inputs)), f)
    /\ db' = [db EXCEPT !.apply = [who |-> "merge", step |-> "append", new |-> FALSE,
                                   edit |-> [NoEdit EXCEPT !.add = {db.merge.out},
                                                           !.del = db.merge.inputs]]]
    /\ UNCHANGED History

\* An iterator holds the version it was made from.
NewIterator ==
    /\ Open /\ db.pinned = {} /\ Spend("iterators")
    /\ db' = [db EXCEPT !.pinned = {db.tables}]
    /\ UNCHANGED <<os, issued, acked>>

DeleteIterator ==
    /\ Open /\ db.pinned # {}
    /\ db' = [db EXCEPT !.pinned = {}]
    /\ UNCHANGED <<os, History>>

-----------------------------------------------------------------------------
(* Crashes.                                                                *)

\* Whatever the process was doing; the file system keeps all it was given.
Kill ==
    /\ db # Down /\ db.phase # "broken" /\ Spend("kills")
    /\ db' = Down
    /\ UNCHANGED <<os, issued, acked>>

\* The directory as some prefix of the operations left it, and of each file what
\* was synced and perhaps more.
PowerCut ==
    /\ db.phase # "broken" /\ Spend("cuts")
    /\ \E d \in os.dirs :
         LET unsynced == {f \in d.files : os.synced[f] < Len(os.data[f])}
             longest == Max({0} \cup {Len(os.data[f]) : f \in unsynced})
         IN  \E cut \in [unsynced -> 0..longest] :
               /\ \A f \in unsynced : cut[f] \in os.synced[f]..Len(os.data[f])
               /\ os' = LET remains == [f \in d.files |-> IF f \in unsynced THEN SubSeq(os.data[f], 1, cut[f])
                                                          ELSE os.data[f]]
                        IN  [dir |-> d, dirs |-> {d}, data |-> remains,
                             synced |-> [f \in d.files |-> Len(remains[f])]]
    /\ db' = Down
    /\ UNCHANGED <<issued, acked>>

-----------------------------------------------------------------------------
EmptyDir == [files |-> {}, current |-> 0]
Created == [files |-> {Manifest(1)}, current |-> 1]

\* No database yet, or one that was created and synced.
Init ==
    /\ os \in {[dir |-> d, dirs |-> {d},
                data |-> [f \in d.files |-> <<[NoEdit EXCEPT !.log = 0, !.next = 2]>>],
                synced |-> [f \in d.files |-> 1]] : d \in {EmptyDir, Created}}
    /\ db = Down /\ issued = 0 /\ acked = {}
    /\ left \in Budgets

Next ==
    \/ NewDB \/ NewDBCurrent \/ FindDB \/ Recover \/ RecoverLogFile \/ OpenNewLog
    \/ ApplyAppend \/ ApplySync \/ ApplyCurrent \/ ApplyFails \/ DeleteObsoleteFile
    \/ \E sync \in BOOLEAN : Write(sync)
    \/ SwitchMemTable \/ FlushStart \/ FlushBuilt \/ MergeStart \/ MergeBuilt
    \/ NewIterator \/ DeleteIterator
    \/ Kill \/ PowerCut

Spec == Init /\ [][Next]_vars

-----------------------------------------------------------------------------
(* Properties.                                                             *)

\* At most one table is under way for each purpose, and the tables that are
\* being written are protected, apart from the one LogAndApply is about.
TypeOK ==
    /\ db.phase \in {"down", "newdb", "recover", "replay", "opening", "open", "broken"}
    /\ db.outputs = {db.flush, db.merge.out} \ {0}
    /\ DOMAIN os.data = DOMAIN os.synced /\ os.dir.files \subseteq DOMAIN os.data

Memory == db.mem \cup db.imm \cup InTables(os, db.tables)

Store == INSTANCE DurableStore WITH
    Writes <- 1..MaxWrites, data <- {r.id : r \in Reopened(os)}, durable <- acked,
    cuts <- left.cuts

\* options.h:181-200: whatever the process is doing, one that starts now finds
\* every write. The store loses writes in a power cut only, and cuts is how many
\* are left, so that a flush, merge, deletion, recovery or death of the process has
\* to be a stutter; and a power cut takes nothing acknowledged with sync.
KeepsWrites == Store!Spec

\* NewDB closes the first MANIFEST without a sync (db_impl.cc:194-202): a power cut
\* may leave CURRENT with the name of an empty one.
DescriptorLost == os.dir.current = 1 /\ os.data[Manifest(1)] = <<>>

\* "The creation of the DB is committed only when the descriptor is created"
\* (277-278): a CURRENT that is there names a descriptor that says something.
CurrentHasDescriptor == os.dir.current # 0 => Records(os) # <<>>

\* A crash at any moment, of the creation too, leaves a database that can be opened
\* (db_impl.cc:280-345, version_set.cc:905-1025), unless it is a power cut that
\* leaves CURRENT but not the first MANIFEST. There is no other exception, and
\* KeepsWrites says that there is none once a write was acknowledged with sync.
OpenSucceeds == db.phase = "broken" => DescriptorLost

\* What a reader sees and what a reopen finds are the same writes, each under one
\* sequence number, none above the last.
MemoryMatchesDisk ==
    (db.phase = "open" /\ ~db.bg_error) =>
        /\ Memory = Reopened(os)
        /\ \A r \in Memory : r.seq <= db.seq /\ \A q \in Memory : q.seq = r.seq => q = r

\* db_impl.cc:225-259: no file of the current version, of a version an iterator
\* reads, of a table under way, nor the log of a memtable is ever deleted.
LiveFilesExist ==
    db.phase = "open" =>
        /\ \A n \in db.tables \cup UNION db.pinned : TableOK(os, n)
        /\ \A n \in db.outputs : Table(n) \in os.dir.files
        /\ Log(db.log) \in os.dir.files

\* version_set.h:170-175: the version LogAndApply installs is saved.
InstalledIsSaved ==
    (db.phase = "open" /\ db.apply = NoApply) =>
        LET r == Recovered(os)
        IN  Readable(os) /\ (~db.bg_error => r.tables = db.tables /\ r.log = db.log_number)

\* The process and its files agree whenever it is open.
FilesMatchMemory == MemoryMatchesDisk /\ LiveFilesExist /\ InstalledIsSaved
=============================================================================
