---------------------------- MODULE DBFilesProofs ----------------------------
(***************************************************************************)
(* The files of the database, for any number of writes, deaths, power      *)
(* cuts, flushes and merges: they can be opened, unless a power cut lost   *)
(* the MANIFEST the database was created with; what they hold agrees with  *)
(* what the process remembers; writes are lost in power cuts only, and     *)
(* never one that was acknowledged with sync.                              *)
(***************************************************************************)
EXTENDS DBFiles, SequenceTheorems, FiniteSetTheorems, WellFoundedInduction, TLAPS

-----------------------------------------------------------------------------
(* What a crash may leave. A machine that cannot die any more leaves what  *)
(* the process sees.                                                       *)

\* Set apart are the cuts in which the creation of the database is undone or its first
\* MANIFEST is lost, which no process syncs: see Creation and Lost.
Lossy == left.cuts > 0
Dirs == {os.dir} \cup {d \in os.dirs : Lossy /\ d.current # 0}
Kept(f) == IF Lossy /\ f # Manifest(1) THEN os.synced[f] ELSE Len(os.data[f])

\* The MANIFEST a directory points to, how many of its records may be left, and
\* the version that so many say.
Edits(d) == os.data[Manifest(d.current)]
Cuts(d) == Kept(Manifest(d.current))..Len(Edits(d))
At(d, k) == Versions(Edits(d))[k]

LogsOf(d, v) == {n \in Numbers(d.files, "log") : n >= v.log}
DataOf(n) == os.data[Table(n)][1]

-----------------------------------------------------------------------------
(* A version that a process may start from: its tables are there and no    *)
(* cut takes them, tables and logs hold every acknowledged write and       *)
(* nothing that is not there without a crash.                              *)

Whole(n) == Len(os.data[Table(n)]) = 1 /\ Kept(Table(n)) = 1

HasTables(d, v) ==
    \A n \in v.tables : /\ n < v.next /\ Table(n) \in d.files /\ Whole(n)
                        /\ \A r \in DataOf(n) : r.seq <= v.seq

Keeps(d, v, id) ==
    \/ \E n \in v.tables : \E r \in DataOf(n) : r.id = id
    \/ \E n \in LogsOf(d, v) : \E i \in 1..Kept(Log(n)) : os.data[Log(n)][i].id = id

Finds(d, v) ==
    /\ \A n \in v.tables : DataOf(n) \subseteq Reopened(os)
    /\ \A n \in LogsOf(d, v) : ToSet(os.data[Log(n)]) \subseteq Reopened(os)

SoundVersion(d, v) ==
    /\ d.current < v.next /\ v.log \in 0..v.next - 1 /\ v.seq <= issued
    /\ v.next <= Recovered(os).next /\ v.log <= Recovered(os).log
    /\ HasTables(d, v) /\ Finds(d, v)
    /\ \A id \in acked : Keeps(d, v, id)

\* Logs that are deleted here and come back with a crash are of no use there.
SoundDir(d) ==
    /\ d.current # 0 /\ Manifest(d.current) \in d.files
    /\ \A i \in 1..Len(Edits(d)) - 1 : ~Edits(d)[i].torn
    /\ \A n \in Numbers(d.files, "log") :
          n \in Numbers(os.dir.files, "log") \/ n < Recovered(os).log
    /\ \A k \in Cuts(d) : SoundVersion(d, At(d, k))

SoundFiles ==
    IF os.dir.current = 0
    THEN /\ os.dir.files \subseteq {Manifest(1)} /\ acked = {}
         /\ \A d \in os.dirs : d.current = 0
    ELSE \A d \in Dirs : SoundDir(d)

-----------------------------------------------------------------------------
(* Types, and the numbers of writes.                                       *)

File == {"log", "table", "manifest"} \X Nat
Dir == [files : SUBSET File, current : Nat]
Update == [id : Nat, seq : Nat]
Edit == [add : SUBSET Nat, del : SUBSET Nat, log : Int, next : Nat, seq : Nat, torn : BOOLEAN]

IsOS(o) ==
    /\ o = [dir |-> o.dir, dirs |-> o.dirs, data |-> o.data, synced |-> o.synced]
    /\ o.dir \in o.dirs /\ o.dirs \subseteq Dir
    /\ o.data = [f \in DOMAIN o.data |-> o.data[f]]
    /\ o.synced = [f \in DOMAIN o.data |-> o.synced[f]]
    /\ \A d \in o.dirs : d.files \subseteq DOMAIN o.data
    /\ DOMAIN o.data \subseteq File
    /\ \A f \in DOMAIN o.data :
          /\ o.synced[f] \in 0..Len(o.data[f])
          /\ f[1] = "log" => o.data[f] \in Seq(Update)
          /\ f[1] = "table" => o.data[f] \in Seq(SUBSET Update)
          /\ f[1] = "manifest" => o.data[f] \in Seq(Edit)

Process ==
    [phase : {"down", "newdb", "recover", "replay", "opening", "open", "broken"},
     mem : SUBSET Update, imm : SUBSET Update, has_imm : BOOLEAN, log : Nat, tables : SUBSET Nat,
     log_number : Nat, next : Nat, seq : Nat, manifest : Nat,
     bg_error : BOOLEAN, outputs : SUBSET Nat, pinned : SUBSET SUBSET Nat, flush : Nat,
     merge : [inputs : SUBSET Nat, out : Nat], doomed : SUBSET File, edit : Edit,
     replay : SUBSET Nat,
     apply : [who : {"none", "open", "flush", "merge"}, step : {"none", "append", "sync", "current"},
              edit : Edit, new : BOOLEAN]]

Counted ==
    /\ issued \in Nat /\ acked \subseteq Nat
    /\ left \in [Occasions -> Nat] /\ issued + left.writes <= MaxWrites
    /\ \A r \in Reopened(os) : /\ r.id \in 1..issued /\ r.seq \in 1..issued
                               /\ \A q \in Reopened(os) : q.seq = r.seq => q = r

-----------------------------------------------------------------------------
(* The process.                                                            *)

\* A process that has not opened the database has no memtable, no table under
\* way and no iterator.
Fresh ==
    /\ db.mem = {} /\ db.imm = {} /\ ~db.has_imm /\ ~db.bg_error /\ db.outputs = {}
    /\ db.pinned = {} /\ db.flush = 0 /\ db.merge = NoMerge /\ db.doomed = {}

\* The tables made of the logs that were replayed hold what these held.
Replayed(tables, logs) ==
    /\ \A n \in tables : /\ Recovered(os).next < n /\ n < db.next
                         /\ Table(n) \in os.dir.files /\ Whole(n)
                         /\ \A r \in DataOf(n) : r.seq <= db.seq
    /\ InTables(os, tables) = InLogs(os, logs)

Opens ==
    /\ Fresh /\ os.dir.current # 0
    /\ db.tables = Recovered(os).tables /\ db.log_number = Recovered(os).log
    /\ db.manifest = Recovered(os).next /\ db.manifest < db.next
    /\ Recovered(os).seq <= db.seq /\ db.seq <= issued
    /\ db.edit = [NoEdit EXCEPT !.add = db.edit.add]

Replaying ==
    LET done == LiveLogs(os) \ db.replay
    IN  /\ Opens /\ db.apply = NoApply
        /\ db.replay \subseteq LiveLogs(os) /\ \A n \in done : n < db.next
        /\ Replayed(db.edit.add, done)

\* The new MANIFEST: a snapshot, and the edit with the logs that were replayed.
NewManifest ==
    /\ Manifest(db.manifest) \in os.dir.files
    /\ os.data[Manifest(db.manifest)] =
          <<[NoEdit EXCEPT !.add = db.tables],
            [db.edit EXCEPT !.log = db.log, !.next = db.next, !.seq = db.seq]>>

\* All logs are replayed, and the new one is there.
Prepared ==
    /\ Opens /\ db.replay = {}
    /\ db.manifest < db.log /\ db.log < db.next
    /\ Log(db.log) \in os.dir.files /\ os.data[Log(db.log)] = <<>>
    /\ \A n \in Numbers(os.dir.files, "log") : n <= db.log
    /\ Replayed(db.edit.add, LiveLogs(os))

Opening ==
    /\ Prepared
    /\ db.apply.who = "open" /\ db.apply.new /\ db.apply.step \in {"append", "sync", "current"}
    /\ db.apply.step = "append" => db.apply.edit = [db.edit EXCEPT !.log = db.log]
    /\ db.apply.step # "append" =>
          /\ NewManifest
          /\ db.apply.edit = [db.edit EXCEPT !.log = db.log, !.next = db.next, !.seq = db.seq]
    /\ db.apply.step = "current" => Kept(Manifest(db.manifest)) = 2 /\ os.dirs = {os.dir}

\* A table that is being written.
Empty(n) == Table(n) \in os.dir.files /\ n < db.next /\ os.data[Table(n)] = <<>>

\* The tables a reader or a merge may read.
InUse == db.tables \cup UNION db.pinned

\* The edit of a flush: its table holds what imm and the older log hold.
FlushEdit ==
    LET edit == db.apply.edit
    IN  /\ db.has_imm /\ db.flush = 0 /\ edit.log = db.log /\ edit.del = {}
        /\ \E n \in edit.add : edit.add = {n} /\ os.data[Table(n)] = <<db.imm>>

\* That of a merge: its output holds what the inputs hold.
MergeEdit ==
    LET edit == db.apply.edit
    IN  /\ edit.log = IF db.apply.step = "append" THEN -1 ELSE db.log_number
        /\ edit.add = {db.merge.out} /\ edit.del = db.merge.inputs
        /\ db.merge # NoMerge /\ db.flush = 0
        /\ DataOf(db.merge.out) = InTables(os, db.merge.inputs)

Applying ==
    LET edit == db.apply.edit
    IN  /\ ~db.apply.new /\ ~db.bg_error /\ db.apply.step \in {"append", "sync"} /\ ~edit.torn
        /\ (db.apply.who = "flush" /\ FlushEdit) \/ (db.apply.who = "merge" /\ MergeEdit)
        /\ \A n \in edit.add : n < db.next /\ Whole(n)
        /\ \A d \in Dirs : /\ d.current = os.dir.current
                           /\ \A n \in edit.add : Table(n) \in d.files
        /\ db.apply.step = "sync" =>
              /\ edit.next \in 1..db.next
              /\ Recovered(os).tables = (db.tables \ edit.del) \cup edit.add
              /\ Recovered(os).log = edit.log
              /\ \A i \in 1..Len(Edits(os.dir)) : ~Edits(os.dir)[i].torn

\* Between two edits MANIFEST, tables and logs say what the process remembers.
Settled ==
    /\ Recovered(os).tables = db.tables /\ Recovered(os).log = db.log_number
    /\ Kept(Manifest(os.dir.current)) = Len(Edits(os.dir))
    /\ \A i \in 1..Len(Edits(os.dir)) : ~Edits(os.dir)[i].torn

Running ==
    /\ os.dir.current # 0 /\ db.manifest = os.dir.current
    /\ TypeOK
    /\ Recovered(os).next <= db.next /\ db.seq <= issued
    /\ \A n \in InUse : Table(n) \in os.dir.files /\ n < db.next /\ Len(os.data[Table(n)]) = 1
    /\ db.merge.inputs \subseteq db.tables
    /\ db.flush # 0 => Empty(db.flush)
    /\ db.merge # NoMerge => /\ db.merge.out # 0 /\ db.merge.out # db.flush
                             /\ Table(db.merge.out) \in os.dir.files /\ db.merge.out < db.next
                             /\ db.apply.who # "merge" => Empty(db.merge.out)
    /\ Log(db.log) \in os.dir.files /\ Recovered(os).log <= db.log
    /\ \A n \in Numbers(os.dir.files, "log") : n < db.next
    /\ db.apply # NoApply => Applying
    /\ db.bg_error => db.merge = NoMerge /\ db.flush = 0 /\ db.apply = NoApply /\ db.doomed = {}
    /\ db.doomed # {} => db.apply = NoApply
    /\ db.doomed \cap Obsolete(os, db) = db.doomed

\* Without an error.
Working ==
    /\ db.apply.step # "sync" => Settled
    /\ Memory = Reopened(os) /\ \A r \in Memory : r.seq <= db.seq
    /\ \A n \in Numbers(os.dir.files, "log") : n >= db.log_number => n \in {db.log_number, db.log}
    /\ ToSet(os.data[Log(db.log)]) = db.mem
    /\ IF db.has_imm
       THEN /\ db.log_number < db.log /\ Log(db.log_number) \in os.dir.files
            /\ ToSet(os.data[Log(db.log_number)]) = db.imm
       ELSE db.log_number = db.log /\ db.imm = {} /\ db.flush = 0

PhaseInv ==
    /\ db.phase \in {"down", "newdb", "recover", "replay", "opening", "open"}
    /\ db.phase = "down" => db = Down
    /\ db.phase = "newdb" =>
          /\ db = [Down EXCEPT !.phase = "newdb"] /\ os.dir.current = 0
          /\ Manifest(1) \in os.dir.files
          /\ os.data[Manifest(1)] = <<[NoEdit EXCEPT !.log = 0, !.next = 2]>>
    /\ db.phase = "recover" => db = [Down EXCEPT !.phase = "recover"] /\ os.dir.current # 0
    /\ db.phase = "replay" => Replaying
    /\ db.phase = "opening" => Opening
    /\ db.phase = "open" => Running /\ (~db.bg_error => Working)

\* A failed record, a flush and a merge do not come together: a flush in the
\* middle of a merge that fails leaves a torn record that the merge writes behind.
Apart ==
    \/ left.failures = 0 /\ ~db.bg_error
    \/ left.switches = 0 /\ ~db.has_imm /\ db.flush = 0
    \/ left.merges = 0 /\ db.merge = NoMerge

DBInv ==
    /\ IsOS(os) /\ db \in Process /\ Counted /\ SoundFiles /\ PhaseInv /\ Apart

\* A power cut may undo the creation of the database, or lose the one record of its
\* first MANIFEST, until a write is acknowledged with sync. No process writes to
\* that MANIFEST.
Creation ==
    /\ db.manifest # 1
    /\ \A d \in os.dirs :
          /\ Manifest(1) \in d.files => Len(os.data[Manifest(1)]) <= 1
          /\ d.current = 0 => d.files \subseteq {Manifest(1)} /\ acked = {}
          /\ d.current = 1 /\ Manifest(1) \in d.files /\ acked # {} => os.synced[Manifest(1)] = 1

\* CURRENT without the first MANIFEST: nothing can be done with such files.
Lost ==
    /\ IsOS(os) /\ os.dirs = {os.dir} /\ Manifest(1) \in os.dir.files /\ DescriptorLost
    /\ acked = {} /\ left \in [Occasions -> Nat]
    /\ \E p \in {"down", "recover", "broken"} : db = [Down EXCEPT !.phase = p]

FilesInv == (DBInv /\ Creation) \/ Lost

-----------------------------------------------------------------------------
(* Induction, with a set for the predicate, and what a MANIFEST says after *)
(* each of its records.                                                    *)

\* Of numbers that are not all there, one is the first.
LEMMA Induction ==
    ASSUME NEW I, 0 \in I, \A n \in Nat : n \in I => n + 1 \in I
    PROVE  Nat \subseteq I
<1> SUFFICES ASSUME Nat \ I # {}
             PROVE  FALSE
  OBVIOUS
<1>1. PICK b \in Nat \ I : \A c \in Nat \ I : <<c, b>> \notin OpToRel(<, Nat)
  BY NatLessThanWellFounded, WFMin
<1>2. b \in Nat /\ b \notin I /\ b # 0
  BY <1>1
<1> DEFINE c == b - 1
<1>3. c \in Nat /\ c < b /\ c + 1 = b
  BY <1>2
<1> HIDE DEF c
<1>4. <<c, b>> \in OpToRel(<, Nat)
  BY <1>2, <1>3 DEF OpToRel
<1>5. c \in I
  BY <1>1, <1>3, <1>4
<1> QED
  BY <1>2, <1>3, <1>5

\* A function defined by recursion on the numbers to n exists.
Follows(f, S, n, base, step) ==
    /\ f \in [0..n -> S] /\ f[0] = base
    /\ \A i \in 1..n : f[i] = step[<<i, f[i-1]>>]

LEMMA Recursion ==
    ASSUME NEW n \in Nat, NEW S, NEW base \in S, NEW step \in [(1..n) \X S -> S]
    PROVE  \E f : Follows(f, S, n, base, step)
<1> DEFINE Exists(m) == \E f : Follows(f, S, m, base, step)
           I == {m \in Nat : m <= n => Exists(m)}
<1>1. 0 \in I
  <2> DEFINE f == [i \in 0..0 |-> base]
  <2>1. f \in [0..0 -> S] /\ f[0] = base /\ 1..0 = {}
    OBVIOUS
  <2> HIDE DEF f
  <2>2. Exists(0)
    BY <2>1 DEF Follows
  <2> HIDE DEF Exists
  <2> QED
    BY <2>2
<1>2. ASSUME NEW m \in Nat, m \in I
      PROVE  m + 1 \in I
  <2> SUFFICES ASSUME m + 1 <= n
               PROVE  Exists(m + 1)
    <3> HIDE DEF Exists
    <3> QED
      OBVIOUS
  <2>1. Exists(m)
    <3> HIDE DEF Exists
    <3> QED
      BY <1>2
  <2>2. PICK f : Follows(f, S, m, base, step)
    BY <2>1
  <2> DEFINE new == step[<<m + 1, f[m]>>]
             g == [i \in 0..m + 1 |-> IF i = m + 1 THEN new ELSE f[i]]
  <2>3. new \in S
    <3>1. f[m] \in S /\ m + 1 \in 1..n
      BY <2>2 DEF Follows
    <3> QED
      BY <3>1
  <2>4. \A i \in 0..m + 1 : i # m + 1 => i \in 0..m
    OBVIOUS
  <2>5. g \in [0..m + 1 -> S]
    <3> HIDE DEF new
    <3> QED
      BY <2>2, <2>3, <2>4 DEF Follows
  <2>6. g[m + 1] = new /\ \A i \in 0..m : g[i] = f[i]
    OBVIOUS
  <2> HIDE DEF g
  <2>7. Follows(g, S, m + 1, base, step)
    <3>1. g[0] = base
      BY <2>2, <2>6 DEF Follows
    <3> SUFFICES ASSUME NEW i \in 1..m + 1
                 PROVE  g[i] = step[<<i, g[i-1]>>]
      BY <2>5, <3>1 DEF Follows
    <3>2. CASE i = m + 1
      <4>1. i - 1 = m /\ g[m] = f[m] /\ m \in 0..m
        BY <2>6, <3>2
      <4> QED
        BY <2>6, <3>2, <4>1
    <3>3. CASE i # m + 1
      <4>1. i \in 1..m /\ i \in 0..m /\ i - 1 \in 0..m
        BY <3>3
      <4> QED
        BY <2>2, <2>6, <4>1 DEF Follows
    <3> QED
      BY <3>2, <3>3
  <2> QED
    BY <2>7
<1>3. n \in I
  <2> HIDE DEF I
  <2> QED
    BY <1>1, <1>2, Induction
<1>4. Exists(n)
  <2> HIDE DEF Exists
  <2> QED
    BY <1>3
<1> QED
  BY <1>4

Version == [tables : SUBSET Nat, log : Int, next : Nat, seq : Nat]

LEMMA LaterIsVersion ==
    ASSUME NEW v \in Version, NEW e \in Edit
    PROVE  Later(v, e) \in Version
BY DEF Later, Version, Edit

LEMMA VersionsStepwise ==
    ASSUME NEW s \in Seq(Edit)
    PROVE  /\ Versions(s) \in [0..Len(s) -> Version]
           /\ Versions(s)[0] = Nothing
           /\ \A i \in 1..Len(s) : Versions(s)[i] = Later(Versions(s)[i-1], s[i])
<1> DEFINE n == Len(s)
           step == [x \in (1..n) \X Version |-> Later(x[2], s[x[1]])]
           After == CHOOSE f : f = [i \in 0..n |->
                      IF i = 0 THEN Nothing ELSE Later(f[i-1], s[i])]
<1>1. Versions(s) = After
  BY DEF Versions
<1>2. n \in Nat /\ \A i \in 1..n : s[i] \in Edit
  OBVIOUS
<1> HIDE DEF n
<1>3. step \in [(1..n) \X Version -> Version]
      /\ \A i \in 1..n, v \in Version : step[<<i, v>>] = Later(v, s[i])
  BY <1>2, LaterIsVersion
<1>4. Nothing \in Version
  BY DEF Nothing, Version
<1> HIDE DEF step
<1>5. PICK f : Follows(f, Version, n, Nothing, step)
  BY <1>2, <1>3, <1>4, Recursion
<1>6. f \in [0..n -> Version] /\ f[0] = Nothing /\ \A i \in 1..n : f[i] = Later(f[i-1], s[i])
  <2>1. \A i \in 1..n : i - 1 \in 0..n
    BY <1>2
  <2> QED
    BY <1>3, <1>5, <2>1 DEF Follows
<1>7. f = [i \in 0..n |-> IF i = 0 THEN Nothing ELSE Later(f[i-1], s[i])]
  BY <1>2, <1>6
<1>8. After = [i \in 0..n |-> IF i = 0 THEN Nothing ELSE Later(After[i-1], s[i])]
  BY <1>7
<1> HIDE DEF After
<1> DEFINE body(i) == IF i = 0 THEN Nothing ELSE Later(After[i-1], s[i])
<1>9. After = [i \in 0..n |-> body(i)]
  BY <1>8
<1> HIDE DEF body
<1>10. \A i \in 0..n : After[i] = body(i)
  BY <1>9
<1>11. After = [i \in 0..n |-> After[i]]
  BY <1>9, <1>10
<1>12. After[0] = Nothing /\ \A i \in 1..n : After[i] = Later(After[i-1], s[i])
  BY <1>2, <1>10 DEF body
<1> DEFINE I == {i \in Nat : i \in 0..n => After[i] = f[i]}
<1>13. Nat \subseteq I
  <2>1. 0 \in I
    BY <1>6, <1>12
  <2>2. ASSUME NEW i \in Nat, i \in I
        PROVE  i + 1 \in I
    <3> SUFFICES ASSUME i + 1 \in 0..n
                 PROVE  After[i + 1] = f[i + 1]
      OBVIOUS
    <3>1. i \in 0..n /\ i + 1 \in 1..n /\ (i + 1) - 1 = i
      BY <1>2
    <3>2. After[i] = f[i]
      BY <2>2, <3>1
    <3> QED
      BY <1>6, <1>12, <3>1, <3>2
  <2> HIDE DEF I
  <2> QED
    BY <2>1, <2>2, Induction
<1>14. After \in [0..n -> Version]
  <2>1. \A i \in 0..n : After[i] = f[i]
    BY <1>2, <1>13
  <2>2. \A i \in 0..n : After[i] \in Version
    BY <1>6, <2>1
  <2> QED
    BY <1>11, <2>2
<1> QED
  BY <1>1, <1>12, <1>14 DEF n

\* What a MANIFEST says after i records depends on these only.
LEMMA SamePrefix ==
    ASSUME NEW s \in Seq(Edit), NEW t \in Seq(Edit), NEW n \in Nat, n <= Len(s), n <= Len(t),
           \A i \in 1..n : s[i] = t[i]
    PROVE  \A i \in 0..n : Versions(s)[i] = Versions(t)[i]
<1> DEFINE V == Versions(s)
           W == Versions(t)
           I == {i \in Nat : i \in 0..n => V[i] = W[i]}
<1>1. /\ V[0] = Nothing /\ \A i \in 1..Len(s) : V[i] = Later(V[i-1], s[i])
      /\ W[0] = Nothing /\ \A i \in 1..Len(t) : W[i] = Later(W[i-1], t[i])
      /\ Len(s) \in Nat /\ Len(t) \in Nat
  BY VersionsStepwise
<1> HIDE DEF V, W
<1>2. 0 \in I
  BY <1>1
<1>3. ASSUME NEW i \in Nat, i \in I
      PROVE  i + 1 \in I
  <2> SUFFICES ASSUME i + 1 \in 0..n
               PROVE  V[i + 1] = W[i + 1]
    OBVIOUS
  <2>1. i \in 0..n /\ i + 1 \in 1..n /\ i + 1 \in 1..Len(s) /\ i + 1 \in 1..Len(t) /\ (i + 1) - 1 = i
    BY <1>1
  <2> QED
    BY <1>1, <1>3, <2>1
<1>4. Nat \subseteq I
  <2> HIDE DEF I
  <2> QED
    BY <1>2, <1>3, Induction
<1>5. \A i \in 0..n : V[i] = W[i]
  BY <1>4
<1> QED
  BY <1>5 DEF V, W

-----------------------------------------------------------------------------
(* What the operations do to the file system.                              *)

Named(dirs, f) == \E d \in dirs : f \in d.files
SameFile(o, p, f) == p.data[f] = o.data[f] /\ p.synced[f] = o.synced[f]

\* A file that some directory names is there.
LEMMA FileExists ==
    ASSUME NEW o, IsOS(o), NEW f, Named(o.dirs, f)
    PROVE  /\ f \in DOMAIN o.data /\ f \in File
           /\ o.synced[f] \in 0..Len(o.data[f]) /\ Len(o.data[f]) \in Nat
           /\ f[1] = "log" => o.data[f] \in Seq(Update)
           /\ f[1] = "table" => o.data[f] \in Seq(SUBSET Update)
           /\ f[1] = "manifest" => o.data[f] \in Seq(Edit)
<1>1. f \in DOMAIN o.data /\ f \in File
  BY DEF IsOS, Named
<1>2. /\ o.synced[f] \in 0..Len(o.data[f])
      /\ f[1] = "log" => o.data[f] \in Seq(Update)
      /\ f[1] = "table" => o.data[f] \in Seq(SUBSET Update)
      /\ f[1] = "manifest" => o.data[f] \in Seq(Edit)
  BY <1>1 DEF IsOS
<1>3. f[1] \in {"log", "table", "manifest"}
  BY <1>1 DEF File
<1>4. Len(o.data[f]) \in Nat
  BY <1>2, <1>3
<1> QED
  BY <1>1, <1>2, <1>4

LEMMA Pruning ==
    ASSUME NEW o, IsOS(o)
    PROVE  /\ IsOS(Prune(o)) /\ Prune(o).dir = o.dir /\ Prune(o).dirs = o.dirs
           /\ \A f : Named(o.dirs, f) => SameFile(o, Prune(o), f)
<1> DEFINE kept == UNION {d.files : d \in o.dirs}
           data == [f \in DOMAIN o.data \cap kept |-> o.data[f]]
           synced == [f \in DOMAIN o.data \cap kept |-> o.synced[f]]
<1>1. DOMAIN o.synced = DOMAIN o.data
  BY DEF IsOS
<1>2. Prune(o) = [dir |-> o.dir, dirs |-> o.dirs, data |-> data, synced |-> synced]
  <2>1. o = [dir |-> o.dir, dirs |-> o.dirs, data |-> o.data, synced |-> o.synced]
    BY DEF IsOS
  <2>2. Prune(o) = [[o EXCEPT !.data = data] EXCEPT !.synced = synced]
    BY <1>1 DEF Prune
  <2> HIDE DEF data, synced
  <2> QED
    BY <2>1, <2>2
<1>3. \A f : Named(o.dirs, f) <=> f \in kept
  BY DEF Named
<1>4. kept \subseteq DOMAIN o.data
  BY DEF IsOS
<1> HIDE DEF kept
<1>5. /\ DOMAIN data = kept /\ \A f \in kept : data[f] = o.data[f] /\ synced[f] = o.synced[f]
      /\ data = [f \in DOMAIN data |-> data[f]] /\ synced = [f \in DOMAIN data |-> synced[f]]
  BY <1>4
<1>6. \A d \in o.dirs : d.files \subseteq kept
  BY DEF kept
<1> HIDE DEF data, synced
<1>7. /\ Prune(o).dir = o.dir /\ Prune(o).dirs = o.dirs
      /\ Prune(o).data = data /\ Prune(o).synced = synced
  BY <1>2
<1>8. \A f : Named(o.dirs, f) => SameFile(o, Prune(o), f)
  BY <1>3, <1>5, <1>7 DEF SameFile
<1>9. IsOS(Prune(o))
  <2>1. DOMAIN data \subseteq File
    BY <1>4, <1>5 DEF IsOS
  <2>2. ASSUME NEW f \in DOMAIN data
        PROVE  /\ synced[f] \in 0..Len(data[f])
               /\ f[1] = "log" => data[f] \in Seq(Update)
               /\ f[1] = "table" => data[f] \in Seq(SUBSET Update)
               /\ f[1] = "manifest" => data[f] \in Seq(Edit)
    BY <1>4, <1>5 DEF IsOS
  <2>3. o.dir \in o.dirs /\ o.dirs \subseteq Dir
    BY DEF IsOS
  <2> QED
    BY <1>2, <1>5, <1>6, <1>7, <2>1, <2>2, <2>3 DEF IsOS
<1> QED
  BY <1>7, <1>8, <1>9

LEMMA Becoming ==
    ASSUME NEW o, IsOS(o), NEW d \in Dir, d.files \subseteq DOMAIN o.data,
           NEW p, p = Become(o, d)
    PROVE  /\ IsOS(p) /\ p.dir = d /\ p.dirs = o.dirs \cup {d}
           /\ \A f : Named(o.dirs, f) \/ f \in d.files => SameFile(o, p, f)
<1> DEFINE dirs == o.dirs \cup {d}
           q == [o EXCEPT !.dir = d, !.dirs = dirs]
<1>2. Become(o, d) = Prune(q)
  BY DEF Become
<1>1. q = [dir |-> d, dirs |-> dirs, data |-> o.data, synced |-> o.synced]
  <2>1. o = [dir |-> o.dir, dirs |-> o.dirs, data |-> o.data, synced |-> o.synced]
    BY DEF IsOS
  <2>2. q = [o EXCEPT !.dir = d, !.dirs = dirs]
    OBVIOUS
  <2> HIDE DEF q, dirs
  <2> QED
    BY <2>1, <2>2
<1> HIDE DEF q
<1>3. q.dir = d /\ q.dirs = o.dirs \cup {d} /\ q.data = o.data /\ q.synced = o.synced
  BY <1>1
<1>4. IsOS(q)
  BY <1>1, <1>3 DEF IsOS
<1>5. \A f : Named(o.dirs, f) \/ f \in d.files => Named(q.dirs, f)
  BY <1>3 DEF Named
<1>6. \A f : SameFile(q, Prune(q), f) <=> SameFile(o, Prune(q), f)
  BY <1>3 DEF SameFile
<1> QED
  BY <1>2, <1>3, <1>4, <1>5, <1>6, Pruning

\* A file that begins anew.
LEMMA NewFile ==
    ASSUME NEW o, IsOS(o), NEW f \in File, NEW p, p = NewWritableFile(o, f)
    PROVE  /\ IsOS(p) /\ p.dir = [files |-> o.dir.files \cup {f}, current |-> o.dir.current]
           /\ p.dirs = o.dirs \cup {p.dir} /\ p.data[f] = <<>> /\ p.synced[f] = 0
           /\ \A g : g # f /\ Named(o.dirs, g) => SameFile(o, p, g)
<1> DEFINE data == [g \in DOMAIN o.data \cup {f} |-> IF g = f THEN <<>> ELSE o.data[g]]
           synced == [g \in DOMAIN o.data \cup {f} |-> IF g = f THEN 0 ELSE o.synced[g]]
           q == [o EXCEPT !.data = data, !.synced = synced]
           d == Link(o.dir, f)
<1>1. DOMAIN o.synced = DOMAIN o.data
  BY DEF IsOS
<1>2. NewWritableFile(o, f) = Become(q, d)
  BY <1>1 DEF NewWritableFile
<1>3. /\ DOMAIN data = DOMAIN o.data \cup {f} /\ data[f] = <<>> /\ synced[f] = 0
      /\ \A g \in DOMAIN o.data : g # f => data[g] = o.data[g] /\ synced[g] = o.synced[g]
      /\ data = [g \in DOMAIN data |-> data[g]] /\ synced = [g \in DOMAIN data |-> synced[g]]
  OBVIOUS
<1> HIDE DEF data, synced
<1>4. q = [dir |-> o.dir, dirs |-> o.dirs, data |-> data, synced |-> synced]
  <2>1. o = [dir |-> o.dir, dirs |-> o.dirs, data |-> o.data, synced |-> o.synced]
    BY DEF IsOS
  <2>2. q = [o EXCEPT !.data = data, !.synced = synced]
    OBVIOUS
  <2> HIDE DEF q
  <2> QED
    BY <2>1, <2>2
<1> HIDE DEF q
<1>5. q.dir = o.dir /\ q.dirs = o.dirs /\ q.data = data /\ q.synced = synced
  BY <1>4
<1>6. o.dir \in Dir
  BY DEF IsOS
<1>7. d = [files |-> o.dir.files \cup {f}, current |-> o.dir.current] /\ d \in Dir
  BY <1>6 DEF Link, Dir
<1>8. IsOS(q)
  <2>1. DOMAIN data \subseteq File /\ \A e \in o.dirs : e.files \subseteq DOMAIN data
    BY <1>3 DEF IsOS
  <2>2. ASSUME NEW g \in DOMAIN data
        PROVE  /\ synced[g] \in 0..Len(data[g])
               /\ g[1] = "log" => data[g] \in Seq(Update)
               /\ g[1] = "table" => data[g] \in Seq(SUBSET Update)
               /\ g[1] = "manifest" => data[g] \in Seq(Edit)
    <3>1. CASE g = f
      BY <1>3, <3>1
    <3>2. CASE g # f
      <4>1. g \in DOMAIN o.data /\ data[g] = o.data[g] /\ synced[g] = o.synced[g]
        BY <1>3, <3>2
      <4> QED
        BY <4>1 DEF IsOS
    <3> QED
      BY <3>1, <3>2
  <2>3. o.dir \in o.dirs /\ o.dirs \subseteq Dir
    BY DEF IsOS
  <2> QED
    BY <1>3, <1>4, <1>5, <2>1, <2>2, <2>3 DEF IsOS
<1>9. d.files \subseteq DOMAIN q.data /\ f \in d.files
  <2>1. o.dir.files \subseteq DOMAIN o.data
    BY DEF IsOS
  <2> HIDE DEF d
  <2>2. d.files = o.dir.files \cup {f}
    BY <1>7
  <2>3. DOMAIN q.data = DOMAIN o.data \cup {f}
    BY <1>3, <1>5
  <2> QED
    BY <2>1, <2>2, <2>3
<1>0. p = Become(q, d)
  BY <1>2
<1> HIDE DEF d
<1>10. /\ IsOS(p) /\ p.dir = d /\ p.dirs = o.dirs \cup {d}
       /\ \A g : Named(q.dirs, g) \/ g \in d.files => SameFile(q, p, g)
  <2>1. /\ IsOS(p) /\ p.dir = d /\ p.dirs = q.dirs \cup {d}
        /\ \A g : Named(q.dirs, g) \/ g \in d.files => SameFile(q, p, g)
    <3>1. d \in Dir /\ d.files \subseteq DOMAIN q.data
      BY <1>7, <1>9
    <3> QED
      BY <1>0, <1>8, <3>1, Becoming
  <2>2. q.dirs = o.dirs
    BY <1>5
  <2> QED
    BY <2>1, <2>2
<1>11. p.data[f] = <<>> /\ p.synced[f] = 0
  BY <1>3, <1>5, <1>9, <1>10 DEF SameFile
<1>12. ASSUME NEW g, g # f, Named(o.dirs, g)
       PROVE  SameFile(o, p, g)
  <2>1. SameFile(q, p, g) /\ g \in DOMAIN o.data
    BY <1>5, <1>10, <1>12, FileExists DEF Named
  <2> QED
    BY <1>3, <1>5, <1>12, <2>1 DEF SameFile
<1> QED
  BY <1>7, <1>10, <1>11, <1>12

\* A file that is deleted goes from the directory; while a crash may bring it
\* back, it holds what it held.
LEMMA Deletion ==
    ASSUME NEW o, IsOS(o), NEW f, NEW p, p = DeleteFile(o, f)
    PROVE  /\ IsOS(p) /\ p.dir = [files |-> o.dir.files \ {f}, current |-> o.dir.current]
           /\ p.dirs = o.dirs \cup {p.dir}
           /\ \A g : Named(o.dirs, g) => SameFile(o, p, g)
<1>1. o.dir \in Dir /\ o.dir.files \subseteq DOMAIN o.data
  BY DEF IsOS
<1> DEFINE d == Unlink(o.dir, f)
<1>2. d = [files |-> o.dir.files \ {f}, current |-> o.dir.current] /\ d \in Dir
  BY <1>1 DEF Unlink, Dir
<1>3. p = Become(o, d)
  BY DEF DeleteFile
<1> HIDE DEF d
<1>4. d.files \subseteq DOMAIN o.data
  BY <1>1, <1>2
<1>5. /\ IsOS(p) /\ p.dir = d /\ p.dirs = o.dirs \cup {d}
      /\ \A g : Named(o.dirs, g) \/ g \in d.files => SameFile(o, p, g)
  BY <1>2, <1>3, <1>4, Becoming
<1> QED
  BY <1>2, <1>5

LEMMA Appending ==
    ASSUME NEW o, IsOS(o), NEW f, Named(o.dirs, f), NEW r,
           f[1] = "log" => r \in Update, f[1] = "table" => r \in SUBSET Update,
           f[1] = "manifest" => r \in Edit, NEW p, p = AddRecord(o, f, r)
    PROVE  /\ IsOS(p) /\ p.dir = o.dir /\ p.dirs = o.dirs
           /\ p.data[f] = Append(o.data[f], r) /\ p.synced[f] = o.synced[f]
           /\ \A g : g # f /\ Named(o.dirs, g) => SameFile(o, p, g)
<1> DEFINE data == [o.data EXCEPT ![f] = Append(o.data[f], r)]
<1>1. p = [o EXCEPT !.data = data]
  BY DEF AddRecord
<1>2. /\ f \in DOMAIN o.data /\ DOMAIN data = DOMAIN o.data /\ data[f] = Append(o.data[f], r)
      /\ \A g \in DOMAIN o.data : g # f => data[g] = o.data[g]
      /\ data = [g \in DOMAIN data |-> data[g]]
  <2>1. f \in DOMAIN o.data /\ o.data = [g \in DOMAIN o.data |-> o.data[g]]
    BY FileExists DEF IsOS
  <2> QED
    BY <2>1
<1> HIDE DEF data
<1>3. p = [dir |-> o.dir, dirs |-> o.dirs, data |-> data, synced |-> o.synced]
  BY <1>1 DEF IsOS
<1>4. p.dir = o.dir /\ p.dirs = o.dirs /\ p.data = data /\ p.synced = o.synced
  BY <1>3
<1>5. ASSUME NEW g \in DOMAIN data
      PROVE  /\ p.synced[g] \in 0..Len(data[g])
             /\ g[1] = "log" => data[g] \in Seq(Update)
             /\ g[1] = "table" => data[g] \in Seq(SUBSET Update)
             /\ g[1] = "manifest" => data[g] \in Seq(Edit)
  <2>1. CASE g = f
    <3>1. /\ o.synced[f] \in 0..Len(o.data[f]) /\ f[1] \in {"log", "table", "manifest"}
          /\ f[1] = "log" => o.data[f] \in Seq(Update)
          /\ f[1] = "table" => o.data[f] \in Seq(SUBSET Update)
          /\ f[1] = "manifest" => o.data[f] \in Seq(Edit)
      BY FileExists DEF File
    <3> DEFINE s == o.data[f]
               t == Append(s, r)
    <3>2. ASSUME NEW S, s \in Seq(S), r \in S
          PROVE  t \in Seq(S) /\ Len(t) = Len(s) + 1 /\ Len(s) \in Nat
      <4> HIDE DEF s
      <4> QED
        BY <3>2
    <3>3. t = data[g]
      BY <1>2, <2>1
    <3> HIDE DEF t
    <3>4. /\ f[1] = "log" => t \in Seq(Update)
          /\ f[1] = "table" => t \in Seq(SUBSET Update)
          /\ f[1] = "manifest" => t \in Seq(Edit)
          /\ Len(t) = Len(s) + 1 /\ Len(s) \in Nat
      BY <3>1, <3>2
    <3> QED
      BY <1>4, <2>1, <3>1, <3>3, <3>4
  <2>2. CASE g # f
    BY <1>2, <1>4, <2>2 DEF IsOS
  <2> QED
    BY <2>1, <2>2
<1>6. IsOS(p)
  <2>1. /\ o.dir \in o.dirs /\ o.dirs \subseteq Dir
        /\ o.synced = [g \in DOMAIN data |-> o.synced[g]]
        /\ \A d \in o.dirs : d.files \subseteq DOMAIN data
        /\ DOMAIN data \subseteq File
    BY <1>2 DEF IsOS
  <2> QED
    BY <1>2, <1>3, <1>4, <1>5, <2>1 DEF IsOS
<1>7. \A g : g # f /\ Named(o.dirs, g) => SameFile(o, p, g)
  BY <1>2, <1>4, FileExists DEF SameFile
<1> QED
  BY <1>2, <1>4, <1>6, <1>7

\* What a sync makes durable: the file, and every directory operation before it
\* where the file system does so.
Synced(o, p, f) ==
    /\ IsOS(p) /\ p.dir = o.dir
    /\ p.dirs = IF FsyncLinks \/ f[1] = "manifest" THEN {o.dir} ELSE o.dirs
    /\ p.data[f] = o.data[f] /\ p.synced[f] = Len(o.data[f])
    /\ \A g : g # f /\ Named(p.dirs, g) => SameFile(o, p, g)

LEMMA SyncingDir ==
    ASSUME NEW o, IsOS(o), NEW p, p = SyncDir(o)
    PROVE  /\ IsOS(p) /\ p.dir = o.dir /\ p.dirs = {o.dir}
           /\ \A g \in o.dir.files : SameFile(o, p, g)
<1> DEFINE dirs == {o.dir}
           q == [o EXCEPT !.dirs = dirs]
<1>1. p = Prune(q)
  BY DEF SyncDir
<1>2. q = [o EXCEPT !.dirs = dirs]
  OBVIOUS
<1>3. o = [dir |-> o.dir, dirs |-> o.dirs, data |-> o.data, synced |-> o.synced]
  BY DEF IsOS
<1> HIDE DEF q
<1>4. q = [dir |-> o.dir, dirs |-> dirs, data |-> o.data, synced |-> o.synced]
  <2> HIDE DEF dirs
  <2> QED
    BY <1>2, <1>3
<1>5. q.dir = o.dir /\ q.dirs = {o.dir} /\ q.data = o.data /\ q.synced = o.synced
  BY <1>4
<1>6. IsOS(q)
  BY <1>4, <1>5 DEF IsOS
<1>7. /\ IsOS(p) /\ p.dir = q.dir /\ p.dirs = q.dirs
      /\ \A f : Named(q.dirs, f) => SameFile(q, p, f)
  BY <1>1, <1>6, Pruning
<1> QED
  BY <1>5, <1>7 DEF Named, SameFile

LEMMA Syncing ==
    ASSUME NEW o, IsOS(o), NEW f \in o.dir.files, NEW p, p = Sync(o, f)
    PROVE  Synced(o, p, f)
<1> DEFINE synced == [o.synced EXCEPT ![f] = Len(o.data[f])]
           q == [o EXCEPT !.synced = synced]
<1>1. p = IF FsyncLinks \/ f[1] = "manifest" THEN SyncDir(q) ELSE q
  BY DEF Sync
<1>2. q = [o EXCEPT !.synced = synced]
  OBVIOUS
<1>3. /\ o = [dir |-> o.dir, dirs |-> o.dirs, data |-> o.data, synced |-> o.synced]
      /\ o.dir \in o.dirs /\ f \in DOMAIN o.data
  BY DEF IsOS
<1>4. /\ DOMAIN synced = DOMAIN o.data /\ synced[f] = Len(o.data[f])
      /\ \A g \in DOMAIN o.data : g # f => synced[g] = o.synced[g]
      /\ synced = [g \in DOMAIN o.data |-> synced[g]]
  <2>1. o.synced = [g \in DOMAIN o.data |-> o.synced[g]]
    BY DEF IsOS
  <2> QED
    BY <1>3, <2>1
<1> HIDE DEF q, synced
<1>5. q = [dir |-> o.dir, dirs |-> o.dirs, data |-> o.data, synced |-> synced]
  BY <1>2, <1>3
<1>6. q.dir = o.dir /\ q.dirs = o.dirs /\ q.data = o.data /\ q.synced = synced
  BY <1>5
<1>7. Len(o.data[f]) \in Nat
  BY <1>3, FileExists DEF Named
<1>8. IsOS(q)
  <2>1. ASSUME NEW g \in DOMAIN o.data
        PROVE  q.synced[g] \in 0..Len(o.data[g])
    BY <1>4, <1>6, <1>7 DEF IsOS
  <2> QED
    BY <1>4, <1>5, <1>6, <2>1 DEF IsOS
<1>9. \A g : Named(o.dirs, g) => g \in DOMAIN o.data
  BY DEF IsOS, Named
<1>10. Synced(o, q, f) \/ FsyncLinks \/ f[1] = "manifest"
  BY <1>4, <1>6, <1>8, <1>9 DEF Synced, SameFile
<1>11. CASE FsyncLinks \/ f[1] = "manifest"
  <2>1. /\ IsOS(p) /\ p.dir = q.dir /\ p.dirs = {q.dir}
        /\ \A g \in q.dir.files : SameFile(q, p, g)
    BY <1>1, <1>8, <1>11, SyncingDir
  <2> QED
    BY <1>3, <1>4, <1>6, <1>9, <1>11, <2>1 DEF Synced, SameFile, Named
<1> QED
  BY <1>1, <1>10, <1>11

LEMMA SettingCurrent ==
    ASSUME NEW o, IsOS(o), NEW n \in Nat, NEW p, p = SetCurrentFile(o, n)
    PROVE  /\ IsOS(p) /\ p.dir = [files |-> o.dir.files, current |-> n]
           /\ p.dirs = {p.dir} \cup IF FsyncLinks THEN {o.dir} ELSE o.dirs
           /\ \A g : Named(p.dirs, g) => SameFile(o, p, g)
<1> DEFINE q == IF FsyncLinks THEN SyncDir(o) ELSE o
           d == Rename(o.dir, n)
<1>1. p = Become(q, d)
  BY DEF SetCurrentFile
<1>2. /\ IsOS(q) /\ q.dir = o.dir /\ q.dirs = (IF FsyncLinks THEN {o.dir} ELSE o.dirs)
      /\ \A g : Named(q.dirs, g) => SameFile(o, q, g)
  <2>1. CASE FsyncLinks
    BY <2>1, SyncingDir DEF Named
  <2>2. CASE ~FsyncLinks
    BY <2>2 DEF SameFile
  <2> QED
    BY <2>1, <2>2
<1>3. o.dir \in Dir /\ o.dir \in o.dirs
  BY DEF IsOS
<1>4. d = [files |-> o.dir.files, current |-> n] /\ d \in Dir
  BY <1>3 DEF Rename, Dir
<1> HIDE DEF q, d
<1>5. q.dir \in q.dirs /\ q.dir.files \subseteq DOMAIN q.data
  BY <1>2 DEF IsOS
<1>6. d.files \subseteq DOMAIN q.data
  BY <1>2, <1>4, <1>5
<1>7. /\ IsOS(p) /\ p.dir = d /\ p.dirs = q.dirs \cup {d}
      /\ \A f : Named(q.dirs, f) \/ f \in d.files => SameFile(q, p, f)
  BY <1>1, <1>2, <1>4, <1>6, Becoming
<1>8. \A g : Named(p.dirs, g) => Named(q.dirs, g)
  BY <1>2, <1>4, <1>5, <1>7 DEF Named
<1>9. \A g : Named(p.dirs, g) => SameFile(o, p, g)
  BY <1>2, <1>7, <1>8 DEF SameFile
<1> QED
  BY <1>2, <1>4, <1>7, <1>9

LEMMA LogNumbers ==
    ASSUME NEW files \in SUBSET File
    PROVE  \A n : n \in Numbers(files, "log") <=> Log(n) \in files /\ n \in Nat
<1>1. ASSUME NEW n, n \in Numbers(files, "log")
      PROVE  Log(n) \in files /\ n \in Nat
  <2>1. PICK f \in files : f[1] = "log" /\ n = f[2]
    BY <1>1 DEF Numbers
  <2>2. f = <<f[1], f[2]>> /\ f[2] \in Nat
    BY DEF File
  <2> QED
    BY <2>1, <2>2 DEF Log
<1>2. ASSUME NEW n, Log(n) \in files
      PROVE  n \in Numbers(files, "log")
  <2>1. Log(n)[1] = "log" /\ Log(n)[2] = n
    BY DEF Log
  <2> QED
    BY <1>2, <2>1 DEF Numbers
<1> QED
  BY <1>1, <1>2

\* Files with different numbers or of different types are different.
LEMMA Names ==
    /\ \A m, n : Log(m) # Table(n) /\ Log(m) # Manifest(n) /\ Table(m) # Manifest(n)
    /\ \A m, n : (Log(m) = Log(n) \/ Table(m) = Table(n) \/ Manifest(m) = Manifest(n)) => m = n
    /\ \A n \in Nat : Log(n) \in File /\ Table(n) \in File /\ Manifest(n) \in File
    /\ \A n : /\ Log(n)[1] = "log" /\ Table(n)[1] = "table" /\ Manifest(n)[1] = "manifest"
              /\ Log(n)[2] = n /\ Table(n)[2] = n /\ Manifest(n)[2] = n
BY DEF Log, Table, Manifest, File

KnownDirs ==
    \A d \in Dirs :
       /\ d \in os.dirs /\ d \in Dir /\ d.files \subseteq File /\ d.current \in Nat
       /\ \A f \in d.files : /\ Named(os.dirs, f) /\ f \in DOMAIN os.data
                             /\ Kept(f) \in 0..Len(os.data[f]) /\ Len(os.data[f]) \in Nat
                             /\ os.synced[f] \in 0..Len(os.data[f])
       /\ \A n : n \in Numbers(d.files, "log") <=> Log(n) \in d.files /\ n \in Nat
       /\ \A n : Log(n) \in d.files => os.data[Log(n)] \in Seq(Update) /\ n \in Nat
       /\ \A n : Table(n) \in d.files => os.data[Table(n)] \in Seq(SUBSET Update) /\ n \in Nat
       /\ \A n : Manifest(n) \in d.files => os.data[Manifest(n)] \in Seq(Edit) /\ n \in Nat

LEMMA DirFiles == IsOS(os) => KnownDirs
<1> SUFFICES ASSUME IsOS(os), NEW d \in Dirs
             PROVE  /\ d \in os.dirs /\ d \in Dir /\ d.files \subseteq File /\ d.current \in Nat
                    /\ \A f \in d.files : /\ Named(os.dirs, f) /\ f \in DOMAIN os.data
                                          /\ Kept(f) \in 0..Len(os.data[f])
                                          /\ Len(os.data[f]) \in Nat
                                          /\ os.synced[f] \in 0..Len(os.data[f])
                    /\ \A n : n \in Numbers(d.files, "log") <=> Log(n) \in d.files /\ n \in Nat
                    /\ \A n : Log(n) \in d.files => os.data[Log(n)] \in Seq(Update) /\ n \in Nat
                    /\ \A n : Table(n) \in d.files =>
                                 os.data[Table(n)] \in Seq(SUBSET Update) /\ n \in Nat
                    /\ \A n : Manifest(n) \in d.files =>
                                 os.data[Manifest(n)] \in Seq(Edit) /\ n \in Nat
  BY DEF KnownDirs
<1>1. d \in os.dirs /\ d \in Dir
  BY DEF IsOS, Dirs
<1>2. d.files \in SUBSET File /\ d.current \in Nat
  BY <1>1 DEF Dir
<1>0. \A f : Kept(f) = os.synced[f] \/ Kept(f) = Len(os.data[f])
  BY DEF Kept
<1>3. ASSUME NEW f \in d.files
      PROVE  /\ Named(os.dirs, f) /\ f \in DOMAIN os.data
             /\ Kept(f) \in 0..Len(os.data[f]) /\ Len(os.data[f]) \in Nat
             /\ os.synced[f] \in 0..Len(os.data[f])
             /\ f[1] = "log" => os.data[f] \in Seq(Update)
             /\ f[1] = "table" => os.data[f] \in Seq(SUBSET Update)
             /\ f[1] = "manifest" => os.data[f] \in Seq(Edit)
             /\ f[2] \in Nat
  <2>1. Named(os.dirs, f)
    BY <1>1 DEF Named
  <2>2. f[2] \in Nat
    BY <1>2 DEF File
  <2> QED
    <3>1. /\ f \in DOMAIN os.data /\ f \in File
          /\ os.synced[f] \in 0..Len(os.data[f]) /\ Len(os.data[f]) \in Nat
          /\ f[1] = "log" => os.data[f] \in Seq(Update)
          /\ f[1] = "table" => os.data[f] \in Seq(SUBSET Update)
          /\ f[1] = "manifest" => os.data[f] \in Seq(Edit)
      BY <2>1, FileExists
    <3>2. Kept(f) \in 0..Len(os.data[f])
      BY <1>0, <3>1
    <3> QED
      BY <2>1, <2>2, <3>1, <3>2
<1>4. \A n : n \in Numbers(d.files, "log") <=> Log(n) \in d.files /\ n \in Nat
  BY <1>2, LogNumbers
<1>5. /\ \A n : Log(n) \in d.files => os.data[Log(n)] \in Seq(Update) /\ n \in Nat
      /\ \A n : Table(n) \in d.files => os.data[Table(n)] \in Seq(SUBSET Update) /\ n \in Nat
      /\ \A n : Manifest(n) \in d.files => os.data[Manifest(n)] \in Seq(Edit) /\ n \in Nat
  BY <1>3, Names
<1> QED
  BY <1>1, <1>2, <1>3, <1>4, <1>5

-----------------------------------------------------------------------------
(* What a sound file system says.                                          *)

\* The writes of a version.
Holds(d, v) == InTables(os, v.tables) \cup InLogs(os, LogsOf(d, v))

LEMMA InFiles ==
    ASSUME NEW o
    PROVE  /\ \A S, x : x \in InTables(o, S) <=> \E n \in S : x \in TableData(o, n)
           /\ \A S, x : x \in InLogs(o, S) <=> \E n \in S : x \in ToSet(o.data[Log(n)])
BY DEF InTables, InLogs

LEMMA WholeTable ==
    ASSUME NEW d, NEW v, HasTables(d, v)
    PROVE  \A n \in v.tables : os.dir = d => TableOK(os, n) /\ TableData(os, n) = DataOf(n)
<1> SUFFICES ASSUME NEW n \in v.tables, os.dir = d
             PROVE  TableOK(os, n) /\ TableData(os, n) = DataOf(n)
  OBVIOUS
<1>1. Table(n) \in d.files /\ Len(os.data[Table(n)]) = 1
  BY DEF HasTables, Whole
<1>2. \A s : Len(s) = 1 => s # <<>>
  <2> SUFFICES ASSUME NEW s, Len(s) = 1, s = <<>>
               PROVE  FALSE
    OBVIOUS
  <2>1. Len(<<>>) = 0
    OBVIOUS
  <2>2. Len(s) = 0
    BY <2>1, Zenon
  <2> QED
    BY <2>2
<1>3. TableOK(os, n)
  BY <1>1, <1>2 DEF TableOK
<1> QED
  BY <1>3 DEF TableData, DataOf

LEMMA Sound ==
    ASSUME IsOS(os), SoundFiles, os.dir.current # 0, NEW d \in Dirs
    PROVE  /\ SoundDir(d) /\ Edits(d) \in Seq(Edit) /\ Manifest(d.current) \in d.files
           /\ Len(Edits(d)) \in Cuts(d) /\ Cuts(d) \subseteq 0..Len(Edits(d))
           /\ \A k \in Cuts(d) : At(d, k) \in Version /\ SoundVersion(d, At(d, k))
           /\ d.current < Recovered(os).next
<1>1. SoundDir(d) /\ Manifest(d.current) \in d.files
  BY DEF SoundFiles, SoundDir
<1>2. /\ Edits(d) \in Seq(Edit) /\ Len(Edits(d)) \in Nat /\ Kept(Manifest(d.current)) \in 0..Len(Edits(d))
      /\ d.current \in Nat
  BY <1>1, DirFiles DEF Edits, KnownDirs
<1>3. Len(Edits(d)) \in Cuts(d) /\ Cuts(d) \subseteq 0..Len(Edits(d))
  BY <1>2 DEF Cuts
<1>4. ASSUME NEW k \in Cuts(d)
      PROVE  At(d, k) \in Version /\ SoundVersion(d, At(d, k))
  BY <1>1, <1>2, <1>3, VersionsStepwise DEF SoundDir, At
<1>5. d.current < Recovered(os).next
  <2>1. os.dir \in Dirs
    BY DEF IsOS, Dirs
  <2>2. PICK k : k \in Cuts(d)
    BY <1>3
  <2>3. At(d, k).next \in Nat /\ d.current < At(d, k).next /\ At(d, k).next <= Recovered(os).next
    BY <1>4, <2>2 DEF SoundVersion, Version
  <2>4. os.dir \in Dir /\ Records(os) \in Seq(Edit)
    <3>1. Manifest(os.dir.current) \in os.dir.files
      BY <2>1 DEF SoundFiles, SoundDir
    <3> QED
      BY <2>1, <3>1, DirFiles DEF Records, KnownDirs
  <2>5. Recovered(os) \in Version
    BY <2>4, VersionsStepwise DEF Recovered
  <2> QED
    BY <1>2, <2>3, <2>5 DEF Version
<1> QED
  BY <1>1, <1>2, <1>3, <1>4, <1>5

KnownHere ==
    /\ os.dir \in Dirs /\ Edits(os.dir) = Records(os)
    /\ Recovered(os) = At(os.dir, Len(Edits(os.dir))) /\ Recovered(os) \in Version
    /\ SoundVersion(os.dir, Recovered(os)) /\ Readable(os)
    /\ os.dir.current < Recovered(os).next
    /\ LiveLogs(os) = LogsOf(os.dir, Recovered(os))
    /\ Reopened(os) = Holds(os.dir, Recovered(os))
    /\ \A n \in Recovered(os).tables : /\ TableOK(os, n) /\ TableData(os, n) = DataOf(n)
                                       /\ n < Recovered(os).next

LEMMA Here == IsOS(os) /\ SoundFiles /\ os.dir.current # 0 => KnownHere
<1> SUFFICES ASSUME IsOS(os), SoundFiles, os.dir.current # 0
             PROVE  KnownHere
  OBVIOUS
<1>1. os.dir \in Dirs
  BY DEF IsOS, Dirs
<1>2. Manifest(os.dir.current) \in os.dir.files /\ Edits(os.dir) = Records(os)
  BY <1>1, Sound DEF Edits, Records
<1>3. Recovered(os) = At(os.dir, Len(Edits(os.dir)))
  BY <1>2 DEF Recovered, At
<1>4. Recovered(os) \in Version /\ SoundVersion(os.dir, Recovered(os))
  BY <1>1, <1>3, Sound
<1>5. os.dir.current < Recovered(os).next /\ os.dir.current \in Nat
  BY <1>1, Sound, DirFiles DEF KnownDirs
<1>6. Readable(os)
  <2>1. \A i \in 1..Len(Edits(os.dir)) - 1 : ~Edits(os.dir)[i].torn
    BY <1>1, Sound DEF SoundDir
  <2>2. Recovered(os).next > 0 /\ Recovered(os).log >= 0
    BY <1>4, <1>5 DEF SoundVersion, Version
  <2> QED
    BY <1>2, <2>1, <2>2 DEF Readable
<1>7. LiveLogs(os) = LogsOf(os.dir, Recovered(os))
  BY DEF LiveLogs, LogsOf
<1>8. \A n \in Recovered(os).tables : /\ TableOK(os, n) /\ TableData(os, n) = DataOf(n)
                                      /\ n < Recovered(os).next
  BY <1>4, WholeTable DEF SoundVersion, HasTables
<1>9. Reopened(os) = Holds(os.dir, Recovered(os))
  BY <1>6, <1>7 DEF Reopened, Holds
<1> QED
  BY <1>1, <1>2, <1>3, <1>4, <1>5, <1>6, <1>7, <1>8, <1>9 DEF KnownHere

-----------------------------------------------------------------------------
(* Steps that leave what a process finds as it was.                        *)

Grown(f) == os'.data[f] = os.data[f] /\ Kept(f) <= Kept(f)'

\* The directory e after the step is as good as d before it.
Like(e, d) ==
    /\ e.current = d.current
    /\ Manifest(d.current) \in e.files /\ Grown(Manifest(d.current))
    /\ \A k \in Cuts(d) :
          /\ \A n \in At(d, k).tables : Table(n) \in e.files /\ Grown(Table(n))
          /\ \A n \in LogsOf(d, At(d, k)) : Log(n) \in e.files /\ Grown(Log(n))
    /\ \A n : Log(n) \in e.files => \/ Log(n) \in d.files /\ Grown(Log(n))
                                    \/ os'.data[Log(n)] = <<>>
    /\ \A n : Log(n) \in e.files => Log(n) \in os'.dir.files \/ n < Recovered(os).log

LEMMA LikeEdits ==
    ASSUME IsOS(os), IsOS(os)', SoundFiles, os.dir.current # 0,
           NEW e \in Dirs', NEW d \in Dirs, Like(e, d)
    PROVE  Edits(e)' = Edits(d) /\ Cuts(e)' \subseteq Cuts(d) /\ \A k : At(e, k)' = At(d, k)
<1>1. Edits(e)' = Edits(d)
  BY DEF Like, Grown, Edits
<1>2. \A k : At(e, k)' = At(d, k)
  BY <1>1 DEF At
<1>3. KnownDirs'
  BY DirFiles, PTL
<1>4. Manifest(d.current) \in e.files /\ Manifest(d.current) \in d.files
  BY Sound DEF Like
<1>5. Kept(Manifest(d.current))' \in 0..Len(Edits(d)) /\ Kept(Manifest(d.current)) \in 0..Len(Edits(d))
  BY <1>1, <1>3, <1>4, DirFiles DEF KnownDirs, Edits, Like
<1>6. Kept(Manifest(d.current)) <= Kept(Manifest(e.current))' /\ e.current = d.current
  BY DEF Like, Grown
<1>7. Cuts(e)' \subseteq Cuts(d)
  <2>1. Cuts(e)' = Kept(Manifest(e.current))'..Len(Edits(d))
    BY <1>1 DEF Cuts
  <2> QED
    BY <1>5, <1>6, <2>1 DEF Cuts
<1> QED
  BY <1>1, <1>2, <1>7

LEMMA Frame ==
    ASSUME IsOS(os), IsOS(os)', SoundFiles, os.dir.current # 0,
           acked' = acked, issued' = issued, os'.dir.current = os.dir.current,
           \A e \in Dirs' : \E d \in Dirs : Like(e, d),
           Like(os'.dir, os.dir), os'.dir \in Dirs', Lossy' <=> Lossy
    PROVE  /\ SoundFiles' /\ Recovered(os') = Recovered(os) /\ Records(os') = Records(os)
           /\ Reopened(os') = Reopened(os)
<1>1. os.dir \in Dirs /\ KnownHere
  BY Here DEF KnownHere
<1>2. Records(os') = Records(os)
  <2>1. os'.data[Manifest(os.dir.current)] = Edits(os.dir)
    BY DEF Like, Grown, Edits
  <2>2. Manifest(os'.dir.current) \in os'.dir.files
    BY DEF Like
  <2> QED
    BY <1>1, <2>1, <2>2 DEF Records, Edits, KnownHere
<1>3. Recovered(os') = Recovered(os)
  BY <1>2 DEF Recovered
<1>4. Len(Edits(os.dir)) \in Cuts(os.dir) /\ Recovered(os) = At(os.dir, Len(Edits(os.dir)))
  BY <1>1, Sound DEF KnownHere
<1>5. /\ \A n \in Recovered(os).tables : Table(n) \in os'.dir.files /\ Grown(Table(n))
      /\ \A n \in LiveLogs(os) : Log(n) \in os'.dir.files /\ Grown(Log(n))
  BY <1>1, <1>4 DEF Like, KnownHere
<1>6. KnownDirs /\ KnownDirs'
  <2>1. KnownDirs
    BY DirFiles
  <2>2. KnownDirs'
    BY DirFiles, PTL
  <2> QED
    BY <2>1, <2>2
<1>7. /\ \A n : n \in LiveLogs(os) <=> Log(n) \in os.dir.files /\ n \in Nat /\ n >= Recovered(os).log
      /\ \A n : n \in LiveLogs(os') <=> Log(n) \in os'.dir.files /\ n \in Nat /\ n >= Recovered(os).log
  BY <1>1, <1>3, <1>6 DEF LiveLogs, KnownDirs
<1>8. Reopened(os') = Reopened(os)
  <2>1. Readable(os') /\ Readable(os)
    BY <1>1, <1>2, <1>3 DEF Readable, KnownHere
  <2>2. \A n \in Recovered(os).tables : TableData(os', n) = TableData(os, n)
    <3> SUFFICES ASSUME NEW n \in Recovered(os).tables
                 PROVE  TableData(os', n) = TableData(os, n)
      OBVIOUS
    <3>1. Table(n) \in os'.dir.files /\ os'.data[Table(n)] = os.data[Table(n)] /\ TableOK(os, n)
      BY <1>1, <1>5 DEF Grown, KnownHere
    <3> QED
      BY <3>1 DEF TableData, TableOK
  <2>3. \A n \in LiveLogs(os) : n \in LiveLogs(os') /\ os'.data[Log(n)] = os.data[Log(n)]
    BY <1>5, <1>7 DEF Grown
  <2>4. ToSet(<<>>) = {}
    BY DEF ToSet
  <2>5. \A n \in LiveLogs(os') : \/ n \in LiveLogs(os) /\ os'.data[Log(n)] = os.data[Log(n)]
                                 \/ os'.data[Log(n)] = <<>>
    BY <1>7 DEF Like, Grown
  <2>6. InLogs(os', LiveLogs(os')) = InLogs(os, LiveLogs(os))
    BY <2>3, <2>4, <2>5 DEF InLogs
  <2>7. InTables(os', Recovered(os').tables) = InTables(os, Recovered(os).tables)
    BY <1>3, <2>2 DEF InTables
  <2> QED
    BY <2>1, <2>6, <2>7 DEF Reopened
<1>9. ASSUME NEW e \in Dirs'
      PROVE  SoundDir(e)'
  <2>1. PICK d \in Dirs : Like(e, d)
    OBVIOUS
  <2>2. Edits(e)' = Edits(d) /\ Cuts(e)' \subseteq Cuts(d) /\ \A k : At(e, k)' = At(d, k)
    BY <2>1, LikeEdits
  <2>3. SoundDir(d)
    BY Sound
  <2>4. \A n : n \in Numbers(e.files, "log") <=> Log(n) \in e.files /\ n \in Nat
    BY <1>6 DEF KnownDirs
  <2>5. ASSUME NEW n \in Numbers(e.files, "log")
        PROVE  n \in Numbers(os'.dir.files, "log") \/ n < Recovered(os').log
    BY <1>3, <1>6, <2>1, <2>4 DEF Like, KnownDirs
  <2>6. ASSUME NEW k \in Cuts(e)', NEW v, v = At(d, k)
        PROVE  SoundVersion(e, v)'
    <3>1. SoundVersion(d, v) /\ k \in Cuts(d)
      BY <2>2, <2>3, <2>6 DEF SoundDir
    <3>2. /\ \A n \in v.tables : Table(n) \in e.files /\ Grown(Table(n))
          /\ \A n \in LogsOf(d, v) : Log(n) \in e.files /\ Grown(Log(n))
      BY <2>1, <2>6, <3>1 DEF Like
    <3>3. \A n : n \in LogsOf(d, v) <=> Log(n) \in d.files /\ n \in Nat /\ n >= v.log
      BY <1>6 DEF LogsOf, KnownDirs
    <3>4. \A n : n \in LogsOf(e, v) <=> Log(n) \in e.files /\ n \in Nat /\ n >= v.log
      BY <2>4 DEF LogsOf
    <3>5. HasTables(e, v)'
      <4> SUFFICES ASSUME NEW n \in v.tables
                   PROVE  /\ n < v.next /\ Table(n) \in e.files /\ Whole(n)'
                          /\ \A r \in DataOf(n)' : r.seq <= v.seq
        BY DEF HasTables
      <4>1. /\ n < v.next /\ Table(n) \in d.files /\ Whole(n)
            /\ \A r \in DataOf(n) : r.seq <= v.seq
        BY <3>1 DEF SoundVersion, HasTables
      <4>2. Table(n) \in e.files /\ os'.data[Table(n)] = os.data[Table(n)]
            /\ Kept(Table(n)) <= Kept(Table(n))'
        BY <3>2 DEF Grown
      <4>3. Kept(Table(n))' \in 0..Len(os'.data[Table(n)])
        BY <1>6, <4>2 DEF KnownDirs
      <4>4. Whole(n)'
        <5>1. Len(os.data[Table(n)]) = 1 /\ Kept(Table(n)) = 1
          BY <4>1 DEF Whole
        <5>2. Len(os'.data[Table(n)]) = 1
          BY <4>2, <5>1
        <5>3. Kept(Table(n))' = 1
          BY <4>2, <4>3, <5>1, <5>2
        <5> QED
          BY <5>2, <5>3 DEF Whole
      <4>5. DataOf(n)' = DataOf(n)
        BY <4>2 DEF DataOf
      <4> QED
        BY <4>1, <4>2, <4>4, <4>5
    <3>6. Finds(e, v)'
      <4>1. ASSUME NEW n \in v.tables
            PROVE  DataOf(n)' \subseteq Reopened(os')
        BY <1>8, <3>1, <3>2 DEF SoundVersion, Finds, DataOf, Grown
      <4>2. ASSUME NEW n \in LogsOf(e, v)
            PROVE  ToSet(os'.data[Log(n)]) \subseteq Reopened(os')
        <5>1. CASE os'.data[Log(n)] = <<>>
          BY <5>1 DEF ToSet
        <5>2. CASE n \in LogsOf(d, v) /\ os'.data[Log(n)] = os.data[Log(n)]
          BY <1>8, <3>1, <5>2 DEF SoundVersion, Finds
        <5> QED
          BY <2>1, <3>3, <3>4, <5>1, <5>2 DEF Like, Grown
      <4> QED
        BY <4>1, <4>2 DEF Finds, LogsOf
    <3>7. ASSUME NEW id \in acked'
          PROVE  Keeps(e, v, id)'
      <4>1. Keeps(d, v, id)
        BY <3>1 DEF SoundVersion
      <4>2. CASE \E n \in v.tables : \E r \in DataOf(n) : r.id = id
        <5>1. PICK n \in v.tables : \E r \in DataOf(n) : r.id = id
          BY <4>2
        <5>2. DataOf(n)' = DataOf(n)
          BY <3>2 DEF Grown, DataOf
        <5> QED
          BY <5>1, <5>2 DEF Keeps
      <4>3. CASE \E n \in LogsOf(d, v) : \E i \in 1..Kept(Log(n)) : os.data[Log(n)][i].id = id
        <5>0. PICK n \in LogsOf(d, v) : \E i \in 1..Kept(Log(n)) : os.data[Log(n)][i].id = id
          BY <4>3
        <5>1. PICK i \in 1..Kept(Log(n)) : os.data[Log(n)][i].id = id
          BY <5>0
        <5>2. n \in LogsOf(e, v) /\ os'.data[Log(n)] = os.data[Log(n)] /\ Kept(Log(n)) <= Kept(Log(n))'
          BY <3>2, <3>3, <3>4 DEF Grown
        <5>3. Kept(Log(n)) \in Nat /\ Kept(Log(n))' \in Nat
          <6>1. Log(n) \in d.files /\ Log(n) \in e.files
            BY <3>3, <3>4, <5>2
          <6>2. Kept(Log(n)) \in 0..Len(os.data[Log(n)]) /\ Kept(Log(n))' \in 0..Len(os'.data[Log(n)])
            BY <1>6, <6>1 DEF KnownDirs
          <6> QED
            BY <6>2
        <5>4. i \in 1..Kept(Log(n))' /\ os'.data[Log(n)][i].id = id
          BY <5>1, <5>2, <5>3
        <5>5. n \in LogsOf(e, v)'
          BY <5>2 DEF LogsOf
        <5> QED
          BY <5>4, <5>5 DEF Keeps
      <4> QED
        BY <4>1, <4>2, <4>3 DEF Keeps
    <3>8. /\ e.current < v.next /\ v.log \in 0..v.next - 1 /\ v.seq <= issued'
          /\ v.next <= Recovered(os').next /\ v.log <= Recovered(os').log
      BY <1>3, <2>1, <3>1 DEF Like, SoundVersion
    <3> QED
      BY <3>5, <3>6, <3>7, <3>8 DEF SoundVersion
  <2>7. e.current # 0 /\ Manifest(e.current) \in e.files
    BY <2>1, <2>3 DEF Like, SoundDir
  <2> QED
    BY <2>2, <2>3, <2>5, <2>6, <2>7 DEF SoundDir
<1>10. SoundFiles'
  BY <1>9 DEF SoundFiles
<1> QED
  BY <1>2, <1>3, <1>8, <1>10

\* Nothing but the file f changes, in the directory or in what it holds.
Nearly(e, d, f) ==
    e.current = d.current /\ d.files \ {f} \subseteq e.files /\ e.files \subseteq d.files \cup {f}

Touched(o, p, f) ==
    /\ IsOS(p) /\ Nearly(p.dir, o.dir, f)
    /\ \A e \in p.dirs : e \in o.dirs \/ Nearly(e, o.dir, f)
    /\ \A g : g # f /\ Named(p.dirs, g) => SameFile(o, p, g)

\* No version that a process may start from knows of f, or f is a log that is new.
Spare(f) ==
    \/ \E n \in Nat : n >= Recovered(os).next /\ (f = Table(n) \/ f = Manifest(n))
    \/ \E n : f = Table(n) /\ Len(os.data[f]) # 1
    \/ /\ \E n \in Nat : f = Log(n)
       /\ \A d \in Dirs : f \notin d.files
       /\ os'.data[f] = <<>> /\ f \in os'.dir.files

Same ==
    /\ SoundFiles' /\ Recovered(os') = Recovered(os) /\ Records(os') = Records(os)
    /\ Reopened(os') = Reopened(os)

LEMMA Harmless ==
    ASSUME IsOS(os), SoundFiles, os.dir.current # 0, NEW f, Touched(os, os', f), Spare(f),
           acked' = acked, issued' = issued, left'.cuts = left.cuts
    PROVE  Same
<1>1. IsOS(os)' /\ os.dir \in os.dirs /\ os'.dir \in os'.dirs /\ (Lossy' <=> Lossy)
  BY DEF Touched, IsOS, Lossy
<1>2. KnownDirs /\ KnownHere
  BY DirFiles, Here
<1>3. os.dir \in Dirs /\ os'.dir \in Dirs' /\ Dirs' \subseteq os'.dirs
  BY <1>1 DEF Dirs
<1>4. ASSUME NEW g, g # f, Named(os'.dirs, g), Named(os.dirs, g)
      PROVE  Grown(g)
  <2>1. os'.data[g] = os.data[g] /\ os'.synced[g] = os.synced[g]
    BY <1>4 DEF Touched, SameFile
  <2>2. os.synced[g] \in 0..Len(os.data[g]) /\ Len(os.data[g]) \in Nat
    BY <1>4, FileExists
  <2>3. Kept(g)' = Kept(g) /\ Kept(g) \in Nat
    BY <1>1, <2>1, <2>2 DEF Kept
  <2> QED
    BY <2>1, <2>3 DEF Grown
<1>5. ASSUME NEW e \in Dirs'
      PROVE  \E d \in Dirs : Nearly(e, d, f)
  <2>1. CASE Lossy
    BY <1>1, <1>3, <2>1 DEF Dirs, Touched, Nearly
  <2>2. CASE ~Lossy
    BY <1>1, <1>3, <2>2 DEF Dirs, Touched
  <2> QED
    BY <2>1, <2>2
<1>6. Nearly(os'.dir, os.dir, f)
  BY DEF Touched
<1>7. ASSUME NEW e \in Dirs', NEW d \in Dirs, Nearly(e, d, f)
      PROVE  Like(e, d)
  <2>1. d.files \ {f} \subseteq e.files /\ e.files \subseteq d.files \cup {f} /\ e.current = d.current
    BY <1>7 DEF Nearly
  <2>2. e \in os'.dirs /\ d \in os.dirs
    BY <1>2, <1>3 DEF KnownDirs
  <2>3. \A g \in d.files : g # f => g \in e.files /\ Grown(g)
    BY <1>4, <2>1, <2>2 DEF Named
  <2>4. SoundDir(d) /\ d.current < Recovered(os).next /\ d.current \in Nat /\ Recovered(os).next \in Nat
    BY <1>2, Sound DEF KnownDirs, KnownHere, Version
  <2>5. Manifest(d.current) \in e.files /\ Grown(Manifest(d.current))
    <3>1. Manifest(d.current) # f
      BY <2>4, Names DEF Spare
    <3> QED
      BY <2>3, <2>4, <3>1 DEF SoundDir
  <2>6. ASSUME NEW k \in Cuts(d), NEW n \in At(d, k).tables
        PROVE  Table(n) \in e.files /\ Grown(Table(n))
    <3>1. /\ n < At(d, k).next /\ Table(n) \in d.files /\ At(d, k).next <= Recovered(os).next
          /\ At(d, k) \in Version /\ Len(os.data[Table(n)]) = 1
      BY Sound DEF SoundVersion, HasTables, Whole
    <3>2. Table(n) # f
      BY <2>4, <3>1, Names DEF Spare, Version
    <3> QED
      BY <2>3, <3>1, <3>2
  <2>7. ASSUME NEW k \in Cuts(d), NEW n \in LogsOf(d, At(d, k))
        PROVE  Log(n) \in e.files /\ Grown(Log(n))
    <3>1. Log(n) \in d.files
      BY <1>2 DEF LogsOf, KnownDirs
    <3>2. Log(n) # f
      BY <3>1, Names DEF Spare
    <3> QED
      BY <2>3, <3>1, <3>2
  <2>8. ASSUME NEW n, Log(n) \in e.files
        PROVE  (Log(n) \in d.files /\ Grown(Log(n))) \/ os'.data[Log(n)] = <<>>
    <3>1. CASE Log(n) = f
      BY <3>1, Names DEF Spare
    <3>2. CASE Log(n) # f
      BY <2>1, <2>3, <2>8, <3>2
    <3> QED
      BY <3>1, <3>2
  <2>9. ASSUME NEW n, Log(n) \in e.files
        PROVE  Log(n) \in os'.dir.files \/ n < Recovered(os).log
    <3>1. CASE Log(n) = f
      BY <3>1, Names DEF Spare
    <3>2. CASE Log(n) # f
      <4>1. n \in Numbers(d.files, "log")
        BY <1>2, <2>1, <2>9, <3>2 DEF KnownDirs
      <4>2. Log(n) \in os.dir.files \/ n < Recovered(os).log
        BY <1>2, <1>3, <2>4, <4>1 DEF SoundDir, KnownDirs
      <4> QED
        BY <1>6, <3>2, <4>2 DEF Nearly
    <3> QED
      BY <3>1, <3>2
  <2> QED
    BY <2>1, <2>5, <2>6, <2>7, <2>8, <2>9 DEF Like
<1>8. Like(os'.dir, os.dir) /\ \A e \in Dirs' : \E d \in Dirs : Like(e, d)
  BY <1>3, <1>5, <1>6, <1>7
<1>9. os'.dir.current = os.dir.current
  BY <1>6 DEF Nearly
<1> QED
  BY <1>1, <1>3, <1>8, <1>9, Frame DEF Same

\* A MANIFEST that is synced.
LEMMA SyncedManifest ==
    ASSUME IsOS(os), SoundFiles, os.dir.current # 0, NEW f, f[1] = "manifest", Synced(os, os', f),
           acked' = acked, issued' = issued, left'.cuts = left.cuts
    PROVE  Same
<1>1. IsOS(os)' /\ os.dir \in os.dirs /\ (Lossy' <=> Lossy) /\ os'.dir = os.dir /\ os'.dirs = {os.dir}
  BY DEF Synced, IsOS, Lossy
<1>2. KnownDirs /\ KnownHere /\ os.dir \in Dirs /\ Dirs' = {os.dir}
  BY <1>1, DirFiles, Here DEF Dirs
<1>3. ASSUME NEW g \in os.dir.files
      PROVE  Grown(g)
  <2>1. Named(os.dirs, g) /\ Named(os'.dirs, g)
    BY <1>1, <1>3 DEF Named
  <2>2. os.synced[g] \in 0..Len(os.data[g]) /\ Len(os.data[g]) \in Nat
    BY <2>1, FileExists
  <2>3. os'.data[g] = os.data[g] /\ (os'.synced[g] = os.synced[g] \/ os'.synced[g] = Len(os.data[g]))
    BY <2>1 DEF Synced, SameFile
  <2>4. Kept(g) <= Kept(g)'
    BY <1>1, <2>2, <2>3 DEF Kept
  <2> QED
    BY <2>3, <2>4 DEF Grown
<1>4. Like(os.dir, os.dir)
  <2>1. SoundDir(os.dir) /\ \A k \in Cuts(os.dir) : HasTables(os.dir, At(os.dir, k))
    BY <1>2, Sound DEF SoundVersion
  <2>2. Manifest(os.dir.current) \in os.dir.files
    BY <2>1 DEF SoundDir
  <2>3. \A k \in Cuts(os.dir) : \A n \in At(os.dir, k).tables : Table(n) \in os.dir.files
    BY <2>1 DEF HasTables
  <2>4. \A k \in Cuts(os.dir) : \A n \in LogsOf(os.dir, At(os.dir, k)) : Log(n) \in os.dir.files
    BY <1>2 DEF LogsOf, KnownDirs
  <2> QED
    BY <1>1, <1>3, <2>2, <2>3, <2>4 DEF Like
<1> QED
  BY <1>1, <1>2, <1>4, Frame DEF Same

\* A deletion of what is obsolete.
LEMMA DeletedFile ==
    ASSUME IsOS(os), SoundFiles, os.dir.current # 0, Settled, db.manifest = os.dir.current,
           NEW f \in Obsolete(os, db), os' = DeleteFile(os, f),
           acked' = acked, issued' = issued, left'.cuts = left.cuts
    PROVE  Same
<1>1. /\ IsOS(os') /\ os'.dir = [files |-> os.dir.files \ {f}, current |-> os.dir.current]
      /\ os'.dirs = os.dirs \cup {os'.dir} /\ \A g : Named(os.dirs, g) => SameFile(os, os', g)
  BY Deletion
<1>2. IsOS(os)' /\ os.dir \in os.dirs /\ os'.dir \in os'.dirs /\ (Lossy' <=> Lossy)
  BY <1>1 DEF IsOS, Lossy
<1>3. KnownDirs /\ KnownHere
  BY DirFiles, Here
<1>4. ASSUME NEW g, Named(os.dirs, g)
      PROVE  Grown(g)
  <2>1. os'.data[g] = os.data[g] /\ os'.synced[g] = os.synced[g]
    BY <1>1, <1>4 DEF SameFile
  <2>2. os.synced[g] \in 0..Len(os.data[g]) /\ Len(os.data[g]) \in Nat
    BY <1>4, FileExists
  <2>3. Kept(g)' = Kept(g) /\ Kept(g) \in Nat
    BY <1>2, <2>1, <2>2 DEF Kept
  <2> QED
    BY <2>1, <2>3 DEF Grown
<1>5. /\ \A n : f = Log(n) => n < Recovered(os).log
      /\ \A n : f = Manifest(n) => n < os.dir.current
      /\ \A n : f = Table(n) => n \notin Recovered(os).tables
  BY Names DEF Obsolete, Settled
<1>6. os.dir \in Dirs /\ os'.dir \in Dirs' /\ \A e \in Dirs' : e = os'.dir \/ e \in Dirs
  BY <1>1, <1>2 DEF Dirs
<1>7. ASSUME NEW e \in Dirs
      PROVE  \A g \in e.files : Grown(g)
  BY <1>3, <1>4 DEF KnownDirs
<1>8. ASSUME NEW e \in Dirs, NEW n, Log(n) \in e.files
      PROVE  Log(n) \in os'.dir.files \/ n < Recovered(os).log
  <2>1. n \in Numbers(e.files, "log")
    BY <1>3, <1>8 DEF KnownDirs
  <2>2. Log(n) \in os.dir.files \/ n < Recovered(os).log
    BY <1>3, <1>6, <2>1, Sound DEF SoundDir, KnownDirs
  <2> QED
    BY <1>1, <1>5, <2>2
<1>9. ASSUME NEW e \in Dirs
      PROVE  Like(e, e)
  <2>1. SoundDir(e) /\ \A k \in Cuts(e) : HasTables(e, At(e, k))
    BY Sound DEF SoundVersion
  <2>2. Manifest(e.current) \in e.files
    BY <2>1 DEF SoundDir
  <2>3. \A k \in Cuts(e) : \A n \in At(e, k).tables : Table(n) \in e.files
    BY <2>1 DEF HasTables
  <2>4. \A k \in Cuts(e) : \A n \in LogsOf(e, At(e, k)) : Log(n) \in e.files
    BY <1>3 DEF LogsOf, KnownDirs
  <2> QED
    BY <1>7, <1>8, <2>2, <2>3, <2>4 DEF Like
<1>10. Like(os'.dir, os.dir)
  <2>1. Cuts(os.dir) = {Len(Edits(os.dir))}
    <3>1. Manifest(os.dir.current) \in os.dir.files
      BY <1>6, Sound
    <3>2. Len(Edits(os.dir)) \in Nat
      BY <1>3, <1>6, <3>1 DEF KnownDirs, Edits
    <3> QED
      BY <3>2 DEF Settled, Cuts
  <2>2. \A k \in Cuts(os.dir) : At(os.dir, k) = Recovered(os)
    BY <1>3, <2>1 DEF KnownHere
  <2>3. os.dir.current \in Nat /\ Recovered(os).log \in Int
    BY <1>3, <1>6 DEF KnownDirs, KnownHere, Version
  <2>4. Manifest(os.dir.current) \in os'.dir.files
    BY <1>1, <1>5, <1>6, <2>3, Sound
  <2>5. \A n \in Recovered(os).tables : Table(n) \in os.dir.files /\ Table(n) \in os'.dir.files
    BY <1>1, <1>3, <1>5 DEF KnownHere, TableOK
  <2>6. \A n \in LogsOf(os.dir, Recovered(os)) : Log(n) \in os.dir.files /\ Log(n) \in os'.dir.files
    BY <1>1, <1>3, <1>5, <1>6, <2>3 DEF LogsOf, KnownDirs
  <2>7. os'.dir.files \subseteq os.dir.files /\ os'.dir.current = os.dir.current
    BY <1>1
  <2>8. \A g \in os.dir.files : Grown(g)
    BY <1>6, <1>7
  <2> QED
    BY <2>2, <2>4, <2>5, <2>6, <2>7, <2>8 DEF Like
<1>11. os'.dir.current = os.dir.current
  BY <1>1
<1>12. \A e \in Dirs' : \E d \in Dirs : Like(e, d)
  BY <1>6, <1>9, <1>10
<1> QED
  BY <1>2, <1>6, <1>10, <1>11, <1>12, Frame DEF Same

-----------------------------------------------------------------------------
(* Files that are created, written and synced.                             *)

\* A file that is new and empty.
Begun(o, p, f) ==
    /\ Touched(o, p, f) /\ p.dir = [files |-> o.dir.files \cup {f}, current |-> o.dir.current]
    /\ p.data[f] = <<>> /\ f \in p.dir.files /\ p.dirs = o.dirs \cup {p.dir}
    /\ p.synced[f] = 0

LEMMA Creating ==
    ASSUME NEW o, IsOS(o), NEW f \in File, NEW p, p = NewWritableFile(o, f)
    PROVE  Begun(o, p, f)
<1>1. /\ IsOS(p) /\ p.dir = [files |-> o.dir.files \cup {f}, current |-> o.dir.current]
      /\ p.dirs = o.dirs \cup {p.dir} /\ p.data[f] = <<>> /\ p.synced[f] = 0
      /\ \A g : g # f /\ Named(o.dirs, g) => SameFile(o, p, g)
  BY NewFile
<1>2. o.dir \in o.dirs
  BY DEF IsOS
<1>3. Nearly(p.dir, o.dir, f) /\ f \in p.dir.files
  BY <1>1 DEF Nearly
<1>4. \A g : g # f /\ Named(p.dirs, g) => Named(o.dirs, g)
  BY <1>1, <1>2 DEF Named
<1> QED
  BY <1>1, <1>3, <1>4 DEF Touched, Begun

\* One more record, of the type of the file.
Fits(f, r) ==
    /\ f[1] = "log" => r \in Update
    /\ f[1] = "table" => r \in SUBSET Update
    /\ f[1] = "manifest" => r \in Edit

LEMMA Adding ==
    ASSUME NEW o, NEW f, NEW p, Touched(o, p, f), f \in p.dir.files, NEW r, Fits(f, r),
           NEW q, q = AddRecord(p, f, r)
    PROVE  /\ Touched(o, q, f) /\ q.dir = p.dir /\ q.dirs = p.dirs
           /\ q.data[f] = Append(p.data[f], r) /\ q.synced[f] = p.synced[f]
<1>1. IsOS(p) /\ p.dir \in p.dirs /\ Named(p.dirs, f)
  BY DEF Touched, IsOS, Named
<1>2. /\ IsOS(q) /\ q.dir = p.dir /\ q.dirs = p.dirs
      /\ q.data[f] = Append(p.data[f], r) /\ q.synced[f] = p.synced[f]
      /\ \A g : g # f /\ Named(p.dirs, g) => SameFile(p, q, g)
  BY <1>1, Appending DEF Fits
<1> QED
  BY <1>2 DEF Touched, SameFile

Finished(p, q, f) ==
    /\ q.dir = p.dir /\ q.data[f] = p.data[f] /\ q.synced[f] = Len(p.data[f])
    /\ FsyncLinks => q.dirs = {q.dir}

LEMMA Finishing ==
    ASSUME NEW o, NEW f, NEW p, Touched(o, p, f), f \in p.dir.files, NEW q, q = Sync(p, f)
    PROVE  Touched(o, q, f) /\ Finished(p, q, f)
<1>1. IsOS(p) /\ p.dir \in p.dirs
  BY DEF Touched, IsOS
<1>2. Synced(p, q, f)
  BY <1>1, Syncing
<1>3. q.dirs \subseteq p.dirs
  BY <1>1, <1>2 DEF Synced
<1>4. \A g : Named(q.dirs, g) => Named(p.dirs, g)
  BY <1>3 DEF Named
<1> QED
  BY <1>2, <1>3, <1>4 DEF Synced, Touched, SameFile, Finished

LEMMA Untouched ==
    ASSUME NEW o, IsOS(o), NEW f
    PROVE  Touched(o, o, f)
BY DEF Touched, Nearly, SameFile

\* A table that is written, synced and complete.
Made(o, n, r) ==
    /\ Table(n) \in o.dir.files /\ o.data[Table(n)] = <<r>> /\ o.synced[Table(n)] = 1
    /\ FsyncLinks => o.dirs = {o.dir}

LEMMA FirstRecord ==
    ASSUME NEW s, s = <<>>, NEW r
    PROVE  Append(s, r) = <<r>> /\ Len(<<r>>) = 1
<1>1. Append(<<>>, r) = <<r>> /\ Len(<<r>>) = 1
  OBVIOUS
<1> QED
  BY <1>1, Zenon

LEMMA Building ==
    ASSUME NEW o, IsOS(o), NEW n \in Nat, NEW r \in SUBSET Update, NEW p,
           p = Sync(AddRecord(NewWritableFile(o, Table(n)), Table(n), r), Table(n))
    PROVE  /\ Touched(o, p, Table(n)) /\ Made(p, n, r)
           /\ p.dir = [files |-> o.dir.files \cup {Table(n)}, current |-> o.dir.current]
<1> DEFINE f == Table(n)
           a == NewWritableFile(o, f)
           b == AddRecord(a, f, r)
<1>1. f \in File /\ Fits(f, r)
  BY DEF Table, File, Fits
<1>2. p = Sync(b, f) /\ b = AddRecord(a, f, r) /\ a = NewWritableFile(o, f)
  OBVIOUS
<1> HIDE DEF f, a, b
<1>3. /\ Touched(o, a, f) /\ a.dir = [files |-> o.dir.files \cup {f}, current |-> o.dir.current]
      /\ a.data[f] = <<>> /\ f \in a.dir.files
  BY <1>1, <1>2, Creating DEF Begun
<1>4. Touched(o, b, f) /\ b.dir = a.dir /\ b.data[f] = Append(a.data[f], r)
  BY <1>1, <1>2, <1>3, Adding
<1>5. Append(a.data[f], r) = <<r>> /\ Len(<<r>>) = 1
  BY <1>3, FirstRecord
<1>6. /\ Touched(o, p, f) /\ p.dir = b.dir /\ p.data[f] = b.data[f] /\ p.synced[f] = Len(b.data[f])
      /\ FsyncLinks => p.dirs = {p.dir}
  <2>1. f \in b.dir.files
    BY <1>3, <1>4
  <2>2. p = Sync(b, f) /\ Touched(o, b, f)
    BY <1>2, <1>4
  <2>3. Touched(o, p, f) /\ Finished(b, p, f)
    BY <2>1, <2>2, Finishing
  <2> QED
    BY <2>3 DEF Finished
<1>7. p.data[f] = <<r>> /\ p.synced[f] = 1 /\ f \in p.dir.files
  BY <1>3, <1>4, <1>5, <1>6
<1> QED
  BY <1>3, <1>4, <1>6, <1>7 DEF Made, f

LEMMA Filling ==
    ASSUME NEW o, IsOS(o), NEW n \in Nat, Table(n) \in o.dir.files, o.data[Table(n)] = <<>>,
           NEW r \in SUBSET Update, NEW p, p = Sync(AddRecord(o, Table(n), r), Table(n))
    PROVE  Touched(o, p, Table(n)) /\ Made(p, n, r) /\ p.dir = o.dir
<1> DEFINE f == Table(n)
           b == AddRecord(o, f, r)
<1>1. Fits(f, r)
  BY DEF Table, File, Fits
<1>2. p = Sync(b, f) /\ b = AddRecord(o, f, r)
  OBVIOUS
<1>3. f \in o.dir.files /\ o.data[f] = <<>>
  OBVIOUS
<1> HIDE DEF f, b
<1>4. Touched(o, b, f) /\ b.dir = o.dir /\ b.data[f] = Append(o.data[f], r)
  <2>1. Touched(o, o, f)
    BY Untouched
  <2> QED
    BY <1>1, <1>2, <1>3, <2>1, Adding
<1>5. Append(o.data[f], r) = <<r>> /\ Len(<<r>>) = 1
  BY <1>3, FirstRecord
<1>6. /\ Touched(o, p, f) /\ p.dir = b.dir /\ p.data[f] = b.data[f] /\ p.synced[f] = Len(b.data[f])
      /\ FsyncLinks => p.dirs = {p.dir}
  <2>1. f \in b.dir.files
    BY <1>3, <1>4
  <2>2. p = Sync(b, f) /\ Touched(o, b, f)
    BY <1>2, <1>4
  <2>3. Touched(o, p, f) /\ Finished(b, p, f)
    BY <2>1, <2>2, Finishing
  <2> QED
    BY <2>3 DEF Finished
<1>7. p.data[f] = <<r>> /\ p.synced[f] = 1 /\ f \in p.dir.files
  BY <1>3, <1>4, <1>5, <1>6
<1> QED
  BY <1>3, <1>4, <1>6, <1>7 DEF Made, f

-----------------------------------------------------------------------------
(* A MANIFEST with one more record.                                        *)

Longer(t, s, e) ==
    /\ t \in Seq(Edit) /\ Len(t) = Len(s) + 1 /\ Len(s) \in Nat
    /\ \A i \in 1..Len(s) : t[i] = s[i]
    /\ t[Len(s) + 1] = e
    /\ \A i \in 0..Len(s) : Versions(t)[i] = Versions(s)[i]
    /\ Versions(t)[Len(s) + 1] = Later(Versions(s)[Len(s)], e)

LEMMA OneMore ==
    ASSUME NEW s \in Seq(Edit), NEW e \in Edit, NEW t, t = Append(s, e)
    PROVE  Longer(t, s, e)
<1>1. /\ t \in Seq(Edit) /\ Len(t) = Len(s) + 1 /\ Len(s) \in Nat
      /\ \A i \in 1..Len(s) : t[i] = s[i]
      /\ t[Len(s) + 1] = e
  OBVIOUS
<1> DEFINE n == Len(s)
<1>2. n \in Nat /\ n <= Len(s) /\ n <= Len(t) /\ \A i \in 1..n : s[i] = t[i]
  BY <1>1
<1> HIDE DEF n
<1>3. \A i \in 0..n : Versions(s)[i] = Versions(t)[i]
  BY <1>1, <1>2, SamePrefix
<1>4. n + 1 \in 1..Len(t) /\ (n + 1) - 1 = n /\ n \in 0..n
  BY <1>1, <1>2 DEF n
<1>5. Versions(t)[n + 1] = Later(Versions(t)[(n + 1) - 1], t[n + 1])
  BY <1>1, <1>4, VersionsStepwise
<1>6. Versions(t)[n + 1] = Later(Versions(s)[n], e)
  BY <1>1, <1>3, <1>4, <1>5 DEF n
<1> QED
  BY <1>1, <1>3, <1>6 DEF n, Longer

\* The tables and logs of a directory are as they were.
Still(d) ==
    \A g \in d.files : g[1] # "manifest" => os'.data[g] = os.data[g] /\ Kept(g)' = Kept(g)

LEMMA StillSound ==
    ASSUME NEW d, d.files \in SUBSET File, Still(d), Reopened(os') = Reopened(os),
           NEW v, HasTables(d, v), Finds(d, v)
    PROVE  /\ HasTables(d, v)' /\ Finds(d, v)'
           /\ \A id : Keeps(d, v, id) => Keeps(d, v, id)'
<1>1. \A n \in v.tables : /\ Table(n) \in d.files /\ os'.data[Table(n)] = os.data[Table(n)]
                          /\ Kept(Table(n))' = Kept(Table(n))
  BY Names DEF HasTables, Still
<1>2. \A n \in LogsOf(d, v) : /\ Log(n) \in d.files /\ os'.data[Log(n)] = os.data[Log(n)]
                              /\ Kept(Log(n))' = Kept(Log(n))
  BY Names, LogNumbers DEF LogsOf, Still
<1>3. \A n \in v.tables : DataOf(n)' = DataOf(n) /\ (Whole(n) => Whole(n)')
  BY <1>1 DEF DataOf, Whole
<1>4. HasTables(d, v)'
  BY <1>3 DEF HasTables
<1>5. LogsOf(d, v)' = LogsOf(d, v)
  BY DEF LogsOf
<1>6. Finds(d, v)'
  BY <1>2, <1>3, <1>5 DEF Finds
<1>7. ASSUME NEW id, Keeps(d, v, id)
      PROVE  Keeps(d, v, id)'
  <2>1. CASE \E n \in v.tables : \E r \in DataOf(n) : r.id = id
    BY <1>3, <2>1 DEF Keeps
  <2>2. CASE \E n \in LogsOf(d, v) : \E i \in 1..Kept(Log(n)) : os.data[Log(n)][i].id = id
    <3>1. \E n \in LogsOf(d, v) : \E i \in 1..Kept(Log(n))' : os'.data[Log(n)][i].id = id
      BY <1>2, <2>2
    <3> QED
      BY <1>5, <3>1 DEF Keeps
  <2> QED
    BY <1>7, <2>1, <2>2 DEF Keeps
<1> QED
  BY <1>4, <1>6, <1>7

\* The version w holds what is there: in every directory its tables and logs do.
Fulfils(w) ==
    /\ w.log \in 0..w.next - 1 /\ w.seq <= issued /\ w.next \in Nat
    /\ Recovered(os).next <= w.next /\ Recovered(os).log <= w.log
    /\ \A d \in Dirs : HasTables(d, w) /\ \A id \in acked : Keeps(d, w, id)
    /\ Holds(os.dir, w) = Reopened(os)

LEMMA AppliedEdit ==
    ASSUME IsOS(os), SoundFiles, os.dir.current # 0, NEW e \in Edit,
           os' = AddRecord(os, Manifest(os.dir.current), e),
           \A i \in 1..Len(Edits(os.dir)) : ~Edits(os.dir)[i].torn,
           Kept(Manifest(os.dir.current)) = Len(Edits(os.dir)),
           \A d \in Dirs : d.current = os.dir.current,
           NEW w \in Version, w = Later(Recovered(os), e), Fulfils(w),
           acked' = acked, issued' = issued, left'.cuts = left.cuts
    PROVE  /\ IsOS(os') /\ os'.dir = os.dir /\ os'.dirs = os.dirs
           /\ SoundFiles' /\ Recovered(os') = w /\ Reopened(os') = Reopened(os)
           /\ \A g \in os.dir.files : g # Manifest(os.dir.current) => SameFile(os, os', g)
           /\ Edits(os.dir)' = Append(Edits(os.dir), e)
<1>0. PICK M, s, t : M = Manifest(os.dir.current) /\ s = Edits(os.dir) /\ t = Append(s, e)
  OBVIOUS
<1>1. KnownDirs /\ KnownHere /\ os.dir \in Dirs /\ os.dir \in os.dirs
  BY DirFiles, Here DEF KnownHere, IsOS
<1>2. M \in os.dir.files /\ s \in Seq(Edit) /\ M[1] = "manifest" /\ s = os.data[M] /\ Kept(M) = Len(s)
  BY <1>0, <1>1, Sound, Names DEF Edits
<1>3. Named(os.dirs, M)
  BY <1>1, <1>2 DEF Named
<1>4. /\ IsOS(os') /\ os'.dir = os.dir /\ os'.dirs = os.dirs
      /\ os'.data[M] = Append(os.data[M], e) /\ os'.synced[M] = os.synced[M]
      /\ \A g : g # M /\ Named(os.dirs, g) => SameFile(os, os', g)
  <2>0. os' = AddRecord(os, M, e) /\ M[1] = "manifest"
    BY <1>0, <1>2
  <2> QED
    BY <1>3, <2>0, Appending
<1>5. (Lossy' <=> Lossy) /\ Dirs' = Dirs
  BY <1>4 DEF Lossy, Dirs
<1>6. /\ t \in Seq(Edit) /\ Len(t) = Len(s) + 1 /\ Len(s) \in Nat
      /\ \A i \in 1..Len(s) : t[i] = s[i]
      /\ t[Len(s) + 1] = e
      /\ \A i \in 0..Len(s) : Versions(t)[i] = Versions(s)[i]
      /\ Versions(t)[Len(s) + 1] = Later(Versions(s)[Len(s)], e)
  <2>1. s \in Seq(Edit) /\ t = Append(s, e)
    BY <1>0, <1>2
  <2> QED
    <3>1. Longer(t, s, e)
      BY <2>1, OneMore
    <3> QED
      BY <3>1 DEF Longer
<1>7. \A d \in Dirs : Edits(d) = s /\ Edits(d)' = t /\ d.current = os.dir.current
  BY <1>0, <1>2, <1>4 DEF Edits
<1>8. Recovered(os) = Versions(s)[Len(s)] /\ Records(os') = t
  BY <1>0, <1>1, <1>2, <1>4 DEF KnownHere, At, Records
<1>9. Recovered(os') = w
  BY <1>6, <1>8 DEF Recovered
<1>10. ASSUME NEW d \in Dirs, NEW k \in Cuts(d)'
       PROVE  At(d, k)' \in {Recovered(os), w}
  <2>1. Kept(M)' \in {Len(s), Len(s) + 1}
    <3>1. Kept(M) = Len(s)
      BY <1>2
    <3>2. os.synced[M] = Len(s) \/ ~(Lossy /\ M # Manifest(1))
      BY <3>1 DEF Kept
    <3>3. os'.data[M] = t /\ os'.synced[M] = os.synced[M]
      BY <1>0, <1>2, <1>4
    <3>4. Kept(M)' = IF Lossy /\ M # Manifest(1) THEN os.synced[M] ELSE Len(t)
      BY <1>5, <3>3 DEF Kept
    <3>5. Len(t) = Len(s) + 1
      BY <1>6
    <3> QED
      BY <3>2, <3>4, <3>5
  <2>2. k \in Kept(M)'..Len(t)
    BY <1>0, <1>7 DEF Cuts
  <2>3. k \in {Len(s), Len(s) + 1}
    BY <1>6, <2>1, <2>2
  <2>4. At(d, k)' = Versions(t)[k]
    BY <1>7 DEF At
  <2>5. Len(s) \in 0..Len(s)
    BY <1>6
  <2> QED
    BY <1>6, <1>8, <2>3, <2>4, <2>5
<1>11. ASSUME NEW d \in Dirs
       PROVE  Still(d)
  <2>1. ASSUME NEW g \in d.files, g[1] # "manifest"
        PROVE  os'.data[g] = os.data[g] /\ Kept(g)' = Kept(g)
    <3>1. g # M /\ Named(os.dirs, g)
      BY <1>1, <1>2, <2>1 DEF KnownDirs
    <3>2. SameFile(os, os', g)
      BY <1>4, <3>1
    <3> QED
      BY <1>5, <3>2 DEF SameFile, Kept
  <2> QED
    BY <2>1 DEF Still
<1>12. w \in Version /\ Recovered(os) \in Version /\ Fulfils(w)
  BY <1>1 DEF KnownHere
<1>13. /\ \A n \in w.tables : /\ os'.data[Table(n)] = os.data[Table(n)] /\ Table(n) \in os.dir.files
                              /\ TableData(os', n) = TableData(os, n)
       /\ \A n \in LogsOf(os.dir, w) : os'.data[Log(n)] = os.data[Log(n)]
  <2>1. HasTables(os.dir, w)
    BY <1>1 DEF Fulfils
  <2>2. \A n \in w.tables : Table(n) \in os.dir.files /\ os'.data[Table(n)] = os.data[Table(n)]
    BY <1>1, <1>11, <2>1, Names DEF HasTables, Still
  <2>3. \A n \in w.tables : TableOK(os, n) /\ TableData(os, n) = DataOf(n)
    BY <2>1, WholeTable
  <2>4. \A n \in LogsOf(os.dir, w) : os'.data[Log(n)] = os.data[Log(n)]
    BY <1>1, <1>11, Names DEF LogsOf, Still, KnownDirs
  <2>5. \A n \in w.tables : TableData(os', n) = TableData(os, n)
    BY <1>4, <2>2 DEF TableOK, TableData
  <2> QED
    BY <2>2, <2>4, <2>5
<1>14. Reopened(os') = Reopened(os)
  <2>1. Readable(os') /\ os'.dir.current # 0
    <3>1. \A i \in 1..Len(t) - 1 : ~t[i].torn
      BY <1>0, <1>6
    <3>2. w.next > 0 /\ w.log >= 0
      BY DEF Fulfils
    <3> QED
      BY <1>4, <1>8, <1>9, <3>1, <3>2 DEF Readable
  <2>2. LiveLogs(os') = LogsOf(os.dir, w)
    BY <1>4, <1>9 DEF LiveLogs, LogsOf
  <2>3. InTables(os', w.tables) = InTables(os, w.tables)
    BY <1>13 DEF InTables
  <2>4. InLogs(os', LogsOf(os.dir, w)) = InLogs(os, LogsOf(os.dir, w))
    BY <1>13 DEF InLogs
  <2>5. Reopened(os') = Holds(os.dir, w)
    BY <1>9, <2>1, <2>2, <2>3, <2>4 DEF Reopened, Holds
  <2> QED
    BY <2>5 DEF Fulfils
<1>15. ASSUME NEW d \in Dirs
       PROVE  SoundVersion(d, w)' /\ SoundVersion(d, Recovered(os))
  <2>1. SoundDir(d) /\ d.current < Recovered(os).next /\ d.files \in SUBSET File /\ d.current \in Nat
    BY <1>1, Sound DEF KnownDirs
  <2>2. ASSUME NEW n \in LogsOf(d, w)
        PROVE  n \in LogsOf(os.dir, w)
    <3>1. n \in Numbers(d.files, "log") /\ n >= w.log /\ n \in Nat
      BY <1>1 DEF LogsOf, KnownDirs
    <3>2. n \in Numbers(os.dir.files, "log")
      BY <1>12, <2>1, <3>1 DEF SoundDir, Fulfils, Version
    <3> QED
      BY <3>1, <3>2 DEF LogsOf
  <2>3. HasTables(d, w) /\ \A id \in acked : Keeps(d, w, id)
    BY DEF Fulfils
  <2>4. Finds(d, w)
    <3>0. Holds(os.dir, w) = Reopened(os)
      BY DEF Fulfils
    <3>1. \A n \in w.tables : DataOf(n) \subseteq Holds(os.dir, w)
      <4>1. \A n \in w.tables : TableData(os, n) = DataOf(n)
        BY <1>1, WholeTable DEF Fulfils
      <4> QED
        BY <4>1, InFiles DEF Holds
    <3>2. \A n \in LogsOf(os.dir, w) : ToSet(os.data[Log(n)]) \subseteq Holds(os.dir, w)
      BY InFiles DEF Holds
    <3>3. \A n \in LogsOf(d, w) : ToSet(os.data[Log(n)]) \subseteq Reopened(os)
      BY <2>2, <3>0, <3>2, Zenon
    <3>4. \A n \in w.tables : DataOf(n) \subseteq Reopened(os)
      BY <3>0, <3>1, Zenon
    <3> QED
      BY <3>3, <3>4 DEF Finds
  <2>5. HasTables(d, w)' /\ Finds(d, w)' /\ \A id : Keeps(d, w, id) => Keeps(d, w, id)'
    BY <1>11, <1>14, <2>1, <2>3, <2>4, StillSound
  <2>6. /\ d.current < w.next /\ w.log \in 0..w.next - 1 /\ w.seq <= issued'
        /\ w.next <= Recovered(os').next /\ w.log <= Recovered(os').log
    BY <1>9, <1>12, <2>1 DEF Fulfils, Version
  <2>7. Len(Edits(d)) \in Cuts(d) /\ At(d, Len(Edits(d))) = Recovered(os)
    BY <1>7, <1>8, Sound DEF At
  <2>8. SoundVersion(d, Recovered(os))
    BY <2>7, Sound
  <2> QED
    BY <2>3, <2>5, <2>6, <2>8 DEF SoundVersion
<1>16. ASSUME NEW d \in Dirs, NEW r, r = Recovered(os)
       PROVE  SoundVersion(d, r)'
  <2>1. SoundVersion(d, r) /\ d.files \in SUBSET File
    BY <1>1, <1>15, <1>16 DEF KnownDirs
  <2>2. HasTables(d, r)' /\ Finds(d, r)' /\ \A id : Keeps(d, r, id) => Keeps(d, r, id)'
    BY <1>11, <1>14, <2>1, StillSound DEF SoundVersion
  <2>3. /\ d.current < r.next /\ r.log \in 0..r.next - 1 /\ r.seq <= issued'
        /\ r.next <= Recovered(os').next /\ r.log <= Recovered(os').log
    BY <1>9, <1>16, <2>1 DEF Fulfils, SoundVersion
  <2> QED
    BY <2>1, <2>2, <2>3 DEF SoundVersion
<1>17. ASSUME NEW d \in Dirs
       PROVE  SoundDir(d)'
  <2>1. SoundDir(d)
    BY Sound
  <2>2. \A k \in Cuts(d)' : SoundVersion(d, At(d, k))'
    <3> SUFFICES ASSUME NEW k \in Cuts(d)', NEW v, v = At(d, k)'
                 PROVE  SoundVersion(d, v)'
      OBVIOUS
    <3>1. v = Recovered(os) \/ v = w
      BY <1>10
    <3> QED
      BY <1>15, <1>16, <3>1
  <2>3. \A i \in 1..Len(t) - 1 : ~t[i].torn
    BY <1>0, <1>6
  <2>4. \A n \in Numbers(d.files, "log") :
           n \in Numbers(os'.dir.files, "log") \/ n < Recovered(os').log
    <3> SUFFICES ASSUME NEW n \in Numbers(d.files, "log")
                 PROVE  n \in Numbers(os'.dir.files, "log") \/ n < Recovered(os').log
      OBVIOUS
    <3>1. n \in Numbers(os.dir.files, "log") \/ n < Recovered(os).log
      BY <2>1 DEF SoundDir
    <3>2. n \in Nat /\ w.log \in Int /\ Recovered(os).log \in Int /\ Recovered(os).log <= w.log
      BY <1>1, <1>12 DEF Fulfils, KnownDirs, Version
    <3> QED
      BY <1>4, <1>9, <3>1, <3>2
  <2> QED
    BY <1>7, <2>1, <2>2, <2>3, <2>4 DEF SoundDir
<1>18. SoundFiles'
  BY <1>4, <1>5, <1>17 DEF SoundFiles
<1>19. \A g \in os.dir.files : g # M => SameFile(os, os', g)
  BY <1>1, <1>4 DEF KnownDirs
<1>20. Edits(os.dir)' = Append(Edits(os.dir), e)
  BY <1>0, <1>2, <1>4 DEF Edits
<1> QED
  BY <1>0, <1>4, <1>9, <1>14, <1>18, <1>19, <1>20

-----------------------------------------------------------------------------
(* CURRENT that points to a new MANIFEST.                                  *)

LEMMA SetCurrent ==
    ASSUME IsOS(os), SoundFiles, os.dir.current # 0, os.dirs = {os.dir},
           NEW m \in Nat, m # 0, os' = SetCurrentFile(os, m), Manifest(m) \in os.dir.files,
           NEW s \in Seq(Edit), s = os.data[Manifest(m)], Kept(Manifest(m)) = Len(s),
           \A i \in 1..Len(s) - 1 : ~s[i].torn,
           NEW w \in Version, w = Versions(s)[Len(s)], m < w.next, Fulfils(w),
           acked' = acked, issued' = issued, left'.cuts = left.cuts
    PROVE  /\ IsOS(os') /\ os'.dir = [files |-> os.dir.files, current |-> m]
           /\ SoundFiles' /\ Recovered(os') = w /\ Records(os') = s
           /\ Reopened(os') = Reopened(os)
           /\ \A g \in os.dir.files : SameFile(os, os', g)
<1>1. KnownDirs /\ KnownHere /\ os.dir \in Dirs
  BY DirFiles, Here DEF KnownHere
<1>2. /\ IsOS(os') /\ os'.dir = [files |-> os.dir.files, current |-> m]
      /\ os'.dirs = {os'.dir, os.dir}
      /\ \A g : Named(os'.dirs, g) => SameFile(os, os', g)
  BY SettingCurrent
<1>3. PICK d, e : d = os.dir /\ e = os'.dir
  OBVIOUS
<1>4. e.files = d.files /\ e.current = m /\ e.files \in SUBSET File /\ d.current \in Nat
  BY <1>1, <1>2, <1>3 DEF KnownDirs
<1>5. (Lossy' <=> Lossy) /\ Dirs' \subseteq {d, e} /\ d \in Dirs
  BY <1>1, <1>2, <1>3 DEF Dirs, Lossy
<1>6. \A g \in d.files : SameFile(os, os', g) /\ Kept(g)' = Kept(g)
  <2>1. \A g \in d.files : SameFile(os, os', g)
    BY <1>2, <1>3 DEF Named
  <2> QED
    BY <1>5, <2>1 DEF SameFile, Kept
<1>7. Still(d) /\ Still(e)
  BY <1>4, <1>6 DEF Still, SameFile
<1>8. Records(os') = s /\ Recovered(os') = w
  <2>1. os'.data[Manifest(m)] = s /\ Manifest(m) \in os'.dir.files /\ os'.dir.current = m
    BY <1>2, <1>3, <1>6 DEF SameFile
  <2>2. Records(os') = s
    BY <2>1 DEF Records
  <2> QED
    BY <2>2 DEF Recovered
<1>9. HasTables(d, w) /\ (\A id \in acked : Keeps(d, w, id)) /\ Holds(d, w) = Reopened(os)
  BY <1>3, <1>5 DEF Fulfils
<1>10. /\ \A n \in w.tables : TableData(os', n) = TableData(os, n) /\ TableData(os, n) = DataOf(n)
       /\ \A n \in LogsOf(d, w) : os'.data[Log(n)] = os.data[Log(n)]
  <2>1. \A n \in w.tables : TableOK(os, n) /\ TableData(os, n) = DataOf(n)
    BY <1>3, <1>9, WholeTable
  <2>2. \A n \in w.tables : TableData(os', n) = TableData(os, n)
    BY <1>2, <1>3, <1>6, <2>1 DEF TableOK, TableData, SameFile
  <2>3. \A n \in LogsOf(d, w) : os'.data[Log(n)] = os.data[Log(n)]
    BY <1>1, <1>5, <1>6 DEF LogsOf, KnownDirs, SameFile
  <2> QED
    BY <2>1, <2>2, <2>3
<1>11. Reopened(os') = Reopened(os)
  <2>1. Readable(os') /\ os'.dir.current # 0
    <3>1. w.next > 0 /\ w.log >= 0
      BY DEF Fulfils
    <3> QED
      BY <1>2, <1>8, <3>1 DEF Readable
  <2>2. LiveLogs(os') = LogsOf(d, w)
    BY <1>2, <1>3, <1>4, <1>8 DEF LiveLogs, LogsOf
  <2>3. InTables(os', w.tables) = InTables(os, w.tables)
    BY <1>10 DEF InTables
  <2>4. InLogs(os', LogsOf(d, w)) = InLogs(os, LogsOf(d, w))
    BY <1>10 DEF InLogs
  <2>5. Reopened(os') = Holds(d, w)
    BY <1>8, <2>1, <2>2, <2>3, <2>4 DEF Reopened, Holds
  <2> QED
    BY <1>9, <2>5
<1>12. Finds(d, w)
  <2>1. \A n \in w.tables : DataOf(n) \subseteq Reopened(os)
    BY <1>9, <1>10, InFiles DEF Holds
  <2>2. \A n \in LogsOf(d, w) : ToSet(os.data[Log(n)]) \subseteq Reopened(os)
    BY <1>9, InFiles DEF Holds
  <2> QED
    BY <2>1, <2>2 DEF Finds
<1>13. HasTables(e, w) /\ Finds(e, w) /\ \A id \in acked : Keeps(e, w, id)
  <2>1. LogsOf(e, w) = LogsOf(d, w) /\ e.files = d.files
    BY <1>4 DEF LogsOf
  <2>2. HasTables(e, w)
    BY <1>9, <2>1 DEF HasTables
  <2>3. Finds(e, w)
    BY <1>12, <2>1 DEF Finds
  <2>4. \A id \in acked : Keeps(e, w, id)
    BY <1>9, <2>1 DEF Keeps
  <2> QED
    BY <2>2, <2>3, <2>4
<1>14. SoundVersion(e, w)'
  <2>1. HasTables(e, w)' /\ Finds(e, w)' /\ \A id : Keeps(e, w, id) => Keeps(e, w, id)'
    BY <1>4, <1>7, <1>11, <1>13, StillSound
  <2>2. /\ e.current < w.next /\ w.log \in 0..w.next - 1 /\ w.seq <= issued'
        /\ w.next <= Recovered(os').next /\ w.log <= Recovered(os').log
    BY <1>4, <1>8 DEF Fulfils
  <2> QED
    BY <1>13, <2>1, <2>2 DEF SoundVersion
<1>15. SoundDir(e)'
  <2>1. Edits(e)' = s
    BY <1>3, <1>4, <1>6 DEF Edits, SameFile
  <2>2. Kept(Manifest(e.current))' = Len(s) /\ Len(s) \in Nat
    BY <1>3, <1>4, <1>6
  <2>3. Cuts(e)' = {Len(s)}
    BY <2>1, <2>2 DEF Cuts
  <2>4. At(e, Len(s))' = w
    BY <2>1 DEF At
  <2>5. \A k \in Cuts(e)' : SoundVersion(e, At(e, k))'
    <3> SUFFICES ASSUME NEW k \in Cuts(e)', NEW v, v = At(e, k)'
                 PROVE  SoundVersion(e, v)'
      OBVIOUS
    <3>1. v = w
      BY <2>3, <2>4
    <3> QED
      BY <1>14, <3>1
  <2>6. e.current # 0 /\ Manifest(e.current) \in e.files
    BY <1>3, <1>4
  <2>7. \A n \in Numbers(e.files, "log") :
           n \in Numbers(os'.dir.files, "log") \/ n < Recovered(os').log
    BY <1>3
  <2> QED
    BY <2>1, <2>5, <2>6, <2>7 DEF SoundDir
<1>16. SoundDir(d)'
  <2>1. SoundDir(d) /\ d.current < Recovered(os).next /\ Edits(d) \in Seq(Edit)
    BY <1>5, Sound
  <2>2. Edits(d)' = Edits(d) /\ Kept(Manifest(d.current))' = Kept(Manifest(d.current))
    BY <1>6, <2>1 DEF Edits, SameFile, SoundDir
  <2>3. Cuts(d)' = Cuts(d)
    BY <2>2 DEF Cuts
  <2>4. ASSUME NEW k \in Cuts(d), NEW v, v = At(d, k)
        PROVE  SoundVersion(d, v)'
    <3>1. SoundVersion(d, v)
      BY <2>1, <2>4 DEF SoundDir
    <3>2. HasTables(d, v)' /\ Finds(d, v)' /\ \A id : Keeps(d, v, id) => Keeps(d, v, id)'
      BY <1>4, <1>7, <1>11, <3>1, StillSound DEF SoundVersion
    <3>3. v \in Version
      BY <1>5, <2>4, Sound
    <3>4. Recovered(os) \in Version
      BY <1>1 DEF KnownHere
    <3>5. v.next <= Recovered(os').next /\ v.log <= Recovered(os').log
      <4>1. v.next <= Recovered(os).next /\ v.log <= Recovered(os).log
        BY <3>1 DEF SoundVersion
      <4>2. Recovered(os).next <= w.next /\ Recovered(os).log <= w.log
        BY DEF Fulfils
      <4>3. v.next \in Nat /\ v.log \in Int /\ w.next \in Nat /\ w.log \in Int
        BY <3>3 DEF Version
      <4>4. Recovered(os).next \in Nat /\ Recovered(os).log \in Int
        BY <3>4 DEF Version
      <4>5. v.next <= w.next /\ v.log <= w.log
        BY <4>1, <4>2, <4>3, <4>4
      <4> QED
        BY <1>8, <4>5
    <3> QED
      BY <3>1, <3>2, <3>5 DEF SoundVersion
  <2>5. \A k \in Cuts(d)' : SoundVersion(d, At(d, k))'
    <3> SUFFICES ASSUME NEW k \in Cuts(d)', NEW v, v = At(d, k)'
                 PROVE  SoundVersion(d, v)'
      OBVIOUS
    <3>1. v = At(d, k)
      BY <2>2 DEF At
    <3> QED
      BY <2>3, <2>4, <3>1
  <2>6. \A n \in Numbers(d.files, "log") :
           n \in Numbers(os'.dir.files, "log") \/ n < Recovered(os').log
    BY <1>3, <1>4
  <2> QED
    BY <2>1, <2>2, <2>5, <2>6 DEF SoundDir
<1>17. SoundFiles'
  <2>1. os'.dir.current # 0
    BY <1>2
  <2>2. \A x \in Dirs' : SoundDir(x)'
    BY <1>5, <1>15, <1>16
  <2> QED
    BY <2>1, <2>2 DEF SoundFiles
<1> QED
  BY <1>2, <1>3, <1>6, <1>8, <1>11, <1>17

-----------------------------------------------------------------------------
(* A power cut.                                                            *)

\* What is left of a file: as much as was synced, and perhaps more.
Remains(f) ==
    /\ Len(os'.data[f]) \in os.synced[f]..Len(os.data[f])
    /\ os'.synced[f] = Len(os'.data[f])
    /\ \A i \in 1..Len(os'.data[f]) : os'.data[f][i] = os.data[f][i]

LEMMA Shorter ==
    ASSUME NEW S, NEW s \in Seq(S), NEW n \in 0..Len(s), NEW t, t = SubSeq(s, 1, n)
    PROVE  t \in Seq(S) /\ Len(t) = n /\ \A i \in 1..n : t[i] = s[i]
OBVIOUS

CutAs(d, unsynced, cut, remains, synced) ==
    /\ \A f \in unsynced : cut[f] \in os.synced[f]..Len(os.data[f])
    /\ \A f \in d.files : f \notin unsynced => os.synced[f] >= Len(os.data[f])
    /\ remains = [f \in DOMAIN remains |-> remains[f]] /\ DOMAIN remains = d.files
    /\ \A f \in d.files : remains[f] = IF f \in unsynced THEN SubSeq(os.data[f], 1, cut[f])
                                      ELSE os.data[f]
    /\ synced = [f \in DOMAIN synced |-> synced[f]] /\ DOMAIN synced = d.files
    /\ \A f \in d.files : synced[f] = Len(remains[f])
    /\ os' = [dir |-> d, dirs |-> {d}, data |-> remains, synced |-> synced]

WasCut(d) ==
    IsOS(os') /\ os'.dir = d /\ os'.dirs = {d} /\ \A f \in d.files : Remains(f)

LEMMA CutFiles ==
    ASSUME IsOS(os), NEW d \in os.dirs, NEW unsynced, NEW cut, NEW remains, NEW synced,
           CutAs(d, unsynced, cut, remains, synced)
    PROVE  WasCut(d)
<1>1. /\ \A f \in unsynced : cut[f] \in os.synced[f]..Len(os.data[f])
      /\ \A f \in d.files : f \notin unsynced => os.synced[f] >= Len(os.data[f])
      /\ remains = [f \in DOMAIN remains |-> remains[f]] /\ DOMAIN remains = d.files
      /\ \A f \in d.files : remains[f] = IF f \in unsynced THEN SubSeq(os.data[f], 1, cut[f])
                                        ELSE os.data[f]
      /\ synced = [f \in DOMAIN synced |-> synced[f]] /\ DOMAIN synced = d.files
      /\ \A f \in d.files : synced[f] = Len(remains[f])
      /\ os' = [dir |-> d, dirs |-> {d}, data |-> remains, synced |-> synced]
  BY DEF CutAs
<1>2. ASSUME NEW f \in d.files
      PROVE  /\ Len(remains[f]) \in os.synced[f]..Len(os.data[f])
             /\ Len(remains[f]) \in Nat
             /\ \A i \in 1..Len(remains[f]) : remains[f][i] = os.data[f][i]
             /\ f[1] = "log" => remains[f] \in Seq(Update)
             /\ f[1] = "table" => remains[f] \in Seq(SUBSET Update)
             /\ f[1] = "manifest" => remains[f] \in Seq(Edit)
  <2>1. /\ os.synced[f] \in 0..Len(os.data[f]) /\ Len(os.data[f]) \in Nat /\ f \in File
        /\ f[1] = "log" => os.data[f] \in Seq(Update)
        /\ f[1] = "table" => os.data[f] \in Seq(SUBSET Update)
        /\ f[1] = "manifest" => os.data[f] \in Seq(Edit)
    BY FileExists DEF Named
  <2>2. f[1] \in {"log", "table", "manifest"}
    BY <2>1 DEF File
  <2>3. CASE f \in unsynced
    <3>1. cut[f] \in os.synced[f]..Len(os.data[f]) /\ cut[f] \in 0..Len(os.data[f])
      BY <1>1, <2>1, <2>3
    <3>2. remains[f] = SubSeq(os.data[f], 1, cut[f])
      BY <1>1, <2>3
    <3>3. ASSUME NEW S, os.data[f] \in Seq(S)
          PROVE  /\ remains[f] \in Seq(S) /\ Len(remains[f]) = cut[f]
                 /\ \A i \in 1..cut[f] : remains[f][i] = os.data[f][i]
      BY <3>1, <3>2, <3>3, Shorter
    <3>4. /\ Len(remains[f]) = cut[f] /\ \A i \in 1..cut[f] : remains[f][i] = os.data[f][i]
      BY <2>1, <2>2, <3>3
    <3>5. /\ f[1] = "log" => remains[f] \in Seq(Update)
          /\ f[1] = "table" => remains[f] \in Seq(SUBSET Update)
          /\ f[1] = "manifest" => remains[f] \in Seq(Edit)
      BY <2>1, <3>3
    <3>6. cut[f] \in Nat
      BY <2>1, <3>1
    <3> QED
      BY <3>1, <3>4, <3>5, <3>6
  <2>4. CASE f \notin unsynced
    <3>1. remains[f] = os.data[f] /\ os.synced[f] >= Len(os.data[f])
      BY <1>1, <2>4
    <3>2. Len(os.data[f]) \in os.synced[f]..Len(os.data[f])
      BY <2>1, <3>1
    <3> QED
      BY <2>1, <3>1, <3>2
  <2> QED
    BY <2>3, <2>4
<1>3. /\ os'.dir = d /\ os'.dirs = {d} /\ os'.data = remains /\ DOMAIN remains = d.files
      /\ os'.synced = synced
  BY <1>1
<1>4. remains = [f \in DOMAIN remains |-> remains[f]]
  BY <1>1
<1>5. \A f \in d.files : os'.synced[f] = Len(remains[f])
  BY <1>1, <1>3
<1>6. IsOS(os')
  <2>1. os' = [dir |-> os'.dir, dirs |-> os'.dirs, data |-> os'.data, synced |-> os'.synced]
    BY <1>1, <1>3
  <2>2. d \in Dir /\ d.files \subseteq File
    BY DEF IsOS, Dir
  <2>3. os'.synced = [f \in DOMAIN os'.data |-> os'.synced[f]]
    BY <1>1, <1>3
  <2>4. ASSUME NEW f \in DOMAIN os'.data
        PROVE  os'.synced[f] \in 0..Len(os'.data[f])
    BY <1>2, <1>3, <1>5
  <2>5. ASSUME NEW f \in DOMAIN os'.data
        PROVE  /\ f[1] = "log" => os'.data[f] \in Seq(Update)
               /\ f[1] = "table" => os'.data[f] \in Seq(SUBSET Update)
               /\ f[1] = "manifest" => os'.data[f] \in Seq(Edit)
    BY <1>2, <1>3
  <2> QED
    BY <1>3, <1>4, <2>1, <2>2, <2>3, <2>4, <2>5 DEF IsOS
<1>7. \A f \in d.files : Remains(f)
  BY <1>2, <1>3, <1>5 DEF Remains
<1> QED
  BY <1>3, <1>6, <1>7 DEF WasCut

LEMMA Cutting ==
    ASSUME IsOS(os), PowerCut
    PROVE  \E d \in os.dirs : WasCut(d)
<1>1. PICK d \in os.dirs :
         LET unsynced == {f \in d.files : os.synced[f] < Len(os.data[f])}
             longest == Max({0} \cup {Len(os.data[f]) : f \in unsynced})
         IN  \E cut \in [unsynced -> 0..longest] :
               /\ \A f \in unsynced : cut[f] \in os.synced[f]..Len(os.data[f])
               /\ os' = LET remains == [f \in d.files |->
                                          IF f \in unsynced THEN SubSeq(os.data[f], 1, cut[f])
                                          ELSE os.data[f]]
                        IN  [dir |-> d, dirs |-> {d}, data |-> remains,
                             synced |-> [f \in d.files |-> Len(remains[f])]]
  BY DEF PowerCut
<1> DEFINE unsynced == {f \in d.files : os.synced[f] < Len(os.data[f])}
           longest == Max({0} \cup {Len(os.data[f]) : f \in unsynced})
<1>2. PICK cut \in [unsynced -> 0..longest] :
         /\ \A f \in unsynced : cut[f] \in os.synced[f]..Len(os.data[f])
         /\ os' = LET remains == [f \in d.files |->
                                    IF f \in unsynced THEN SubSeq(os.data[f], 1, cut[f])
                                    ELSE os.data[f]]
                  IN  [dir |-> d, dirs |-> {d}, data |-> remains,
                       synced |-> [f \in d.files |-> Len(remains[f])]]
  BY <1>1
<1> DEFINE remains == [f \in d.files |-> IF f \in unsynced THEN SubSeq(os.data[f], 1, cut[f])
                                         ELSE os.data[f]]
<1>3. os' = [dir |-> d, dirs |-> {d}, data |-> remains,
             synced |-> [f \in d.files |-> Len(remains[f])]]
  BY <1>2
<1>4. \A f \in d.files : f \notin unsynced => os.synced[f] >= Len(os.data[f])
  <2>1. \A f \in d.files : /\ Len(os.data[f]) \in Nat /\ os.synced[f] \in 0..Len(os.data[f])
    BY FileExists DEF Named
  <2> QED
    BY <2>1
<1>5. \A f \in unsynced : cut[f] \in os.synced[f]..Len(os.data[f])
  BY <1>2
<1> HIDE DEF longest, unsynced
<1>6. remains = [f \in d.files |-> IF f \in unsynced THEN SubSeq(os.data[f], 1, cut[f])
                                   ELSE os.data[f]]
  OBVIOUS
<1> HIDE DEF remains
<1>7. PICK u, r : u = unsynced /\ r = remains
  OBVIOUS
<1>8. /\ \A f \in u : cut[f] \in os.synced[f]..Len(os.data[f])
      /\ \A f \in d.files : f \notin u => os.synced[f] >= Len(os.data[f])
  BY <1>4, <1>5, <1>7
<1>9. /\ r = [f \in DOMAIN r |-> r[f]] /\ DOMAIN r = d.files
      /\ \A f \in d.files : r[f] = IF f \in u THEN SubSeq(os.data[f], 1, cut[f]) ELSE os.data[f]
  BY <1>6, <1>7
<1>10. PICK y : y = [f \in d.files |-> Len(r[f])]
  OBVIOUS
<1>12. /\ y = [f \in DOMAIN y |-> y[f]] /\ DOMAIN y = d.files
       /\ \A f \in d.files : y[f] = Len(r[f])
  BY <1>10
<1>13. os' = [dir |-> d, dirs |-> {d}, data |-> r, synced |-> y]
  BY <1>3, <1>7, <1>10
<1>14. CutAs(d, u, cut, r, y)
  BY <1>8, <1>9, <1>12, <1>13 DEF CutAs
<1> QED
  BY <1>14, CutFiles

\* The version that the remaining records of the MANIFEST say was sound already.
LEMMA CutIsSound ==
    ASSUME IsOS(os), SoundFiles, os.dir.current # 0, left.cuts > 0,
           acked' = acked, issued' = issued,
           NEW d \in os.dirs, WasCut(d), d.current # 0,
           d.current = 1 => Len(os'.data[Manifest(1)]) = Len(os.data[Manifest(1)])
    PROVE  SoundFiles' /\ Reopened(os') \subseteq Reopened(os)
<1>1. /\ IsOS(os') /\ os'.dir = d /\ os'.dirs = {d}
      /\ \A f \in d.files : Remains(f)
  BY DEF WasCut
<1>2. Lossy /\ d \in Dirs /\ Dirs' = {d} /\ acked' = acked /\ issued' = issued
  BY <1>1 DEF Lossy, Dirs
<1>3. KnownDirs /\ KnownHere /\ SoundDir(d) /\ Edits(d) \in Seq(Edit)
  BY <1>2, DirFiles, Here, Sound
<1>4. \A f \in d.files : /\ Kept(f)' = Len(os'.data[f])
                         /\ f # Manifest(1) => Kept(f) = os.synced[f]
  BY <1>1, <1>2 DEF Kept, Remains
<1>5. PICK t, k : t = os'.data[Manifest(d.current)] /\ k = Len(t)
  OBVIOUS
<1>6. Manifest(d.current) \in d.files /\ d.current # 0 /\ d.files \in SUBSET File
  BY <1>2, <1>3 DEF SoundDir, KnownDirs
<1>7. t \in Seq(Edit) /\ Edits(d)' = t
  <2>1. Named(os'.dirs, Manifest(d.current))
    BY <1>1, <1>6 DEF Named
  <2> QED
    BY <1>1, <1>5, <2>1, FileExists, Names DEF Edits
<1>8. k \in Cuts(d) /\ k \in Nat /\ k <= Len(Edits(d)) /\ \A i \in 1..k : t[i] = Edits(d)[i]
  <2>1. Remains(Manifest(d.current))
    BY <1>1, <1>6
  <2>2. k \in Nat
    BY <1>5, <1>7
  <2>3. k \in Kept(Manifest(d.current))..Len(Edits(d))
    <3>1. CASE d.current = 1
      <4>1. k = Len(Edits(d)) /\ Kept(Manifest(d.current)) \in 0..Len(Edits(d))
        BY <1>2, <1>3, <1>5, <1>6, <3>1 DEF Edits, KnownDirs
      <4> QED
        BY <2>2, <4>1
    <3>2. CASE d.current # 1
      <4>1. Manifest(d.current) # Manifest(1)
        BY <3>2, Names
      <4>2. Kept(Manifest(d.current)) = os.synced[Manifest(d.current)]
        BY <1>4, <1>6, <4>1
      <4> QED
        BY <1>5, <2>1, <4>2 DEF Remains, Edits
    <3> QED
      BY <3>1, <3>2
  <2>4. \A i \in 1..k : t[i] = Edits(d)[i]
    BY <1>5, <2>1 DEF Remains, Edits
  <2>5. Len(Edits(d)) \in Nat
    BY <1>3
  <2> QED
    BY <2>2, <2>3, <2>4, <2>5 DEF Cuts
<1>9. PICK v : v = Versions(t)[k]
  OBVIOUS
<1>10. v = At(d, k) /\ v \in Version
  <2>1. \A i \in 0..k : Versions(t)[i] = Versions(Edits(d))[i]
    <3>1. k <= Len(t)
      BY <1>5, <1>8
    <3> QED
      BY <1>3, <1>7, <1>8, <3>1, SamePrefix
  <2>2. k \in 0..k
    BY <1>8
  <2>3. v = At(d, k)
    BY <1>9, <2>1, <2>2 DEF At
  <2> QED
    BY <1>2, <1>8, <2>3, Sound
<1>11. SoundVersion(d, v)
  BY <1>3, <1>8, <1>10 DEF SoundDir
<1>12. Records(os') = t /\ Recovered(os') = v
  BY <1>1, <1>5, <1>6, <1>9 DEF Records, Recovered
<1>13. \A n \in v.tables : /\ Table(n) \in d.files /\ os'.data[Table(n)][1] = os.data[Table(n)][1]
                           /\ Len(os'.data[Table(n)]) = 1 /\ Kept(Table(n))' = 1
  <2> SUFFICES ASSUME NEW n \in v.tables
               PROVE  /\ Table(n) \in d.files /\ os'.data[Table(n)][1] = os.data[Table(n)][1]
                      /\ Len(os'.data[Table(n)]) = 1 /\ Kept(Table(n))' = 1
    OBVIOUS
  <2>1. Table(n) \in d.files /\ Len(os.data[Table(n)]) = 1 /\ Kept(Table(n)) = 1
    BY <1>11 DEF SoundVersion, HasTables, Whole
  <2>2. Remains(Table(n)) /\ os.synced[Table(n)] = 1 /\ Kept(Table(n))' = Len(os'.data[Table(n)])
    BY <1>1, <1>4, <2>1, Names
  <2>3. Len(os'.data[Table(n)]) = 1
    BY <2>1, <2>2 DEF Remains
  <2>4. os'.data[Table(n)][1] = os.data[Table(n)][1]
    BY <2>2, <2>3 DEF Remains
  <2> QED
    BY <2>1, <2>2, <2>3, <2>4
<1>14. HasTables(d, v)'
  BY <1>11, <1>13 DEF SoundVersion, HasTables, Whole, DataOf
<1>15. LogsOf(d, v)' = LogsOf(d, v) /\ \A n \in LogsOf(d, v) : Log(n) \in d.files
  BY <1>6, LogNumbers DEF LogsOf
<1>16. \A n \in LogsOf(d, v) : ToSet(os'.data[Log(n)]) \subseteq ToSet(os.data[Log(n)])
  <2> SUFFICES ASSUME NEW n \in LogsOf(d, v), NEW r \in ToSet(os'.data[Log(n)])
               PROVE  r \in ToSet(os.data[Log(n)])
    OBVIOUS
  <2>1. Remains(Log(n)) /\ os.data[Log(n)] \in Seq(Update) /\ Log(n) \in d.files
    BY <1>1, <1>2, <1>3, <1>15 DEF KnownDirs
  <2>2. os'.data[Log(n)] \in Seq(Update)
    <3>1. Named(os'.dirs, Log(n))
      BY <1>1, <2>1 DEF Named
    <3> QED
      BY <1>1, <3>1, FileExists, Names
  <2>3. PICK i \in 1..Len(os'.data[Log(n)]) : r = os'.data[Log(n)][i]
    <3> DEFINE x == os'.data[Log(n)]
    <3>1. r \in ToSet(x) /\ x \in Seq(Update)
      BY <2>2
    <3> HIDE DEF x
    <3>2. \E i \in 1..Len(x) : r = x[i]
      BY <3>1 DEF ToSet
    <3> QED
      BY <3>2 DEF x
  <2>4. i \in 1..Len(os.data[Log(n)]) /\ r = os.data[Log(n)][i]
    <3>1. Len(os'.data[Log(n)]) \in os.synced[Log(n)]..Len(os.data[Log(n)])
      BY <2>1 DEF Remains
    <3>2. os.synced[Log(n)] \in 0..Len(os.data[Log(n)]) /\ Len(os.data[Log(n)]) \in Nat
      BY <1>2, <1>3, <2>1 DEF KnownDirs
    <3>3. r = os.data[Log(n)][i]
      BY <2>1, <2>3 DEF Remains
    <3> QED
      BY <3>1, <3>2, <3>3
  <2> DEFINE y == os.data[Log(n)]
  <2>5. y \in Seq(Update) /\ i \in 1..Len(y) /\ r = y[i]
    BY <2>1, <2>4
  <2> HIDE DEF y
  <2>6. r \in ToSet(y)
    BY <2>5 DEF ToSet
  <2> QED
    BY <2>6 DEF y
<1>17. Readable(os')
  <2>1. \A i \in 1..Len(t) - 1 : ~t[i].torn
    <3>1. \A i \in 1..Len(t) - 1 : i \in 1..k /\ i \in 1..Len(Edits(d)) - 1
      BY <1>3, <1>5, <1>8
    <3>2. \A i \in 1..Len(Edits(d)) - 1 : ~Edits(d)[i].torn
      BY <1>3 DEF SoundDir
    <3> QED
      BY <1>8, <3>1, <3>2
  <2>2. v.next > 0 /\ v.log >= 0
    <3>1. d.current \in Nat /\ d.current < v.next /\ v.log \in 0..v.next - 1
      BY <1>2, <1>3, <1>11 DEF SoundVersion, KnownDirs
    <3> QED
      BY <1>10, <3>1 DEF Version
  <2> QED
    BY <1>12, <2>1, <2>2 DEF Readable
<1>18. LiveLogs(os') = LogsOf(d, v)
  BY <1>1, <1>12 DEF LiveLogs, LogsOf
<1>19. Reopened(os') = InTables(os', v.tables) \cup InLogs(os', LogsOf(d, v))
  BY <1>1, <1>6, <1>12, <1>17, <1>18 DEF Reopened
<1>20. Finds(d, v)'
  <2>1. HasTables(d, v)'
    BY <1>14
  <2>2. \A n \in v.tables : TableData(os', n) = os'.data[Table(n)][1]
    <3> SUFFICES ASSUME NEW n \in v.tables
                 PROVE  TableData(os', n) = os'.data[Table(n)][1]
      OBVIOUS
    <3>1. os'.data[Table(n)] # <<>>
      BY <1>13
    <3>2. TableOK(os', n)
      BY <1>1, <1>13, <3>1 DEF TableOK
    <3> QED
      BY <3>2 DEF TableData
  <2>3. \A n \in v.tables : DataOf(n)' \subseteq Reopened(os')
    BY <1>19, <2>2, InFiles DEF DataOf
  <2>4. \A n \in LogsOf(d, v) : ToSet(os'.data[Log(n)]) \subseteq Reopened(os')
    BY <1>19, InFiles
  <2> QED
    BY <1>15, <2>3, <2>4 DEF Finds
<1>21. Reopened(os') \subseteq Reopened(os)
  <2>1. ASSUME NEW r \in InTables(os', v.tables)
        PROVE  r \in Reopened(os)
    <3>1. PICK n \in v.tables : r \in TableData(os', n)
      BY InFiles
    <3>2. r \in os'.data[Table(n)][1]
      BY <3>1 DEF TableData
    <3>3. r \in DataOf(n)
      BY <1>13, <3>2 DEF DataOf
    <3> QED
      BY <1>11, <3>3 DEF SoundVersion, Finds
  <2>2. ASSUME NEW r \in InLogs(os', LogsOf(d, v))
        PROVE  r \in Reopened(os)
    <3>1. PICK n \in LogsOf(d, v) : r \in ToSet(os'.data[Log(n)])
      BY InFiles
    <3> QED
      BY <1>11, <1>16, <3>1 DEF SoundVersion, Finds
  <2> QED
    BY <1>19, <2>1, <2>2
<1>22. ASSUME NEW id \in acked'
       PROVE  Keeps(d, v, id)'
  <2>1. Keeps(d, v, id)
    BY <1>2, <1>11 DEF SoundVersion
  <2>2. CASE \E n \in v.tables : \E r \in DataOf(n) : r.id = id
    <3>1. \A n \in v.tables : DataOf(n)' = DataOf(n)
      BY <1>13 DEF DataOf
    <3> QED
      BY <2>2, <3>1 DEF Keeps
  <2>3. CASE \E n \in LogsOf(d, v) : \E i \in 1..Kept(Log(n)) : os.data[Log(n)][i].id = id
    <3>0. PICK n \in LogsOf(d, v) : \E i \in 1..Kept(Log(n)) : os.data[Log(n)][i].id = id
      BY <2>3
    <3>1. PICK i \in 1..Kept(Log(n)) : os.data[Log(n)][i].id = id
      BY <3>0
    <3>2. /\ Log(n) \in d.files /\ Remains(Log(n)) /\ Kept(Log(n)) = os.synced[Log(n)]
          /\ Kept(Log(n))' = Len(os'.data[Log(n)])
      BY <1>1, <1>4, <1>15, Names
    <3>3. os.synced[Log(n)] \in 0..Len(os.data[Log(n)]) /\ Len(os.data[Log(n)]) \in Nat
      BY <1>2, <1>3, <3>2 DEF KnownDirs
    <3>4. i \in 1..Len(os'.data[Log(n)]) /\ i \in 1..Kept(Log(n))'
      BY <3>2, <3>3 DEF Remains
    <3>5. os'.data[Log(n)][i].id = id
      BY <3>1, <3>2, <3>4 DEF Remains
    <3>6. n \in LogsOf(d, v)'
      BY <1>15
    <3> QED
      BY <3>4, <3>5, <3>6 DEF Keeps
  <2> QED
    BY <2>1, <2>2, <2>3 DEF Keeps
<1>23. SoundVersion(d, v)'
  <2>1. /\ d.current < v.next /\ v.log \in 0..v.next - 1 /\ v.seq <= issued'
    BY <1>2, <1>11 DEF SoundVersion
  <2>2. v.next <= v.next /\ v.log <= v.log
    BY <1>10 DEF Version
  <2> QED
    BY <1>12, <1>14, <1>20, <1>22, <2>1, <2>2 DEF SoundVersion
<1>24. SoundDir(d)'
  <2>1. Cuts(d)' = {k}
    <3>1. Kept(Manifest(d.current))' = k
      BY <1>4, <1>5, <1>6
    <3> QED
      BY <1>5, <1>7, <1>8, <3>1 DEF Cuts
  <2>2. At(d, k)' = v
    BY <1>7, <1>9 DEF At
  <2>3. \A j \in Cuts(d)' : SoundVersion(d, At(d, j))'
    <3> SUFFICES ASSUME NEW j \in Cuts(d)', NEW x, x = At(d, j)'
                 PROVE  SoundVersion(d, x)'
      OBVIOUS
    <3> QED
      BY <1>23, <2>1, <2>2
  <2>4. \A i \in 1..Len(t) - 1 : ~t[i].torn
    BY <1>12, <1>17 DEF Readable
  <2>5. \A n \in Numbers(d.files, "log") :
           n \in Numbers(os'.dir.files, "log") \/ n < Recovered(os').log
    BY <1>1
  <2> QED
    BY <1>6, <1>7, <2>3, <2>4, <2>5 DEF SoundDir
<1>25. SoundFiles'
  <2>1. os'.dir.current # 0
    BY <1>1, <1>6
  <2> QED
    BY <1>2, <1>24, <2>1 DEF SoundFiles
<1> QED
  BY <1>21, <1>25

-----------------------------------------------------------------------------
(* What every step leaves alone.                                           *)

Spends(what) ==
    /\ left' \in [Occasions -> Nat]
    /\ \A o \in Occasions : left'[o] <= left[o] /\ (o # what => left'[o] = left[o])

LEMMA Budgeted ==
    ASSUME Counted, NEW what, (what \in Occasions /\ Spend(what)) \/ left' = left
    PROVE  Spends(what)
<1>1. left \in [Occasions -> Nat]
  BY DEF Counted
<1>2. CASE what \in Occasions /\ Spend(what)
  <2>1. left' = [left EXCEPT ![what] = @ - 1] /\ left[what] > 0 /\ left[what] \in Nat
    BY <1>1, <1>2 DEF Spend
  <2>2. left[what] - 1 \in Nat
    BY <2>1
  <2>3. left' \in [Occasions -> Nat]
    BY <1>1, <2>1, <2>2
  <2>4. \A o \in Occasions : left'[o] = IF o = what THEN left[what] - 1 ELSE left[o]
    BY <1>1, <2>1
  <2> QED
    BY <1>1, <2>1, <2>3, <2>4 DEF Spends
<1>3. CASE left' = left
  BY <1>1, <1>3 DEF Spends
<1> QED
  BY <1>2, <1>3

\* A step that writes nothing and loses nothing.
Calm(what) == Spends(what) /\ what \notin {"cuts", "writes"} /\ issued' = issued /\ acked' = acked

LEMMA Calmly ==
    ASSUME NEW what, Calm(what)
    PROVE  /\ left'.cuts = left.cuts /\ (Lossy' <=> Lossy) /\ left'.writes = left.writes
           /\ left' \in [Occasions -> Nat]
BY DEF Calm, Spends, Lossy, Occasions

LEMMA StillCounted ==
    ASSUME Counted, NEW what, Calm(what), Reopened(os') \subseteq Reopened(os)
    PROVE  Counted'
<1>1. left' \in [Occasions -> Nat] /\ left'.writes = left.writes /\ issued' = issued /\ acked' = acked
  BY Calmly DEF Calm
<1> QED
  BY <1>1 DEF Counted

\* A process that has no memtable, no merge and no error.
LEMMA ApartAfresh ==
    ASSUME Apart, left \in [Occasions -> Nat], NEW what, Spends(what),
           ~db'.bg_error, ~db'.has_imm, db'.flush = 0, db'.merge = NoMerge
    PROVE  Apart'
<1>1. /\ left.failures \in Nat /\ left.switches \in Nat /\ left.merges \in Nat
      /\ left'.failures \in Nat /\ left'.switches \in Nat /\ left'.merges \in Nat
      /\ left'.failures <= left.failures /\ left'.switches <= left.switches
      /\ left'.merges <= left.merges
  BY DEF Spends, Occasions
<1> QED
  BY <1>1 DEF Apart

LEMMA ApartAsBefore ==
    ASSUME Apart, left \in [Occasions -> Nat], NEW what, Spends(what),
           db'.bg_error = db.bg_error, db'.has_imm = db.has_imm, db'.flush = db.flush,
           db'.merge = db.merge
    PROVE  Apart'
<1>1. /\ left.failures \in Nat /\ left.switches \in Nat /\ left.merges \in Nat
      /\ left'.failures \in Nat /\ left'.switches \in Nat /\ left'.merges \in Nat
      /\ left'.failures <= left.failures /\ left'.switches <= left.switches
      /\ left'.merges <= left.merges
  BY DEF Spends, Occasions
<1> QED
  BY <1>1 DEF Apart

\* The files that a step does not touch.
LEMMA Others ==
    ASSUME IsOS(os), NEW f, Touched(os, os', f), Lossy' <=> Lossy
    PROVE  /\ IsOS(os') /\ os'.dir.current = os.dir.current
           /\ \A g \in os.dir.files : g # f => g \in os'.dir.files
           /\ \A g \in os'.dir.files : g # f => g \in os.dir.files
           /\ \A g \in os.dir.files : g # f => os'.data[g] = os.data[g] /\ Kept(g)' = Kept(g)
<1>1. IsOS(os') /\ Nearly(os'.dir, os.dir, f) /\ os'.dir \in os'.dirs
  BY DEF Touched, IsOS
<1>2. ASSUME NEW g \in os.dir.files, g # f
      PROVE  os'.data[g] = os.data[g] /\ os'.synced[g] = os.synced[g]
  <2>1. Named(os'.dirs, g)
    BY <1>1, <1>2 DEF Named, Nearly
  <2> QED
    BY <1>2, <2>1 DEF Touched, SameFile
<1> QED
  BY <1>1, <1>2 DEF Nearly, Kept

\* A step that leaves the files alone.
LEMMA Unmoved ==
    ASSUME IsOS(os), SoundFiles, os' = os, NEW what, Calm(what)
    PROVE  IsOS(os') /\ SoundFiles' /\ Dirs' = Dirs /\ \A f : Kept(f)' = Kept(f)
<1>1. (Lossy' <=> Lossy) /\ left'.cuts = left.cuts
  BY Calmly
<1>2. IsOS(os') /\ issued' = issued /\ acked' = acked
  BY DEF Calm
<1>3. ASSUME os.dir.current = 0
      PROVE  SoundFiles'
  BY <1>1, <1>2, <1>3 DEF SoundFiles
<1>4. ASSUME os.dir.current # 0
      PROVE  SoundFiles'
  <2>1. PICK f : f = Manifest(Recovered(os).next)
    OBVIOUS
  <2>2. Recovered(os) \in Version
    BY <1>4, Here DEF KnownHere
  <2>3. Spare(f)
    BY <2>1, <2>2 DEF Spare, Version
  <2>4. Touched(os, os', f)
    BY Untouched
  <2> QED
    BY <1>1, <1>2, <1>4, <2>3, <2>4, Harmless DEF Same
<1>5. Dirs' = Dirs
  BY <1>1 DEF Dirs
<1>6. \A f : Kept(f)' = Kept(f)
  BY <1>1 DEF Kept
<1> QED
  BY <1>2, <1>3, <1>4, <1>5, <1>6

\* What every step but Write and PowerCut keeps.
Fine == DBInv' /\ Reopened(os') = Reopened(os)

LEMMA DownIsProcess == Down \in Process
BY DEF Down, Process, NoMerge, NoEdit, NoApply, Edit

LEMMA FindDBIsFine == DBInv /\ FindDB => Fine
<1> SUFFICES ASSUME DBInv, FindDB
             PROVE  Fine
  OBVIOUS
<1>1. IsOS(os) /\ Counted /\ SoundFiles /\ Apart
  BY DEF DBInv
<1>2. /\ db' = [Down EXCEPT !.phase = "recover"] /\ os' = os /\ os.dir.current # 0
      /\ issued' = issued /\ acked' = acked /\ left' = left
  BY DEF FindDB, History
<1>3. Calm("none")
  BY <1>1, <1>2, Budgeted DEF Calm
<1>4. IsOS(os') /\ SoundFiles'
  BY <1>1, <1>2, <1>3, Unmoved
<1>5. db' \in Process
  BY <1>2, DownIsProcess DEF Process
<1>6. Counted'
  BY <1>1, <1>2, <1>3, StillCounted
<1>7. db'.phase = "recover" /\ db' = [Down EXCEPT !.phase = "recover"] /\ os'.dir.current # 0
  BY <1>2 DEF Down
<1>8. PhaseInv'
  BY <1>7 DEF PhaseInv
<1>9. Apart'
  BY <1>1, <1>2, <1>3, ApartAfresh DEF Calm, Down, Counted
<1> QED
  BY <1>2, <1>4, <1>5, <1>6, <1>8, <1>9 DEF Fine, DBInv

\* The process dies, and its files are as good as before.
LEMMA Dying ==
    ASSUME Apart, left \in [Occasions -> Nat], NEW what, Spends(what), db' = Down
    PROVE  db' \in Process /\ PhaseInv' /\ Apart'
<1>1. db'.phase = "down"
  BY DEF Down
<1>2. PhaseInv'
  BY <1>1 DEF PhaseInv
<1>3. Apart'
  BY ApartAfresh DEF Down
<1> QED
  BY <1>2, <1>3, DownIsProcess

LEMMA KillIsFine == DBInv /\ Kill => Fine
<1> SUFFICES ASSUME DBInv, Kill
             PROVE  Fine
  OBVIOUS
<1>1. IsOS(os) /\ Counted /\ SoundFiles /\ Apart
  BY DEF DBInv
<1>2. db' = Down /\ os' = os /\ issued' = issued /\ acked' = acked /\ Spend("kills")
  BY DEF Kill
<1>3. Calm("kills")
  BY <1>1, <1>2, Budgeted DEF Calm, Occasions
<1>4. IsOS(os') /\ SoundFiles'
  BY <1>1, <1>2, <1>3, Unmoved
<1>5. Counted'
  BY <1>1, <1>2, <1>3, StillCounted
<1>6. db' \in Process /\ PhaseInv' /\ Apart'
  BY <1>1, <1>2, <1>3, Dying DEF Calm, Counted
<1> QED
  BY <1>2, <1>4, <1>5, <1>6 DEF Fine, DBInv

LEMMA RecoverIsFine == DBInv /\ Recover => Fine
<1> SUFFICES ASSUME DBInv, Recover
             PROVE  Fine
  OBVIOUS
<1>1. IsOS(os) /\ Counted /\ SoundFiles /\ Apart /\ PhaseInv
  BY DEF DBInv
<1>2. /\ db.phase = "recover" /\ os' = os
      /\ issued' = issued /\ acked' = acked /\ left' = left
  BY DEF Recover, History
<1>3. db = [Down EXCEPT !.phase = "recover"] /\ os.dir.current # 0
  BY <1>1, <1>2 DEF PhaseInv
<1>4. KnownHere
  BY <1>1, <1>3, Here
<1>5. PICK r : r = Recovered(os)
  OBVIOUS
<1>6. /\ r \in Version /\ SoundVersion(os.dir, r) /\ Readable(os)
      /\ \A n \in r.tables : Table(n) \in os.dir.files
  BY <1>4, <1>5 DEF KnownHere, TableOK
<1>7. db' = [db EXCEPT !.phase = "replay", !.tables = r.tables, !.log_number = r.log,
                       !.seq = r.seq, !.manifest = r.next, !.next = r.next + 1,
                       !.replay = LiveLogs(os)]
  BY <1>5, <1>6 DEF Recover
<1>8. Calm("none")
  BY <1>1, <1>2, Budgeted DEF Calm
<1>9. IsOS(os') /\ SoundFiles'
  BY <1>1, <1>2, <1>8, Unmoved
<1>10. Counted'
  BY <1>1, <1>2, <1>8, StillCounted
<1>11. LiveLogs(os) \subseteq Nat
  BY <1>1, DirFiles, <1>4 DEF LiveLogs, KnownDirs, KnownHere
<1>12. r.tables \in SUBSET Nat /\ r.log \in Nat /\ r.next \in Nat /\ r.seq \in Nat
  <2>1. r.log \in 0..r.next - 1
    BY <1>6 DEF SoundVersion
  <2> QED
    BY <1>6, <2>1 DEF Version
<1>13. PICK a \in SUBSET Nat, b \in Nat, c \in Nat, n \in Nat, m \in Nat, f \in SUBSET Nat :
          a = r.tables /\ b = r.log /\ c = r.seq /\ n = r.next /\ m = r.next + 1 /\ f = LiveLogs(os)
  BY <1>11, <1>12
<1>14. /\ db' = [db EXCEPT !.phase = "replay", !.tables = a, !.log_number = b, !.seq = c,
                           !.manifest = n, !.next = m, !.replay = f]
       /\ db' \in Process
  <2>1. db' = [db EXCEPT !.phase = "replay", !.tables = a, !.log_number = b, !.seq = c,
                         !.manifest = n, !.next = m, !.replay = f]
    BY <1>7, <1>13
  <2>2. db \in Process
    BY DEF DBInv
  <2> QED
    BY <2>1, <2>2 DEF Process
<1>15. /\ db'.phase = "replay" /\ db'.tables = r.tables /\ db'.log_number = r.log /\ db'.seq = r.seq
       /\ db'.manifest = r.next /\ db'.next = r.next + 1 /\ db'.replay = LiveLogs(os)
       /\ db'.edit = NoEdit /\ db'.apply = NoApply /\ db'.outputs = {} /\ db'.flush = 0
       /\ db'.mem = {} /\ db'.imm = {} /\ ~db'.has_imm /\ ~db'.bg_error /\ db'.merge = NoMerge
       /\ db'.pinned = {} /\ db'.doomed = {}
  <2>1. /\ db.edit = NoEdit /\ db.apply = NoApply /\ db.outputs = {} /\ db.flush = 0
        /\ db.mem = {} /\ db.imm = {} /\ ~db.has_imm /\ ~db.bg_error /\ db.merge = NoMerge
        /\ db.pinned = {} /\ db.doomed = {}
    BY <1>3 DEF Down
  <2>2. db \in Process
    BY DEF DBInv
  <2>3. /\ db'.phase = "replay" /\ db'.tables = a /\ db'.log_number = b /\ db'.seq = c
        /\ db'.manifest = n /\ db'.next = m /\ db'.replay = f
        /\ db'.edit = db.edit /\ db'.apply = db.apply /\ db'.outputs = db.outputs
        /\ db'.flush = db.flush /\ db'.mem = db.mem /\ db'.imm = db.imm
        /\ db'.has_imm = db.has_imm /\ db'.bg_error = db.bg_error /\ db'.merge = db.merge
        /\ db'.pinned = db.pinned /\ db'.doomed = db.doomed
    BY <1>14, <2>2 DEF Process
  <2> QED
    BY <1>13, <2>1, <2>3
<1>16. Opens'
  <2>1. db'.edit = [NoEdit EXCEPT !.add = db'.edit.add]
    BY <1>15 DEF NoEdit
  <2>2. r.seq <= issued /\ r.next < r.next + 1
    BY <1>6, <1>12 DEF SoundVersion
  <2>3. Fresh'
    BY <1>15 DEF Fresh
  <2> QED
    BY <1>2, <1>3, <1>5, <1>12, <1>15, <2>1, <2>2, <2>3 DEF Opens
<1>17. Replaying'
  <2>1. db'.edit.add = {} /\ LiveLogs(os') \ db'.replay = {}
    BY <1>2, <1>15 DEF NoEdit
  <2>2. Replayed({}, {})'
    BY DEF Replayed, InTables, InLogs
  <2> QED
    BY <1>2, <1>15, <1>16, <2>1, <2>2 DEF Replaying
<1>18. PhaseInv'
  BY <1>15, <1>17 DEF PhaseInv
<1>19. Apart'
  BY <1>1, <1>8, <1>15, ApartAfresh DEF Calm, Counted
<1> QED
  BY <1>2, <1>9, <1>10, <1>14, <1>18, <1>19 DEF Fine, DBInv

LEMMA FirstElement ==
    ASSUME NEW S, NEW s \in Seq(S), Len(s) = 1
    PROVE  s[1] \in S
OBVIOUS

-----------------------------------------------------------------------------
(* Recovery: the logs become tables.                                       *)

LEMMA Largest ==
    ASSUME NEW m \in Nat, NEW S, S \subseteq 0..m, 0 \in S
    PROVE  \E x \in S : \A y \in S : y <= x
<1> DEFINE bounds == {k \in Nat : \A y \in S : y <= k}
<1>1. m \in bounds
  OBVIOUS
<1>2. PICK b \in bounds : \A c \in bounds : <<c, b>> \notin OpToRel(<, Nat)
  BY <1>1, NatLessThanWellFounded, WFMin
<1>3. b \in Nat /\ \A y \in S : y <= b
  BY <1>2
<1> SUFFICES ASSUME b \notin S
             PROVE  FALSE
  BY <1>3
<1>4. b # 0 /\ \A y \in S : y \in Nat /\ y # b
  OBVIOUS
<1>5. PICK c : c = b - 1
  OBVIOUS
<1>6. c \in Nat /\ c < b
  BY <1>3, <1>4, <1>5
<1>7. \A y \in S : y <= c
  BY <1>3, <1>4, <1>5
<1>8. c \in bounds
  BY <1>6, <1>7
<1>9. <<c, b>> \in OpToRel(<, Nat)
  BY <1>3, <1>6 DEF OpToRel
<1> QED
  BY <1>2, <1>8, <1>9

LEMMA MaxSeqIsMax ==
    ASSUME NEW records, NEW m \in Nat, \A r \in records : r.seq \in 0..m
    PROVE  MaxSeq(records) \in 0..m /\ \A r \in records : r.seq <= MaxSeq(records)
<1> DEFINE seqs == {0} \cup {r.seq : r \in records}
<1>1. seqs \subseteq 0..m /\ 0 \in seqs /\ \A r \in records : r.seq \in seqs
  OBVIOUS
<1>2. MaxSeq(records) = CHOOSE x \in seqs : \A y \in seqs : y <= x
  BY DEF MaxSeq
<1> HIDE DEF seqs
<1>3. \E x \in seqs : \A y \in seqs : y <= x
  BY <1>1, Largest
<1>4. MaxSeq(records) \in seqs /\ \A y \in seqs : y <= MaxSeq(records)
  BY <1>2, <1>3
<1> QED
  BY <1>1, <1>4

\* The files but f stay as they are.
Stay(f) ==
    \A g \in os.dir.files :
       g # f => g \in os'.dir.files /\ os'.data[g] = os.data[g] /\ Kept(g)' = Kept(g)

LEMMA TablesStay ==
    ASSUME NEW f, Stay(f), NEW S, \A n \in S : Table(n) \in os.dir.files /\ Table(n) # f
    PROVE  InTables(os', S) = InTables(os, S) /\ \A n \in S : TableData(os', n) = TableData(os, n)
<1>1. ASSUME NEW n \in S
      PROVE  TableData(os', n) = TableData(os, n)
  <2>1. /\ Table(n) \in os.dir.files /\ Table(n) \in os'.dir.files
        /\ os'.data[Table(n)] = os.data[Table(n)]
    BY DEF Stay
  <2>2. TableOK(os', n) <=> TableOK(os, n)
    BY <2>1 DEF TableOK
  <2> QED
    BY <2>1, <2>2 DEF TableData
<1>2. ASSUME NEW x
      PROVE  x \in InTables(os', S) <=> x \in InTables(os, S)
  <2>1. x \in InTables(os', S) <=> \E n \in S : x \in TableData(os', n)
    BY InFiles
  <2>2. x \in InTables(os, S) <=> \E n \in S : x \in TableData(os, n)
    BY InFiles
  <2> QED
    BY <1>1, <2>1, <2>2
<1> QED
  BY <1>1, <1>2

LEMMA LogsStay ==
    ASSUME NEW f, Stay(f), NEW S, \A n \in S : Log(n) \in os.dir.files /\ Log(n) # f
    PROVE  InLogs(os', S) = InLogs(os, S)
<1>1. \A n \in S : os'.data[Log(n)] = os.data[Log(n)]
  BY DEF Stay
<1>2. \A x : x \in InLogs(os', S) <=> x \in InLogs(os, S)
  BY <1>1, InFiles
<1> QED
  BY <1>2

LEMMA LiveLogsStay ==
    ASSUME IsOS(os), IsOS(os'), NEW f, f[1] # "log", Stay(f), Recovered(os') = Recovered(os),
           \A g \in os'.dir.files : g # f => g \in os.dir.files
    PROVE  LiveLogs(os') = LiveLogs(os)
<1>1. os.dir.files \in SUBSET File /\ os'.dir.files \in SUBSET File
  BY DEF IsOS, Dir
<1>2. \A n : Log(n) \in os'.dir.files <=> Log(n) \in os.dir.files
  BY Names DEF Stay
<1>3. Numbers(os'.dir.files, "log") = Numbers(os.dir.files, "log")
  BY <1>1, <1>2, LogNumbers
<1> QED
  BY <1>3 DEF LiveLogs

\* Tables of logs that were replayed stay what they are.
LEMMA ReplayedStays ==
    ASSUME NEW f, Stay(f), NEW T, NEW L, Replayed(T, L), Recovered(os') = Recovered(os),
           \A n \in T : Table(n) # f, \A n \in L : Log(n) \in os.dir.files /\ Log(n) # f,
           T \subseteq Nat, \A n \in T : \A r \in DataOf(n) : r.seq \in Nat,
           db.next \in Nat, db'.next \in Nat, db.seq \in Nat, db'.seq \in Nat,
           db.next <= db'.next, db.seq <= db'.seq
    PROVE  Replayed(T, L)'
<1>1. InTables(os', T) = InTables(os, T) /\ InLogs(os', L) = InLogs(os, L)
  BY TablesStay, LogsStay DEF Replayed
<1>2. ASSUME NEW n \in T
      PROVE  /\ Recovered(os').next < n /\ n < db'.next /\ Table(n) \in os'.dir.files /\ Whole(n)'
             /\ \A r \in DataOf(n)' : r.seq <= db'.seq
  <2>1. /\ Recovered(os).next < n /\ n < db.next /\ Table(n) \in os.dir.files /\ Whole(n)
        /\ \A r \in DataOf(n) : r.seq <= db.seq
    BY DEF Replayed
  <2>2. Table(n) \in os'.dir.files /\ Whole(n)' /\ DataOf(n)' = DataOf(n)
    BY <2>1 DEF Stay, Whole, DataOf
  <2>3. \A r \in DataOf(n) : r.seq <= db'.seq
    BY <2>1
  <2>4. n < db'.next
    BY <2>1
  <2> QED
    BY <2>1, <2>2, <2>3, <2>4
<1> QED
  BY <1>1, <1>2 DEF Replayed

LEMMA LiveLogFacts ==
    ASSUME IsOS(os), KnownDirs, KnownHere, Counted, NEW n \in LiveLogs(os)
    PROVE  /\ n \in Nat /\ Log(n) \in os.dir.files /\ os.data[Log(n)] \in Seq(Update)
           /\ ToSet(os.data[Log(n)]) \in SUBSET Update
           /\ ToSet(os.data[Log(n)]) \subseteq Reopened(os)
           /\ \A r \in ToSet(os.data[Log(n)]) : r.seq \in 0..issued
<1>1. n \in LogsOf(os.dir, Recovered(os)) /\ os.dir \in Dirs
  BY DEF KnownHere
<1>2. n \in Nat /\ Log(n) \in os.dir.files /\ os.data[Log(n)] \in Seq(Update)
  BY <1>1 DEF LogsOf, KnownDirs
<1>3. PICK s \in Seq(Update) : s = os.data[Log(n)]
  BY <1>2
<1>4. ToSet(s) \in SUBSET Update
  BY DEF ToSet
<1>5. ToSet(os.data[Log(n)]) \subseteq Reopened(os)
  BY <1>1 DEF KnownHere, SoundVersion, Finds
<1>6. \A r \in Reopened(os) : r.seq \in 0..issued
  BY DEF Counted
<1> QED
  BY <1>2, <1>3, <1>4, <1>5, <1>6

\* What RecoverLogFile does with a log, by the number of its table.
Recovers(x, records) ==
    os' = IF records = {} THEN os
          ELSE Sync(AddRecord(NewWritableFile(os, Table(x)), Table(x), records), Table(x))

LEMMA RecoversFile ==
    ASSUME IsOS(os), SoundFiles, os.dir.current # 0, NEW what, Calm(what),
           NEW x \in Nat, x >= Recovered(os).next, NEW records \in SUBSET Update,
           Recovers(x, records), FsyncLinks
    PROVE  /\ Same /\ IsOS(os') /\ os'.dir.current = os.dir.current
           /\ Stay(Table(x)) /\ LiveLogs(os') = LiveLogs(os)
           /\ records # {} => /\ Table(x) \in os'.dir.files /\ Whole(x)' /\ DataOf(x)' = records
                              /\ TableData(os', x) = records
<1>1. Touched(os, os', Table(x))
  BY Untouched, Building DEF Recovers
<1>2. records # {} => Made(os', x, records)
  BY Building DEF Recovers
<1>3. (Lossy' <=> Lossy) /\ left'.cuts = left.cuts
  BY Calmly
<1>4. issued' = issued /\ acked' = acked
  BY DEF Calm
<1>5. Spare(Table(x))
  BY DEF Spare
<1>6. Same
  BY <1>1, <1>3, <1>4, <1>5, Harmless
<1>7. /\ IsOS(os') /\ os'.dir.current = os.dir.current
      /\ \A g \in os'.dir.files : g # Table(x) => g \in os.dir.files
  BY <1>1, <1>3, Others
<1>8. Stay(Table(x))
  BY <1>1, <1>3, Others DEF Stay
<1>9. LiveLogs(os') = LiveLogs(os)
  BY <1>6, <1>7, <1>8, LiveLogsStay, Names DEF Same
<1>10. ASSUME records # {}
       PROVE  /\ Table(x) \in os'.dir.files /\ Whole(x)' /\ DataOf(x)' = records
              /\ TableData(os', x) = records
  <2>1. /\ Table(x) \in os'.dir.files /\ os'.data[Table(x)] = <<records>>
        /\ os'.synced[Table(x)] = 1
    BY <1>2, <1>10 DEF Made
  <2>2. Len(<<records>>) = 1 /\ <<records>>[1] = records /\ <<records>> # <<>>
    OBVIOUS
  <2>3. Whole(x)'
    BY <2>1, <2>2 DEF Whole, Kept
  <2>4. DataOf(x)' = records
    BY <2>1, <2>2 DEF DataOf
  <2>5. TableData(os', x) = records
    BY <2>1, <2>2 DEF TableData, TableOK
  <2> QED
    BY <2>1, <2>3, <2>4, <2>5
<1> QED
  BY <1>6, <1>7, <1>8, <1>9, <1>10

LEMMA RecoverLogFileIsFine ==
    ASSUME DBInv, RecoverLogFile, FsyncLinks
    PROVE  Fine
<1>1. IsOS(os) /\ db \in Process /\ Counted /\ SoundFiles /\ Apart /\ PhaseInv
  BY DEF DBInv
<1>2. /\ db.phase = "replay" /\ issued' = issued /\ acked' = acked /\ left' = left
  BY DEF RecoverLogFile, History
<1>3. Replaying /\ Opens /\ Fresh /\ os.dir.current # 0
  BY <1>1, <1>2 DEF PhaseInv, Replaying, Opens
<1>4. KnownDirs /\ KnownHere /\ Calm("none")
  BY <1>1, <1>2, <1>3, DirFiles, Here, Budgeted DEF Calm
<1>5. PICK n \in db.replay :
         LET records == ToSet(os.data[Log(n)])
             f == Table(db.next)
             used == IF records = {} THEN db.next ELSE db.next + 1
         IN  /\ \A m \in db.replay : n <= m
             /\ os' = IF records = {} THEN os
                      ELSE Sync(AddRecord(NewWritableFile(os, f), f, records), f)
             /\ db' = [db EXCEPT !.replay = @ \ {n},
                                 !.edit.add = IF records = {} THEN @ ELSE @ \cup {db.next},
                                 !.next = IF used <= n THEN n + 1 ELSE used,
                                 !.seq = LET m == MaxSeq(records) IN IF m > @ THEN m ELSE @]
  BY DEF RecoverLogFile
<1>6. PICK records, x, R, T : /\ records = ToSet(os.data[Log(n)]) /\ x = db.next
                              /\ R = Recovered(os) /\ T = db.edit.add
  OBVIOUS
<1>7. PICK used, next, seq, add, replay :
         /\ used = (IF records = {} THEN x ELSE x + 1)
         /\ next = (IF used <= n THEN n + 1 ELSE used)
         /\ seq = (IF MaxSeq(records) > db.seq THEN MaxSeq(records) ELSE db.seq)
         /\ add = (IF records = {} THEN T ELSE T \cup {x})
         /\ replay = db.replay \ {n}
  OBVIOUS
<1>8. Recovers(x, records)
  BY <1>5, <1>6 DEF Recovers
<1>9. db' = [db EXCEPT !.replay = replay, !.edit.add = add, !.next = next, !.seq = seq]
  BY <1>5, <1>6, <1>7
<1>10. /\ db.replay \subseteq LiveLogs(os) /\ x \in Nat /\ db.seq \in Nat /\ db.seq <= issued
       /\ issued \in Nat /\ T \subseteq Nat /\ R \in Version /\ R.next \in Nat /\ R.next < x
       /\ R.seq \in Nat /\ R.seq <= db.seq
  BY <1>1, <1>3, <1>4, <1>6 DEF Replaying, Opens, Process, Counted, Edit, KnownHere, Version
<1>11. /\ n \in Nat /\ Log(n) \in os.dir.files /\ records \in SUBSET Update
       /\ records \subseteq Reopened(os) /\ \A r \in records : r.seq \in 0..issued
  BY <1>1, <1>4, <1>6, <1>10, LiveLogFacts
<1>12. /\ MaxSeq(records) \in 0..issued /\ \A r \in records : r.seq <= MaxSeq(records)
  BY <1>10, <1>11, MaxSeqIsMax
<1>13. seq \in Nat /\ db.seq <= seq /\ seq <= issued /\ \A r \in records : r.seq <= seq
  <2>1. MaxSeq(records) \in Nat /\ MaxSeq(records) <= issued
    BY <1>10, <1>12
  <2>2. seq \in Nat /\ db.seq <= seq /\ seq <= issued /\ MaxSeq(records) <= seq
    BY <1>7, <1>10, <2>1
  <2> QED
    BY <1>11, <1>12, <2>1, <2>2
<1>14. /\ next \in Nat /\ x <= next /\ n < next /\ (records # {} => x < next)
  BY <1>7, <1>10, <1>11
<1>15. add \subseteq Nat /\ replay \subseteq db.replay /\ replay \subseteq Nat
  BY <1>1, <1>7, <1>10 DEF Process
<1>16. /\ Same /\ IsOS(os') /\ os'.dir.current = os.dir.current
       /\ Stay(Table(x)) /\ LiveLogs(os') = LiveLogs(os)
       /\ records # {} => /\ Table(x) \in os'.dir.files /\ Whole(x)' /\ DataOf(x)' = records
                          /\ TableData(os', x) = records
  BY <1>1, <1>3, <1>4, <1>6, <1>8, <1>10, <1>11, RecoversFile
<1>17. db' \in Process
  <2>1. db.edit \in Edit
    BY <1>1 DEF Process
  <2>2. PICK e : e = [db.edit EXCEPT !.add = add]
    OBVIOUS
  <2>3. e \in Edit
    BY <1>15, <2>1, <2>2 DEF Edit
  <2>4. db' = [db EXCEPT !.replay = replay, !.edit = e, !.next = next, !.seq = seq]
    BY <1>9, <2>2
  <2> QED
    BY <1>1, <1>13, <1>14, <1>15, <2>3, <2>4 DEF Process
<1>18. /\ db'.phase = "replay" /\ db'.replay = replay /\ db'.next = next /\ db'.seq = seq
       /\ db'.edit = [db.edit EXCEPT !.add = add] /\ db'.tables = db.tables
       /\ db'.log_number = db.log_number /\ db'.manifest = db.manifest /\ db'.apply = db.apply
       /\ db'.outputs = db.outputs /\ db'.flush = db.flush /\ db'.mem = db.mem
       /\ db'.imm = db.imm /\ db'.has_imm = db.has_imm /\ db'.bg_error = db.bg_error
       /\ db'.merge = db.merge /\ db'.pinned = db.pinned /\ db'.doomed = db.doomed
  BY <1>1, <1>2, <1>9 DEF Process
<1>19. Opens'
  <2>1. db'.edit = [NoEdit EXCEPT !.add = db'.edit.add]
    BY <1>3, <1>18 DEF Opens, NoEdit
  <2>2. db'.manifest < db'.next
    BY <1>3, <1>6, <1>10, <1>14, <1>18 DEF Opens
  <2>3. Fresh'
    BY <1>3, <1>18 DEF Fresh
  <2>4. Recovered(os)' = R /\ R.seq <= seq
    BY <1>6, <1>10, <1>13, <1>16 DEF Same
  <2> QED
    BY <1>2, <1>3, <1>6, <1>13, <1>16, <1>18, <2>1, <2>2, <2>3, <2>4 DEF Opens
<1>20. PICK done : done = LiveLogs(os) \ db.replay
  OBVIOUS
<1>21. LiveLogs(os') \ replay = done \cup {n} /\ \A m \in done : m < x
  BY <1>3, <1>6, <1>7, <1>10, <1>16, <1>20 DEF Replaying
<1>22. Replayed(T, done)'
  <2>1. Replayed(T, done)
    BY <1>3, <1>6, <1>20 DEF Replaying
  <2>2. \A m \in done : Log(m) \in os.dir.files /\ Log(m) # Table(x)
    BY <1>1, <1>4, <1>20, LiveLogFacts, Names
  <2>3. \A m \in T : m < x /\ Table(m) # Table(x)
    <3>1. \A m \in T : m < x
      BY <1>6, <2>1 DEF Replayed
    <3> QED
      BY <1>10, <3>1, Names
  <2>4. \A m \in T : \A r \in DataOf(m) : r.seq \in Nat
    <3> SUFFICES ASSUME NEW m \in T, NEW r \in DataOf(m)
                 PROVE  r.seq \in Nat
      OBVIOUS
    <3>1. Table(m) \in os.dir.files /\ Whole(m)
      BY <2>1 DEF Replayed
    <3>2. PICK s : s = os.data[Table(m)]
      OBVIOUS
    <3>3. s \in Seq(SUBSET Update) /\ Len(s) = 1
      BY <1>4, <3>1, <3>2 DEF KnownDirs, KnownHere, Whole
    <3>4. s[1] \in SUBSET Update
      BY <3>3, FirstElement
    <3> QED
      BY <3>2, <3>4 DEF DataOf, Update
  <2>5. Recovered(os') = Recovered(os)
    BY <1>16 DEF Same
  <2> QED
    BY <1>6, <1>10, <1>13, <1>14, <1>16, <1>18, <2>1, <2>2, <2>3, <2>4, <2>5, ReplayedStays
<1>23. Replayed(add, done \cup {n})'
  <2>1. os'.data[Log(n)] = os.data[Log(n)]
    BY <1>11, <1>16, Names DEF Stay
  <2>2. Recovered(os') = R
    BY <1>6, <1>16 DEF Same
  <2>3. CASE records = {}
    <3>1. add = T /\ ToSet(os'.data[Log(n)]) = {}
      BY <1>6, <1>7, <2>1, <2>3
    <3>2. Replayed(T, done)' => Replayed(T, done \cup {n})'
      BY <3>1 DEF Replayed, InLogs
    <3> QED
      BY <1>22, <3>1, <3>2
  <2>4. CASE records # {}
    <3>1. add = T \cup {x} /\ records = ToSet(os'.data[Log(n)])
      BY <1>6, <1>7, <2>1, <2>4
    <3>2. /\ TableData(os', x) = records /\ R.next < x /\ x < db'.next /\ Table(x) \in os'.dir.files
          /\ Whole(x)' /\ \A r \in DataOf(x)' : r.seq <= db'.seq
      BY <1>10, <1>13, <1>14, <1>16, <1>18, <2>4
    <3>3. InTables(os', T \cup {x}) = InLogs(os', done \cup {n})
      <4>1. ASSUME NEW r
            PROVE  r \in InTables(os', T \cup {x}) <=> r \in InLogs(os', done \cup {n})
        <5>1. r \in InTables(os', T \cup {x}) <=> r \in InTables(os', T) \/ r \in records
          BY <3>2 DEF InTables
        <5>2. r \in InLogs(os', done \cup {n}) <=> r \in InLogs(os', done) \/ r \in records
          BY <3>1 DEF InLogs
        <5> QED
          BY <1>22, <5>1, <5>2 DEF Replayed
      <4> QED
        BY <4>1
    <3> QED
      BY <1>22, <2>2, <3>1, <3>2, <3>3 DEF Replayed
  <2> QED
    BY <2>3, <2>4
<1>24. Replaying'
  <2>1. \A m \in done \cup {n} : m < next
    <3>1. \A m \in done : m \in Nat
      BY <1>1, <1>4, <1>20, LiveLogFacts
    <3> QED
      BY <1>10, <1>11, <1>14, <1>21, <3>1
  <2>2. db'.edit.add = add
    BY <1>1, <1>18 DEF Process, Edit
  <2>3. db'.replay \subseteq LiveLogs(os') /\ db'.apply = NoApply
    BY <1>3, <1>10, <1>15, <1>16, <1>18 DEF Replaying
  <2> QED
    BY <1>18, <1>19, <1>21, <1>23, <2>1, <2>2, <2>3 DEF Replaying
<1>25. PhaseInv'
  BY <1>18, <1>24 DEF PhaseInv
<1>26. Apart'
  BY <1>1, <1>4, <1>18, ApartAsBefore DEF Calm, Counted
<1>27. Counted' /\ Reopened(os') = Reopened(os)
  BY <1>1, <1>4, <1>16, StillCounted DEF Same
<1> QED
  BY <1>16, <1>17, <1>25, <1>26, <1>27 DEF Fine, DBInv, Same

LEMMA DataIsUpdates ==
    ASSUME KnownDirs, os.dir \in Dirs, NEW n, Table(n) \in os.dir.files, Len(os.data[Table(n)]) = 1
    PROVE  DataOf(n) \in SUBSET Update
<1>1. PICK s : s = os.data[Table(n)]
  OBVIOUS
<1>2. s \in Seq(SUBSET Update) /\ Len(s) = 1
  BY <1>1 DEF KnownDirs
<1>3. s[1] \in SUBSET Update
  BY <1>2, FirstElement
<1> QED
  BY <1>1, <1>3 DEF DataOf

\* A step that touches a file no version knows of.
LEMMA SpareStep ==
    ASSUME IsOS(os), SoundFiles, os.dir.current # 0, NEW what, Calm(what),
           NEW f, Touched(os, os', f), Spare(f)
    PROVE  /\ Same /\ IsOS(os') /\ os'.dir.current = os.dir.current /\ Stay(f)
           /\ \A g \in os'.dir.files : g # f => g \in os.dir.files
           /\ f[1] # "log" => LiveLogs(os') = LiveLogs(os)
<1>1. (Lossy' <=> Lossy) /\ left'.cuts = left.cuts
  BY Calmly
<1>2. issued' = issued /\ acked' = acked
  BY DEF Calm
<1>3. Same
  BY <1>1, <1>2, Harmless
<1>4. /\ IsOS(os') /\ os'.dir.current = os.dir.current
      /\ \A g \in os'.dir.files : g # f => g \in os.dir.files
  BY <1>1, Others
<1>5. Stay(f)
  BY <1>1, Others DEF Stay
<1>6. f[1] # "log" => LiveLogs(os') = LiveLogs(os)
  BY <1>3, <1>4, <1>5, LiveLogsStay DEF Same
<1> QED
  BY <1>3, <1>4, <1>5, <1>6

\* A log with a number above all others is new wherever a crash may lead.
LEMMA NewLog ==
    ASSUME IsOS(os), SoundFiles, os.dir.current # 0, NEW what, Calm(what),
           NEW x \in Nat, x >= Recovered(os).next, Log(x) \notin os.dir.files,
           os' = NewWritableFile(os, Log(x))
    PROVE  /\ Same /\ IsOS(os') /\ os'.dir.current = os.dir.current /\ Stay(Log(x))
           /\ os'.dir.files = os.dir.files \cup {Log(x)} /\ os'.data[Log(x)] = <<>>
           /\ os'.dirs = os.dirs \cup {os'.dir}
           /\ LiveLogs(os') = LiveLogs(os) \cup {x}
<1>1. KnownDirs /\ KnownHere
  BY DirFiles, Here
<1>2. /\ Touched(os, os', Log(x)) /\ os'.data[Log(x)] = <<>>
      /\ os'.dir.files = os.dir.files \cup {Log(x)} /\ os'.dirs = os.dirs \cup {os'.dir}
  <2>1. Log(x) \in File
    BY Names
  <2>2. /\ Touched(os, os', Log(x)) /\ os'.data[Log(x)] = <<>> /\ os'.dirs = os.dirs \cup {os'.dir}
        /\ os'.dir = [files |-> os.dir.files \cup {Log(x)}, current |-> os.dir.current]
    BY <2>1, Creating DEF Begun
  <2> QED
    BY <2>2
<1>3. Recovered(os).log < x /\ Recovered(os).log \in Nat
  <2>1. Recovered(os).log \in 0..Recovered(os).next - 1 /\ Recovered(os).next \in Nat
    BY <1>1 DEF KnownHere, SoundVersion, Version
  <2> QED
    BY <2>1
<1>4. ASSUME NEW d \in Dirs, Log(x) \in d.files
      PROVE  FALSE
  <2>1. SoundDir(d)
    BY <1>4, Sound
  <2>2. x \in Numbers(d.files, "log")
    BY <1>1, <1>4 DEF KnownDirs
  <2>3. x \in Numbers(os.dir.files, "log")
    BY <1>3, <2>1, <2>2 DEF SoundDir
  <2> QED
    BY <1>1, <2>3 DEF KnownDirs, KnownHere
<1>5. Spare(Log(x))
  BY <1>2, <1>4 DEF Spare
<1>6. /\ Same /\ IsOS(os') /\ os'.dir.current = os.dir.current /\ Stay(Log(x))
  BY <1>2, <1>5, SpareStep
<1>7. LiveLogs(os') = LiveLogs(os) \cup {x}
  <2>1. os.dir.files \in SUBSET File /\ os'.dir.files \in SUBSET File
    BY <1>6 DEF IsOS, Dir
  <2>2. \A n : Log(n) \in os'.dir.files <=> Log(n) \in os.dir.files \/ n = x
    BY <1>2, Names
  <2>3. Numbers(os'.dir.files, "log") = Numbers(os.dir.files, "log") \cup {x}
    BY <2>1, <2>2, LogNumbers
  <2>4. Recovered(os') = Recovered(os)
    BY <1>6 DEF Same
  <2> QED
    BY <1>3, <2>3, <2>4 DEF LiveLogs
<1> QED
  BY <1>2, <1>6, <1>7

LEMMA OpenNewLogIsFine == DBInv /\ OpenNewLog => Fine
<1> SUFFICES ASSUME DBInv, OpenNewLog
             PROVE  Fine
  OBVIOUS
<1>1. IsOS(os) /\ db \in Process /\ Counted /\ SoundFiles /\ Apart /\ PhaseInv
  BY DEF DBInv
<1>2. /\ db.phase = "replay" /\ db.replay = {} /\ issued' = issued /\ acked' = acked /\ left' = left
  BY DEF OpenNewLog, History
<1>3. Replaying /\ Opens /\ Fresh /\ os.dir.current # 0
  BY <1>1, <1>2 DEF PhaseInv, Replaying, Opens
<1>4. KnownDirs /\ KnownHere /\ Calm("none")
  BY <1>1, <1>2, <1>3, DirFiles, Here, Budgeted DEF Calm
<1>5. PICK x, R, T, y, e : /\ x = db.next /\ R = Recovered(os) /\ T = db.edit.add /\ y = x + 1
                           /\ e = [db.edit EXCEPT !.log = x]
  OBVIOUS
<1>6. os' = NewWritableFile(os, Log(x))
  BY <1>5 DEF OpenNewLog
<1>7. PICK a : a = [who |-> "open", step |-> "append", new |-> TRUE, edit |-> e]
  OBVIOUS
<1>8. db' = [db EXCEPT !.phase = "opening", !.log = x, !.next = y, !.apply = a]
  BY <1>5, <1>7 DEF OpenNewLog
<1>9. /\ x \in Nat /\ y \in Nat /\ y = x + 1 /\ R.next \in Nat /\ R.next < x /\ T \subseteq Nat
      /\ R.log \in 0..R.next - 1 /\ db.edit \in Edit /\ e \in Edit /\ a.edit = e /\ db.seq \in Nat
  <2>1. x \in Nat /\ y \in Nat /\ y = x + 1 /\ db.seq \in Nat /\ db.edit \in Edit
    BY <1>1, <1>5 DEF Process
  <2>2. R.next \in Nat /\ R.next < x /\ R.log \in 0..R.next - 1
    BY <1>3, <1>4, <1>5 DEF Opens, KnownHere, Version, SoundVersion
  <2>3. T \subseteq Nat /\ e \in Edit
    BY <1>5, <2>1 DEF Edit
  <2> QED
    BY <1>7, <2>1, <2>2, <2>3
<1>10. \A n \in LiveLogs(os) : n < x /\ n \in Nat /\ Log(n) \in os.dir.files
  BY <1>1, <1>2, <1>3, <1>4, <1>5, LiveLogFacts DEF Replaying
<1>11. \A n : Log(n) \in os.dir.files => n \in Nat /\ n < x
  <2> SUFFICES ASSUME NEW n, Log(n) \in os.dir.files
               PROVE  n \in Nat /\ n < x
    OBVIOUS
  <2>1. n \in Nat /\ n \in Numbers(os.dir.files, "log")
    BY <1>4 DEF KnownDirs, KnownHere
  <2>2. CASE n >= R.log
    BY <1>5, <1>10, <2>1, <2>2 DEF LiveLogs
  <2>3. CASE n < R.log
    BY <1>9, <2>1, <2>3
  <2> QED
    BY <1>9, <2>1, <2>2, <2>3
<1>12. /\ Same /\ IsOS(os') /\ os'.dir.current = os.dir.current /\ Stay(Log(x))
       /\ os'.dir.files = os.dir.files \cup {Log(x)} /\ os'.data[Log(x)] = <<>>
       /\ LiveLogs(os') = LiveLogs(os) \cup {x}
  <2>1. Log(x) \notin os.dir.files /\ x >= Recovered(os).next
    BY <1>5, <1>9, <1>11
  <2> QED
    BY <1>1, <1>3, <1>4, <1>6, <1>9, <2>1, NewLog
<1>13. db' \in Process
  BY <1>1, <1>7, <1>8, <1>9 DEF Process
<1>14. /\ db'.phase = "opening" /\ db'.replay = {} /\ db'.next = y /\ db'.seq = db.seq
       /\ db'.edit = db.edit /\ db'.tables = db.tables /\ db'.log = x
       /\ db'.log_number = db.log_number /\ db'.manifest = db.manifest /\ db'.apply = a
       /\ db'.outputs = db.outputs /\ db'.flush = db.flush /\ db'.mem = db.mem
       /\ db'.imm = db.imm /\ db'.has_imm = db.has_imm /\ db'.bg_error = db.bg_error
       /\ db'.merge = db.merge /\ db'.pinned = db.pinned /\ db'.doomed = db.doomed
  BY <1>1, <1>2, <1>8 DEF Process
<1>15. Recovered(os') = R /\ Reopened(os') = Reopened(os)
  BY <1>5, <1>12 DEF Same
<1>16. Opens'
  <2>1. db'.manifest < db'.next
    BY <1>3, <1>5, <1>9, <1>14 DEF Opens
  <2>2. Fresh'
    BY <1>3, <1>14 DEF Fresh
  <2> QED
    BY <1>2, <1>3, <1>5, <1>12, <1>14, <1>15, <2>1, <2>2 DEF Opens
<1>17. PICK L : L = LiveLogs(os)
  OBVIOUS
<1>18. Replayed(T, L)'
  <2>1. Replayed(T, L)
    BY <1>2, <1>3, <1>5, <1>17 DEF Replaying
  <2>2. \A n \in T : Table(n) # Log(x)
    BY Names
  <2>3. \A n \in L : Log(n) \in os.dir.files /\ Log(n) # Log(x)
    BY <1>9, <1>10, <1>17, Names
  <2>4. \A n \in T : \A r \in DataOf(n) : r.seq \in Nat
    <3> SUFFICES ASSUME NEW n \in T
                 PROVE  \A r \in DataOf(n) : r.seq \in Nat
      OBVIOUS
    <3>1. Table(n) \in os.dir.files /\ Len(os.data[Table(n)]) = 1
      BY <2>1 DEF Replayed, Whole
    <3>2. DataOf(n) \in SUBSET Update
      BY <1>4, <3>1, DataIsUpdates DEF KnownHere
    <3> QED
      BY <3>2 DEF Update
  <2>5. Recovered(os') = Recovered(os)
    BY <1>5, <1>15
  <2>6. db.next <= db'.next /\ db.seq <= db'.seq /\ db'.next \in Nat /\ db.next \in Nat
    BY <1>5, <1>9, <1>14
  <2> QED
    BY <1>9, <1>12, <1>14, <2>1, <2>2, <2>3, <2>4, <2>5, <2>6, ReplayedStays
<1>19. Replayed(T, L \cup {x})'
  <2>1. ToSet(os'.data[Log(x)]) = {}
    BY <1>12 DEF ToSet
  <2>2. InLogs(os', L \cup {x}) = InLogs(os', L)
    BY <2>1 DEF InLogs
  <2> QED
    BY <1>18, <2>2 DEF Replayed
<1>20. Opening'
  <2>1. db'.manifest < db'.log /\ db'.log < db'.next
    BY <1>3, <1>5, <1>9, <1>14 DEF Opens
  <2>2. \A n \in Numbers(os'.dir.files, "log") : n <= x
    <3>1. os'.dir.files \in SUBSET File
      BY <1>12 DEF IsOS, Dir
    <3>2. \A n : Log(n) \in os'.dir.files => n = x \/ Log(n) \in os.dir.files
      BY <1>12, Names
    <3> QED
      BY <1>9, <1>11, <3>1, <3>2, LogNumbers
  <2>3. /\ db'.apply.who = "open" /\ db'.apply.new /\ db'.apply.step = "append"
        /\ db'.apply.edit = [db'.edit EXCEPT !.log = db'.log]
    BY <1>5, <1>7, <1>14
  <2>4. Log(db'.log) \in os'.dir.files /\ os'.data[Log(db'.log)] = <<>>
    BY <1>12, <1>14
  <2>5. Replayed(db.edit.add, LiveLogs(os))'
    BY <1>5, <1>12, <1>14, <1>17, <1>19
  <2>6. Prepared'
    BY <1>14, <1>16, <2>1, <2>2, <2>4, <2>5 DEF Prepared
  <2> QED
    BY <1>14, <2>3, <2>6 DEF Opening
<1>21. PhaseInv'
  BY <1>14, <1>20 DEF PhaseInv
<1>22. Apart'
  BY <1>1, <1>4, <1>14, ApartAsBefore DEF Calm, Counted
<1>23. Counted'
  BY <1>1, <1>4, <1>15, StillCounted
<1> QED
  BY <1>12, <1>13, <1>15, <1>21, <1>22, <1>23 DEF Fine, DBInv, Same

-----------------------------------------------------------------------------
(* LogAndApply of Open.                                                    *)

LEMMA StillPrepared ==
    ASSUME IsOS(os), db \in Process, Counted, SoundFiles, Prepared, NEW what, Calm(what),
           NEW f, f[1] = "manifest", Touched(os, os', f), Same,
           NEW a, a \in [who : {"none", "open", "flush", "merge"},
                         step : {"none", "append", "sync", "current"}, edit : Edit, new : BOOLEAN],
           db' = [db EXCEPT !.apply = a]
    PROVE  Prepared' /\ db' \in Process /\ db'.apply = a /\ db'.phase = db.phase
<1>1. os.dir.current # 0 /\ Opens
  BY DEF Prepared, Opens
<1>2. KnownDirs /\ KnownHere
  BY <1>1, DirFiles, Here
<1>3. PICK T, L : T = db.edit.add /\ L = LiveLogs(os)
  OBVIOUS
<1>4. (Lossy' <=> Lossy) /\ issued' = issued
  BY Calmly DEF Calm
<1>5. /\ IsOS(os') /\ os'.dir.current = os.dir.current
      /\ \A g \in os'.dir.files : g # f => g \in os.dir.files
  BY <1>4, Others
<1>6. Stay(f)
  BY <1>4, Others DEF Stay
<1>7. LiveLogs(os') = LiveLogs(os)
  BY <1>5, <1>6, LiveLogsStay DEF Same
<1>8. db' \in Process
  BY DEF Process
<1>9. /\ db'.phase = db.phase /\ db'.replay = db.replay /\ db'.next = db.next /\ db'.seq = db.seq
      /\ db'.edit = db.edit /\ db'.tables = db.tables /\ db'.log = db.log
      /\ db'.log_number = db.log_number /\ db'.manifest = db.manifest /\ db'.apply = a
      /\ db'.outputs = db.outputs /\ db'.flush = db.flush /\ db'.mem = db.mem
      /\ db'.imm = db.imm /\ db'.has_imm = db.has_imm /\ db'.bg_error = db.bg_error
      /\ db'.merge = db.merge /\ db'.pinned = db.pinned /\ db'.doomed = db.doomed
  BY DEF Process
<1>10. Opens'
  <2>1. Fresh'
    BY <1>1, <1>9 DEF Opens, Fresh
  <2>2. Recovered(os') = Recovered(os)
    BY DEF Same
  <2> QED
    BY <1>1, <1>4, <1>5, <1>9, <2>1, <2>2 DEF Opens
<1>11. Log(db.log) \in os'.dir.files /\ os'.data[Log(db.log)] = <<>>
  BY <1>6, Names DEF Prepared, Stay
<1>12. \A n \in Numbers(os'.dir.files, "log") : n <= db.log
  <2>1. os.dir.files \in SUBSET File /\ os'.dir.files \in SUBSET File
    BY <1>5 DEF IsOS, Dir
  <2>2. \A n \in Numbers(os'.dir.files, "log") : n \in Numbers(os.dir.files, "log")
    BY <1>5, <2>1, LogNumbers, Names
  <2> QED
    BY <2>2 DEF Prepared
<1>13. Replayed(T, L)'
  <2>1. Replayed(T, L) /\ T \subseteq Nat
    BY <1>3 DEF Prepared, Process, Edit
  <2>2. \A n \in L : Log(n) \in os.dir.files /\ Log(n) # f
    BY <1>2, <1>3, LiveLogFacts, Names
  <2>3. \A n \in T : \A r \in DataOf(n) : r.seq \in Nat
    <3> SUFFICES ASSUME NEW n \in T
                 PROVE  \A r \in DataOf(n) : r.seq \in Nat
      OBVIOUS
    <3>1. Table(n) \in os.dir.files /\ Len(os.data[Table(n)]) = 1
      BY <2>1 DEF Replayed, Whole
    <3>2. DataOf(n) \in SUBSET Update
      BY <1>2, <3>1, DataIsUpdates DEF KnownHere
    <3> QED
      BY <3>2 DEF Update
  <2>4. /\ db.next <= db'.next /\ db.seq <= db'.seq /\ db'.next \in Nat /\ db.next \in Nat
        /\ db.seq \in Nat /\ db'.seq \in Nat
    BY <1>9 DEF Process
  <2>5. Recovered(os') = Recovered(os)
    BY DEF Same
  <2>6. \A n \in T : Table(n) # f
    BY Names
  <2> QED
    BY <1>6, <2>1, <2>2, <2>3, <2>4, <2>5, <2>6, ReplayedStays
<1>14. Replayed(db.edit.add, LiveLogs(os))'
  BY <1>3, <1>7, <1>9, <1>13
<1>15. Prepared'
  BY <1>9, <1>10, <1>11, <1>12, <1>14 DEF Prepared
<1> QED
  BY <1>8, <1>9, <1>15

\* The steps of LogAndApply, by what follows from their guards.
LEMMA OpeningFacts ==
    ASSUME DBInv, db.phase = "opening"
    PROVE  /\ IsOS(os) /\ db \in Process /\ Counted /\ SoundFiles /\ Apart
           /\ Opening /\ Prepared /\ Opens /\ Fresh /\ os.dir.current # 0
           /\ KnownDirs /\ KnownHere
<1>1. IsOS(os) /\ db \in Process /\ Counted /\ SoundFiles /\ Apart /\ Opening
  BY DEF DBInv, PhaseInv
<1>2. Prepared /\ Opens /\ Fresh /\ os.dir.current # 0
  BY <1>1 DEF Opening, Prepared, Opens
<1> QED
  BY <1>1, <1>2, DirFiles, Here

\* The number of the new MANIFEST.
LEMMA NewManifestIsSpare ==
    ASSUME KnownHere, Opens, NEW f, f = Manifest(db.manifest)
    PROVE  Spare(f) /\ f[1] = "manifest" /\ f \in File /\ db.manifest \in Nat
<1>1. db.manifest = Recovered(os).next /\ Recovered(os).next \in Nat
  BY DEF Opens, KnownHere, Version
<1> QED
  BY <1>1, Names DEF Spare

LEMMA TwoRecords ==
    ASSUME NEW a, NEW b
    PROVE  Append(Append(<<>>, a), b) = <<a, b>>
<1>1. PICK s, t, u : s = Append(<<>>, a) /\ t = Append(s, b) /\ u = <<a, b>>
  OBVIOUS
<1>2. s = <<a>>
  BY <1>1
<1>3. s \in Seq({a, b}) /\ Len(s) = 1 /\ s[1] = a
  BY <1>2
<1>4. t \in Seq({a, b}) /\ Len(t) = 2 /\ t[1] = a /\ t[2] = b
  BY <1>1, <1>3
<1>5. u \in Seq({a, b}) /\ Len(u) = 2 /\ u[1] = a /\ u[2] = b
  BY <1>1
<1>6. \A i \in 1..2 : i = 1 \/ i = 2
  OBVIOUS
<1>7. t = u
  BY <1>4, <1>5, <1>6, SeqEqual
<1> QED
  BY <1>1, <1>7

LEMMA AppendsNewManifest ==
    ASSUME DBInv, ApplyAppend, db.phase = "opening"
    PROVE  Fine
<1>1. /\ IsOS(os) /\ db \in Process /\ Counted /\ SoundFiles /\ Apart
      /\ Opening /\ Prepared /\ Opens /\ os.dir.current # 0 /\ KnownDirs /\ KnownHere
  BY OpeningFacts
<1>2. db.apply.step = "append" /\ issued' = issued /\ acked' = acked /\ left' = left
  BY DEF ApplyAppend, History
<1>3. Calm("none")
  BY <1>1, <1>2, Budgeted DEF Calm
<1>4. PICK f, snapshot, edit, a :
         /\ f = Manifest(db.manifest) /\ snapshot = [NoEdit EXCEPT !.add = db.tables]
         /\ edit = [db.edit EXCEPT !.log = db.log, !.next = db.next, !.seq = db.seq]
         /\ a = [db.apply EXCEPT !.step = "sync", !.edit = edit]
  OBVIOUS
<1>5. /\ db.edit \in Edit /\ db.log \in Nat /\ db.next \in Nat /\ db.seq \in Nat
      /\ db.tables \in SUBSET Nat /\ db.manifest \in Nat
  BY <1>1 DEF Process
<1>6. edit \in Edit /\ snapshot \in Edit
  <2>1. NoEdit \in Edit
    BY DEF Edit, NoEdit
  <2>2. edit \in Edit
    <3>1. PICK l \in Int, n \in Nat, s \in Nat : l = db.log /\ n = db.next /\ s = db.seq
      BY <1>5
    <3>2. edit = [db.edit EXCEPT !.log = l, !.next = n, !.seq = s]
      BY <1>4, <3>1
    <3> QED
      BY <1>5, <3>2 DEF Edit
  <2>3. snapshot \in Edit
    BY <1>4, <1>5, <2>1 DEF Edit
  <2> QED
    BY <2>2, <2>3
<1>7. [db.apply.edit EXCEPT !.next = db.next, !.seq = db.seq,
                            !.log = IF @ >= 0 THEN @ ELSE db.log_number] = edit
  <2>1. db.apply.edit = [db.edit EXCEPT !.log = db.log]
    BY <1>1, <1>2 DEF Opening
  <2>2. db.apply.edit.log = db.log /\ db.log >= 0
    BY <1>5, <2>1 DEF Edit
  <2>3. [db.apply.edit EXCEPT !.next = db.next, !.seq = db.seq, !.log = db.log] = edit
    BY <1>4, <1>5, <2>1 DEF Edit
  <2> QED
    BY <2>2, <2>3
<1>8. PICK o, p : o = NewWritableFile(os, f) /\ p = AddRecord(o, f, snapshot)
  OBVIOUS
<1>9. os' = AddRecord(p, f, edit) /\ db' = [db EXCEPT !.apply.step = "sync", !.apply.edit = edit]
  <2>1. db.apply.new
    BY <1>1 DEF Opening
  <2> QED
    BY <1>4, <1>7, <1>8, <2>1 DEF ApplyAppend
<1>10. Spare(f) /\ f[1] = "manifest" /\ f \in File
  BY <1>1, <1>4, NewManifestIsSpare
<1>11. Touched(os, o, f) /\ o.data[f] = <<>> /\ f \in o.dir.files
  <2>1. IsOS(os) /\ f \in File /\ o = NewWritableFile(os, f)
    BY <1>1, <1>8, <1>10
  <2>2. Begun(os, o, f)
    BY <2>1, Creating
  <2> QED
    BY <2>2 DEF Begun
<1>12. Fits(f, snapshot) /\ Fits(f, edit)
  BY <1>6, <1>10 DEF Fits
<1>13. Touched(os, p, f) /\ p.dir = o.dir /\ p.data[f] = Append(o.data[f], snapshot)
  BY <1>8, <1>11, <1>12, Adding
<1>14. /\ Touched(os, os', f) /\ os'.dir = p.dir /\ os'.data[f] = Append(p.data[f], edit)
  <2>1. f \in p.dir.files /\ Touched(os, p, f) /\ Fits(f, edit) /\ os' = AddRecord(p, f, edit)
    BY <1>9, <1>11, <1>12, <1>13
  <2> QED
    BY <2>1, Adding
<1>15. f \in os'.dir.files /\ os'.data[f] = <<snapshot, edit>>
  <2>1. p.data[f] = Append(<<>>, snapshot)
    BY <1>11, <1>13
  <2>2. os'.data[f] = Append(Append(<<>>, snapshot), edit)
    BY <1>14, <2>1
  <2>3. Append(Append(<<>>, snapshot), edit) = <<snapshot, edit>>
    BY TwoRecords
  <2> QED
    BY <1>11, <1>13, <1>14, <2>2, <2>3
<1>16. Same
  BY <1>1, <1>3, <1>10, <1>14, SpareStep
<1>17. a \in [who : {"none", "open", "flush", "merge"},
              step : {"none", "append", "sync", "current"}, edit : Edit, new : BOOLEAN]
  BY <1>1, <1>4, <1>6 DEF Process
<1>18. db' = [db EXCEPT !.apply = a]
  BY <1>1, <1>4, <1>9 DEF Process
<1>19. Prepared' /\ db' \in Process /\ db'.apply = a /\ db'.phase = db.phase
  BY <1>1, <1>3, <1>10, <1>14, <1>16, <1>17, <1>18, StillPrepared
<1>20. /\ db'.edit = db.edit /\ db'.log = db.log /\ db'.next = db.next /\ db'.seq = db.seq
       /\ db'.tables = db.tables /\ db'.manifest = db.manifest
       /\ db'.bg_error = db.bg_error /\ db'.has_imm = db.has_imm /\ db'.flush = db.flush
       /\ db'.merge = db.merge
  BY <1>1, <1>18 DEF Process
<1>21. a.who = "open" /\ a.new /\ a.step = "sync" /\ a.edit = edit
  BY <1>1, <1>4 DEF Opening, Process
<1>22. NewManifest'
  BY <1>4, <1>15, <1>20 DEF NewManifest
<1>23. Opening'
  BY <1>4, <1>19, <1>20, <1>21, <1>22 DEF Opening
<1>24. PhaseInv'
  BY <1>19, <1>23 DEF PhaseInv
<1>25. Apart'
  BY <1>1, <1>3, <1>20, ApartAsBefore DEF Calm, Counted
<1>26. Counted' /\ Reopened(os') = Reopened(os)
  BY <1>1, <1>3, <1>16, StillCounted DEF Same
<1> QED
  BY <1>14, <1>16, <1>19, <1>24, <1>25, <1>26 DEF Fine, DBInv, Same, Touched

LEMMA SyncsNewManifest ==
    ASSUME DBInv, ApplySync, db.phase = "opening"
    PROVE  Fine
<1>1. /\ IsOS(os) /\ db \in Process /\ Counted /\ SoundFiles /\ Apart
      /\ Opening /\ Prepared /\ Opens /\ os.dir.current # 0 /\ KnownDirs /\ KnownHere
  BY OpeningFacts
<1>2. db.apply.step = "sync" /\ issued' = issued /\ acked' = acked /\ left' = left
  BY DEF ApplySync, History
<1>3. Calm("none")
  BY <1>1, <1>2, Budgeted DEF Calm
<1>4. PICK f, a : f = Manifest(db.manifest) /\ a = [db.apply EXCEPT !.step = "current"]
  OBVIOUS
<1>5. os' = Sync(os, f) /\ db' = [db EXCEPT !.apply.step = "current"]
  <2>1. db.apply.new
    BY <1>1 DEF Opening
  <2> QED
    BY <1>4, <2>1 DEF ApplySync
<1>6. /\ NewManifest /\ f \in os.dir.files
      /\ db.apply.edit = [db.edit EXCEPT !.log = db.log, !.next = db.next, !.seq = db.seq]
  BY <1>1, <1>2, <1>4 DEF Opening, NewManifest
<1>7. Spare(f) /\ f[1] = "manifest"
  BY <1>1, <1>4, NewManifestIsSpare
<1>8. Touched(os, os', f)
  <2>1. Touched(os, os, f)
    BY <1>1, Untouched
  <2> QED
    BY <1>5, <1>6, <2>1, Finishing
<1>9. Synced(os, os', f)
  BY <1>1, <1>5, <1>6, Syncing
<1>10. Same
  BY <1>1, <1>3, <1>7, <1>8, SpareStep
<1>11. a \in [who : {"none", "open", "flush", "merge"},
              step : {"none", "append", "sync", "current"}, edit : Edit, new : BOOLEAN]
  BY <1>1, <1>4 DEF Process
<1>12. db' = [db EXCEPT !.apply = a]
  BY <1>1, <1>4, <1>5 DEF Process
<1>13. Prepared' /\ db' \in Process /\ db'.apply = a /\ db'.phase = db.phase
  BY <1>1, <1>3, <1>7, <1>8, <1>10, <1>11, <1>12, StillPrepared
<1>14. /\ db'.edit = db.edit /\ db'.log = db.log /\ db'.next = db.next /\ db'.seq = db.seq
       /\ db'.tables = db.tables /\ db'.manifest = db.manifest
       /\ db'.bg_error = db.bg_error /\ db'.has_imm = db.has_imm /\ db'.flush = db.flush
       /\ db'.merge = db.merge
  BY <1>1, <1>12 DEF Process
<1>15. a.who = "open" /\ a.new /\ a.step = "current" /\ a.edit = db.apply.edit
  BY <1>1, <1>4 DEF Opening, Process
<1>16. f \in os'.dir.files /\ os'.data[f] = os.data[f] /\ os'.synced[f] = Len(os.data[f])
       /\ os'.dirs = {os'.dir}
  BY <1>6, <1>7, <1>9 DEF Synced
<1>17. NewManifest'
  BY <1>4, <1>6, <1>14, <1>16 DEF NewManifest
<1>18. Len(os.data[f]) = 2
  <2>1. PICK x, y : os.data[f] = <<x, y>>
    BY <1>4, <1>6 DEF NewManifest
  <2> QED
    BY <2>1
<1>19. Kept(f)' = 2
  BY <1>16, <1>18 DEF Kept
<1>20. Opening'
  <2>1. db'.apply.edit = [db'.edit EXCEPT !.log = db'.log, !.next = db'.next, !.seq = db'.seq]
    BY <1>6, <1>13, <1>14, <1>15
  <2>2. Kept(Manifest(db.manifest))' = 2
    BY <1>4, <1>14, <1>19
  <2> QED
    BY <1>13, <1>15, <1>16, <1>17, <2>1, <2>2 DEF Opening
<1>21. PhaseInv'
  BY <1>13, <1>20 DEF PhaseInv
<1>22. Apart'
  BY <1>1, <1>3, <1>14, ApartAsBefore DEF Calm, Counted
<1>23. Counted' /\ Reopened(os') = Reopened(os)
  BY <1>1, <1>3, <1>10, StillCounted DEF Same
<1> QED
  BY <1>8, <1>10, <1>13, <1>21, <1>22, <1>23 DEF Fine, DBInv, Same, Touched

LEMMA Deleting ==
    ASSUME NEW o, NEW f, NEW p, Touched(o, p, f), NEW q, q = DeleteFile(p, f)
    PROVE  Touched(o, q, f)
<1>1. IsOS(p) /\ p.dir \in p.dirs
  BY DEF Touched, IsOS
<1>2. /\ IsOS(q) /\ q.dir = [files |-> p.dir.files \ {f}, current |-> p.dir.current]
      /\ q.dirs = p.dirs \cup {q.dir}
      /\ \A g : Named(p.dirs, g) => SameFile(p, q, g)
  BY <1>1, Deletion
<1>3. Nearly(q.dir, o.dir, f)
  BY <1>2 DEF Touched, Nearly
<1>4. ASSUME NEW g, g # f, Named(q.dirs, g)
      PROVE  SameFile(o, q, g)
  <2>1. Named(p.dirs, g)
    BY <1>1, <1>2, <1>4 DEF Named
  <2>2. SameFile(o, p, g) /\ SameFile(p, q, g)
    BY <1>2, <1>4, <2>1 DEF Touched
  <2> QED
    BY <2>2 DEF SameFile
<1> QED
  BY <1>2, <1>3, <1>4 DEF Touched

LEMMA GivesUpOpening ==
    ASSUME DBInv, ApplyFails, db.phase = "opening"
    PROVE  Fine
<1>1. /\ IsOS(os) /\ db \in Process /\ Counted /\ SoundFiles /\ Apart
      /\ Opening /\ Prepared /\ Opens /\ os.dir.current # 0 /\ KnownDirs /\ KnownHere
  BY OpeningFacts
<1>2. Spend("failures") /\ issued' = issued /\ acked' = acked
  BY DEF ApplyFails
<1>3. Calm("failures")
  BY <1>1, <1>2, Budgeted DEF Calm, Occasions
<1>4. PICK f : f = Manifest(db.manifest)
  OBVIOUS
<1>5. PICK o : o = IF f \in os.dir.files THEN os ELSE NewWritableFile(os, f)
  OBVIOUS
<1>6. os' = DeleteFile(o, f) /\ db' = Down
  <2>1. db.apply.new
    BY <1>1 DEF Opening
  <2> QED
    BY <1>4, <1>5, <2>1 DEF ApplyFails
<1>7. Spare(f) /\ f[1] = "manifest" /\ f \in File
  BY <1>1, <1>4, NewManifestIsSpare
<1>8. Touched(os, o, f)
  BY <1>1, <1>5, <1>7, Untouched, Creating DEF Begun
<1>9. Touched(os, os', f)
  BY <1>6, <1>8, Deleting
<1>10. Same
  BY <1>1, <1>3, <1>7, <1>9, SpareStep
<1>11. db' \in Process /\ PhaseInv' /\ Apart'
  BY <1>1, <1>3, <1>6, Dying DEF Calm, Counted
<1>12. Counted' /\ Reopened(os') = Reopened(os)
  BY <1>1, <1>3, <1>10, StillCounted DEF Same
<1> QED
  BY <1>9, <1>10, <1>11, <1>12 DEF Fine, DBInv, Same, Touched

\* What the new MANIFEST says.
IsSnapshot(e, T) == e.add = T /\ e.del = {} /\ e.log = -1 /\ e.next = 0 /\ ~e.torn
IsEdit(e, A, l, n, q) ==
    e.add = A /\ e.del = {} /\ e.log = l /\ e.next = n /\ e.seq = q /\ ~e.torn

Says(s, v) ==
    s \in Seq(Edit) /\ Len(s) = 2 /\ ~s[1].torn /\ ~s[2].torn /\ Versions(s)[2] = v

LEMMA NewVersion ==
    ASSUME NEW T, NEW snapshot \in Edit, IsSnapshot(snapshot, T),
           NEW A, NEW l \in Nat, NEW n \in Nat, n > 0, NEW q,
           NEW e \in Edit, IsEdit(e, A, l, n, q), NEW s, s = <<snapshot, e>>,
           NEW w, w = [tables |-> T \cup A, log |-> l, next |-> n, seq |-> q]
    PROVE  Says(s, w)
<1>1. /\ snapshot.add = T /\ snapshot.del = {} /\ snapshot.log = -1 /\ snapshot.next = 0
      /\ ~snapshot.torn
      /\ e.add = A /\ e.del = {} /\ e.log = l /\ e.next = n /\ e.seq = q /\ ~e.torn
  BY DEF IsSnapshot, IsEdit
<1>2. s \in Seq(Edit) /\ Len(s) = 2 /\ s[1] = snapshot /\ s[2] = e
  OBVIOUS
<1>3. PICK v : v = Versions(s)[1]
  OBVIOUS
<1>4. /\ Versions(s)[0] = Nothing /\ v = Later(Nothing, snapshot)
      /\ Versions(s)[2] = Later(v, e)
  <2>1. \A i \in 1..Len(s) : Versions(s)[i] = Later(Versions(s)[i-1], s[i])
    BY <1>2, VersionsStepwise
  <2>2. 1 \in 1..Len(s) /\ 2 \in 1..Len(s) /\ 1 - 1 = 0 /\ 2 - 1 = 1
    BY <1>2
  <2>3. Versions(s)[0] = Nothing
    BY <1>2, VersionsStepwise
  <2> QED
    BY <1>2, <1>3, <2>1, <2>2, <2>3
<1>5. v.tables = T
  BY <1>1, <1>4 DEF Later, Nothing
<1>6. Versions(s)[2] = [tables |-> T \cup A, log |-> l, next |-> n, seq |-> q]
  <2>1. l >= 0
    OBVIOUS
  <2>2. (v.tables \ e.del) \cup e.add = T \cup A
    BY <1>1, <1>5
  <2> QED
    BY <1>1, <1>4, <2>1, <2>2 DEF Later
<1> QED
  BY <1>1, <1>2, <1>6 DEF Says

\* It is a version that a process may start from: the tables of the logs are in.
LEMMA NewVersionFulfils ==
    ASSUME DBInv, db.phase = "opening", db.apply.step = "current",
           NEW w \in Version,
           w = [tables |-> db.tables \cup db.edit.add, log |-> db.log, next |-> db.next,
                seq |-> db.seq]
    PROVE  Fulfils(w) /\ Holds(os.dir, w) = InTables(os, w.tables)
<1>1. /\ IsOS(os) /\ db \in Process /\ Counted /\ SoundFiles
      /\ Opening /\ Prepared /\ Opens /\ os.dir.current # 0 /\ KnownDirs /\ KnownHere
  BY OpeningFacts
<1>2. PICK T, R, L, d : T = db.edit.add /\ R = Recovered(os) /\ L = LiveLogs(os) /\ d = os.dir
  OBVIOUS
<1>3. Dirs = {d}
  BY <1>1, <1>2 DEF Opening, Dirs
<1>4. /\ w.tables = R.tables \cup T /\ w.log = db.log /\ w.next = db.next /\ w.seq = db.seq
  BY <1>1, <1>2 DEF Opens
<1>5. /\ SoundVersion(d, R) /\ R \in Version /\ Reopened(os) = Holds(d, R) /\ L = LogsOf(d, R)
  BY <1>1, <1>2 DEF KnownHere
<1>6. /\ db.manifest = R.next /\ R.next < db.log /\ db.log < db.next /\ R.seq <= db.seq
      /\ db.seq <= issued /\ R.log \in 0..R.next - 1 /\ R.next \in Nat /\ R.seq \in Nat
      /\ db.log \in Nat /\ db.next \in Nat /\ db.seq \in Nat
  <2>1. db.manifest = R.next /\ R.next < db.log /\ db.log < db.next /\ R.seq <= db.seq
        /\ db.seq <= issued
    BY <1>1, <1>2 DEF Prepared, Opens
  <2> QED
    BY <1>1, <1>5, <2>1 DEF SoundVersion, Version, Process
<1>7. Replayed(T, L)
  BY <1>1, <1>2 DEF Prepared
<1>8. HasTables(d, w)
  <2> SUFFICES ASSUME NEW n \in w.tables
               PROVE  /\ n < w.next /\ Table(n) \in d.files /\ Whole(n)
                      /\ \A r \in DataOf(n) : r.seq <= w.seq
    BY DEF HasTables
  <2>1. CASE n \in R.tables
    <3>1. n < R.next /\ Table(n) \in d.files /\ Whole(n) /\ \A r \in DataOf(n) : r.seq <= R.seq
      BY <1>5, <2>1 DEF SoundVersion, HasTables
    <3>2. n \in Nat
      BY <1>5, <2>1 DEF Version
    <3>3. DataOf(n) \in SUBSET Update
      BY <1>1, <1>2, <3>1, DataIsUpdates DEF KnownHere, Whole
    <3>4. \A r \in DataOf(n) : r.seq <= db.seq
      <4> SUFFICES ASSUME NEW r \in DataOf(n)
                   PROVE  r.seq <= db.seq
        OBVIOUS
      <4>1. r.seq \in Nat /\ r.seq <= R.seq
        BY <3>1, <3>3 DEF Update
      <4> QED
        BY <1>6, <4>1
    <3>5. n < db.next
      BY <1>6, <3>1, <3>2
    <3> QED
      BY <1>4, <3>1, <3>4, <3>5
  <2>2. CASE n \in T
    <3>1. /\ n < db.next /\ Table(n) \in d.files /\ Whole(n)
          /\ \A r \in DataOf(n) : r.seq <= db.seq
      BY <1>2, <1>7, <2>2 DEF Replayed
    <3> QED
      BY <1>4, <3>1
  <2> QED
    BY <1>4, <2>1, <2>2
<1>9. \A n \in w.tables : TableOK(os, n) /\ TableData(os, n) = DataOf(n)
  BY <1>2, <1>8, WholeTable
<1>10. InTables(os, w.tables) = Reopened(os)
  <2>1. ASSUME NEW r
        PROVE  r \in InTables(os, w.tables) <=> r \in Reopened(os)
    <3>1. r \in InTables(os, w.tables) <=> r \in InTables(os, R.tables) \/ r \in InTables(os, T)
      BY <1>4 DEF InTables
    <3>2. r \in InTables(os, T) <=> r \in InLogs(os, L)
      BY <1>7 DEF Replayed
    <3>3. r \in Reopened(os) <=> r \in InTables(os, R.tables) \/ r \in InLogs(os, L)
      BY <1>5 DEF Holds
    <3> QED
      BY <3>1, <3>2, <3>3
  <2> QED
    BY <2>1
<1>11. Holds(d, w) = InTables(os, w.tables)
  <2>1. \A n \in LogsOf(d, w) : n = db.log
    <3> SUFFICES ASSUME NEW n \in LogsOf(d, w)
                 PROVE  n = db.log
      OBVIOUS
    <3>1. n \in Numbers(d.files, "log") /\ n >= db.log
      BY <1>4 DEF LogsOf
    <3>2. n \in Nat
      BY <1>1, <1>2, <3>1 DEF KnownDirs, KnownHere
    <3>3. n <= db.log
      BY <1>1, <1>2, <3>1 DEF Prepared
    <3> QED
      BY <1>6, <3>1, <3>2, <3>3
  <2>2. ToSet(os.data[Log(db.log)]) = {}
    BY <1>1 DEF Prepared, ToSet
  <2>3. InLogs(os, LogsOf(d, w)) = {}
    BY <2>1, <2>2 DEF InLogs
  <2> QED
    BY <2>3 DEF Holds
<1>12. \A id \in acked : Keeps(d, w, id)
  <2> SUFFICES ASSUME NEW id \in acked
               PROVE  \E n \in w.tables : \E r \in DataOf(n) : r.id = id
    BY DEF Keeps
  <2>1. Keeps(d, R, id)
    BY <1>5 DEF SoundVersion
  <2>2. CASE \E n \in R.tables : \E r \in DataOf(n) : r.id = id
    BY <1>4, <2>2
  <2>3. CASE \E n \in LogsOf(d, R) : \E i \in 1..Kept(Log(n)) : os.data[Log(n)][i].id = id
    <3>1. PICK n \in LogsOf(d, R) : \E i \in 1..Kept(Log(n)) : os.data[Log(n)][i].id = id
      BY <2>3
    <3>2. PICK i \in 1..Kept(Log(n)) : os.data[Log(n)][i].id = id
      BY <3>1
    <3>3. /\ Log(n) \in os.dir.files /\ Kept(Log(n)) \in 0..Len(os.data[Log(n)])
          /\ os.data[Log(n)] \in Seq(Update)
      BY <1>1, <1>2 DEF LogsOf, KnownDirs, KnownHere
    <3>4. PICK s \in Seq(Update) : s = os.data[Log(n)]
      BY <3>3
    <3>5. i \in 1..Len(s)
      BY <3>2, <3>3, <3>4
    <3>6. s[i] \in ToSet(s)
      BY <3>5 DEF ToSet
    <3>7. s[i] \in InLogs(os, L)
      BY <1>5, <3>4, <3>6, InFiles
    <3>8. s[i] \in InTables(os, T)
      BY <1>7, <3>7 DEF Replayed
    <3>9. PICK m \in T : s[i] \in TableData(os, m)
      BY <3>8, InFiles
    <3>10. m \in w.tables /\ s[i] \in DataOf(m)
      BY <1>4, <1>9, <3>9
    <3> QED
      BY <3>2, <3>4, <3>10
  <2> QED
    BY <2>1, <2>2, <2>3 DEF Keeps
<1>13. Fulfils(w)
  <2>1. /\ w.log \in 0..w.next - 1 /\ w.seq <= issued /\ w.next \in Nat
        /\ Recovered(os).next <= w.next /\ Recovered(os).log <= w.log
    BY <1>2, <1>4, <1>6
  <2>2. Holds(os.dir, w) = Reopened(os)
    BY <1>2, <1>10, <1>11
  <2> QED
    BY <1>3, <1>8, <1>12, <2>1, <2>2 DEF Fulfils
<1> QED
  BY <1>2, <1>11, <1>13

\* What LogAndApply installs in memory.
Installs(o, d, p) ==
    LET e == d.apply.edit
    IN  /\ p \in Process /\ p.phase = "open" /\ p.apply = NoApply /\ p.edit = NoEdit
        /\ p.tables = (d.tables \ e.del) \cup e.add /\ p.log_number = e.log
        /\ p.doomed = Obsolete(o, p)
        /\ p.imm = (IF d.apply.who = "flush" THEN {} ELSE d.imm)
        /\ p.has_imm = (IF d.apply.who = "flush" THEN FALSE ELSE d.has_imm)
        /\ p.outputs = (IF d.apply.who = "merge" THEN {} ELSE d.outputs)
        /\ p.merge = (IF d.apply.who = "merge" THEN NoMerge ELSE d.merge)
        /\ p.mem = d.mem /\ p.log = d.log /\ p.next = d.next /\ p.seq = d.seq
        /\ p.manifest = d.manifest /\ p.bg_error = d.bg_error /\ p.pinned = d.pinned
        /\ p.flush = d.flush /\ p.replay = d.replay

LEMMA ConstantsAreTyped ==
    NoEdit \in Edit /\ NoMerge \in [inputs : SUBSET Nat, out : Nat]
    /\ NoApply \in [who : {"none", "open", "flush", "merge"},
                    step : {"none", "append", "sync", "current"}, edit : Edit, new : BOOLEAN]
<1>1. NoEdit \in Edit
  BY DEF NoEdit, Edit
<1> QED
  BY <1>1 DEF NoMerge, NoApply

LEMMA Installing ==
    ASSUME NEW o, o.dir.files \subseteq File, NEW d \in Process, d.apply.edit.log \in Nat,
           NEW p, p = Installed(o, d)
    PROVE  Installs(o, d, p)
<1>1. PICK e, who : e = d.apply.edit /\ who = d.apply.who
  OBVIOUS
<1>2. e \in Edit /\ d.merge \in [inputs : SUBSET Nat, out : Nat] /\ d.tables \in SUBSET Nat
  BY <1>1 DEF Process
<1>3. PICK tables, imm, has_imm, outputs, merge :
         /\ tables = (d.tables \ e.del) \cup e.add
         /\ imm = (IF who = "flush" THEN {} ELSE d.imm)
         /\ has_imm = (IF who = "flush" THEN FALSE ELSE d.has_imm)
         /\ outputs = (IF who = "merge" THEN {} ELSE d.outputs)
         /\ merge = (IF who = "merge" THEN NoMerge ELSE d.merge)
  OBVIOUS
<1>4. PICK v : v = [d EXCEPT !.tables = tables, !.log_number = e.log, !.phase = "open",
                             !.apply = NoApply, !.edit = NoEdit, !.imm = imm,
                             !.has_imm = has_imm, !.outputs = outputs, !.merge = merge]
  OBVIOUS
<1>5. PICK doomed : doomed = Obsolete(o, v)
  OBVIOUS
<1>6. p = [v EXCEPT !.doomed = doomed]
  BY <1>1, <1>3, <1>4, <1>5 DEF Installed, Process
<1>7. tables \in SUBSET Nat
  BY <1>2, <1>3 DEF Edit
<1>8. imm \in SUBSET Update /\ has_imm \in BOOLEAN /\ outputs \in SUBSET Nat
  BY <1>3 DEF Process
<1>9. merge \in [inputs : SUBSET Nat, out : Nat]
  BY <1>2, <1>3, ConstantsAreTyped
<1>10. v \in Process
  <2>1. PICK l \in Nat : l = e.log
    BY <1>1
  <2>2. v = [d EXCEPT !.tables = tables, !.log_number = l, !.phase = "open",
                      !.apply = NoApply, !.edit = NoEdit, !.imm = imm,
                      !.has_imm = has_imm, !.outputs = outputs, !.merge = merge]
    BY <1>4, <2>1
  <2>3. PICK none, blank : none = NoApply /\ blank = NoEdit
    OBVIOUS
  <2>4. /\ blank \in Edit
        /\ none \in [who : {"none", "open", "flush", "merge"},
                     step : {"none", "append", "sync", "current"}, edit : Edit, new : BOOLEAN]
    BY <2>3, ConstantsAreTyped
  <2>5. PICK u : u = [d EXCEPT !.tables = tables, !.log_number = l, !.phase = "open",
                               !.apply = none, !.edit = blank]
    OBVIOUS
  <2>6. u \in Process
    BY <1>7, <2>4, <2>5 DEF Process
  <2>7. PICK t : t = [u EXCEPT !.imm = imm, !.has_imm = has_imm]
    OBVIOUS
  <2>8. t \in Process
    BY <1>8, <2>6, <2>7 DEF Process
  <2>9. v = [t EXCEPT !.outputs = outputs, !.merge = merge]
    BY <2>2, <2>3, <2>5, <2>7
  <2>10. outputs \in SUBSET Nat
    BY <1>8
  <2> QED
    BY <1>9, <2>8, <2>9, <2>10 DEF Process
<1>11. /\ v.phase = "open" /\ v.apply = NoApply /\ v.edit = NoEdit
       /\ v.tables = tables /\ v.log_number = e.log
       /\ v.imm = imm /\ v.has_imm = has_imm /\ v.outputs = outputs /\ v.merge = merge
       /\ v.mem = d.mem /\ v.log = d.log /\ v.next = d.next /\ v.seq = d.seq
       /\ v.manifest = d.manifest /\ v.bg_error = d.bg_error /\ v.pinned = d.pinned
       /\ v.flush = d.flush /\ v.replay = d.replay
  BY <1>4 DEF Process
<1>12. doomed \in SUBSET File
  BY <1>5 DEF Obsolete
<1>13. p \in Process
  BY <1>6, <1>10, <1>12 DEF Process
<1>14. /\ p.phase = v.phase /\ p.apply = v.apply /\ p.edit = v.edit
       /\ p.tables = v.tables /\ p.log_number = v.log_number
       /\ p.imm = v.imm /\ p.has_imm = v.has_imm /\ p.outputs = v.outputs /\ p.merge = v.merge
       /\ p.mem = v.mem /\ p.log = v.log /\ p.next = v.next /\ p.seq = v.seq
       /\ p.manifest = v.manifest /\ p.bg_error = v.bg_error /\ p.pinned = v.pinned
       /\ p.flush = v.flush /\ p.replay = v.replay /\ p.doomed = doomed
  BY <1>6, <1>10 DEF Process
<1>15. Obsolete(o, p) = Obsolete(o, v)
  BY <1>14 DEF Obsolete
<1> QED
  BY <1>1, <1>3, <1>5, <1>11, <1>13, <1>14, <1>15 DEF Installs

LEMMA TypedOS ==
    ASSUME NEW o, IsOS(o)
    PROVE  /\ DOMAIN o.data = DOMAIN o.synced /\ o.dir.files \subseteq DOMAIN o.data
           /\ o.dir.files \subseteq File /\ o.dir.files \in SUBSET File
<1>1. o.dir \in o.dirs /\ o.dirs \subseteq Dir /\ \A d \in o.dirs : d.files \subseteq DOMAIN o.data
  BY DEF IsOS
<1>2. DOMAIN o.data = DOMAIN o.synced
  BY DEF IsOS
<1> QED
  BY <1>1, <1>2 DEF Dir

LEMMA ApplyCurrentIsFine ==
    ASSUME DBInv, ApplyCurrent, db.phase = "opening"
    PROVE  Fine
<1>1. /\ IsOS(os) /\ db \in Process /\ Counted /\ SoundFiles /\ Apart
      /\ Opening /\ Prepared /\ Opens /\ Fresh /\ os.dir.current # 0 /\ KnownDirs /\ KnownHere
  BY OpeningFacts
<1>2. /\ db.apply.step = "current" /\ issued' = issued /\ acked' = acked /\ left' = left
      /\ os' = SetCurrentFile(os, db.manifest) /\ db' = Installed(os', db)
  BY DEF ApplyCurrent, History
<1>3. Calm("none")
  BY <1>1, <1>2, Budgeted DEF Calm
<1>4. (Lossy' <=> Lossy) /\ left'.cuts = left.cuts
  BY <1>3, Calmly
<1>5. PICK m, T, snapshot, e, s, w :
         /\ m = db.manifest /\ T = db.edit.add /\ snapshot = [NoEdit EXCEPT !.add = db.tables]
         /\ e = [db.edit EXCEPT !.log = db.log, !.next = db.next, !.seq = db.seq]
         /\ s = <<snapshot, e>>
         /\ w = [tables |-> db.tables \cup T, log |-> db.log, next |-> db.next, seq |-> db.seq]
  OBVIOUS
<1>6. /\ db.edit \in Edit /\ db.log \in Nat /\ db.next \in Nat /\ db.seq \in Nat
      /\ db.tables \in SUBSET Nat /\ m \in Nat /\ T \in SUBSET Nat
  BY <1>1, <1>5 DEF Process, Edit
<1>7. /\ Manifest(m) \in os.dir.files /\ os.data[Manifest(m)] = s /\ db.apply.edit = e
      /\ Kept(Manifest(m)) = 2 /\ os.dirs = {os.dir} /\ db.apply.who = "open"
      /\ m < db.log /\ db.log < db.next
  BY <1>1, <1>2, <1>5 DEF Opening, NewManifest, Prepared
<1>8. e \in Edit /\ e.add = T /\ e.del = {} /\ e.log = db.log /\ e.next = db.next
      /\ e.seq = db.seq /\ ~e.torn
  <2>1. db.edit.del = {} /\ ~db.edit.torn
    <3>1. db.edit = [NoEdit EXCEPT !.add = db.edit.add]
      BY <1>1 DEF Opens
    <3> QED
      BY <3>1 DEF NoEdit
  <2>2. PICK l \in Int, n \in Nat, q \in Nat : l = db.log /\ n = db.next /\ q = db.seq
    BY <1>6
  <2>3. e = [db.edit EXCEPT !.log = l, !.next = n, !.seq = q]
    BY <1>5, <2>2
  <2>4. e \in Edit
    BY <1>6, <2>3 DEF Edit
  <2> QED
    BY <1>5, <1>6, <2>1, <2>4 DEF Edit
<1>9. snapshot \in Edit
  BY <1>5, <1>6, ConstantsAreTyped DEF Edit
<1>10. /\ s \in Seq(Edit) /\ Len(s) = 2 /\ ~s[1].torn /\ ~s[2].torn
       /\ Versions(s)[2] = w
  <2>1. PICK D \in SUBSET Nat, l \in Nat, n \in Nat, q \in Nat :
           D = db.tables /\ l = db.log /\ n = db.next /\ q = db.seq /\ n > 0
    BY <1>6, <1>7
  <2>2. IsEdit(e, T, l, n, q)
    BY <1>8, <2>1 DEF IsEdit
  <2>3. IsSnapshot(snapshot, D)
    BY <1>5, <2>1 DEF IsSnapshot, NoEdit
  <2>4. w = [tables |-> D \cup T, log |-> l, next |-> n, seq |-> q]
    BY <1>5, <2>1
  <2>5. e \in Edit /\ snapshot \in Edit /\ s = <<snapshot, e>>
    BY <1>5, <1>8, <1>9
  <2>6. Says(s, w)
    BY <2>1, <2>2, <2>3, <2>4, <2>5, NewVersion
  <2> QED
    BY <2>6 DEF Says
<1>11. w \in Version /\ w.tables = db.tables \cup T /\ w.log = db.log /\ w.next = db.next
       /\ w.seq = db.seq
  <2>1. db.tables \cup T \in SUBSET Nat
    BY <1>6
  <2> QED
    BY <1>5, <1>6, <2>1 DEF Version
<1>12. Fulfils(w) /\ Holds(os.dir, w) = InTables(os, w.tables)
  BY <1>1, <1>2, <1>5, <1>11, NewVersionFulfils
<1>13. m # 0
  <2>1. m = Recovered(os).next /\ os.dir.current < Recovered(os).next /\ os.dir.current \in Nat
    BY <1>1, <1>5 DEF Opens, KnownHere, KnownDirs
  <2> QED
    BY <1>6, <2>1
<1>14. /\ IsOS(os') /\ os'.dir = [files |-> os.dir.files, current |-> m]
       /\ SoundFiles' /\ Recovered(os') = w /\ Records(os') = s
       /\ Reopened(os') = Reopened(os)
       /\ \A g \in os.dir.files : SameFile(os, os', g)
  <2>1. os' = SetCurrentFile(os, m) /\ m < w.next
    BY <1>2, <1>5, <1>6, <1>7, <1>11
  <2>2. \A i \in 1..Len(s) - 1 : ~s[i].torn
    <3>1. \A i \in 1..Len(s) - 1 : i = 1
      BY <1>10
    <3> QED
      BY <1>10, <3>1
  <2>3. w = Versions(s)[Len(s)] /\ s = os.data[Manifest(m)] /\ Kept(Manifest(m)) = Len(s)
    BY <1>7, <1>10
  <2>4. acked' = acked /\ issued' = issued
    BY <1>2
  <2>5. IsOS(os) /\ SoundFiles /\ os.dir.current # 0 /\ os.dirs = {os.dir}
    BY <1>1, <1>7
  <2> QED
    BY <1>4, <1>6, <1>7, <1>10, <1>11, <1>12, <1>13, <2>1, <2>2, <2>3, <2>4, <2>5, SetCurrent
<1>15. Installs(os', db, db')
  <2>1. os'.dir.files \subseteq File
    BY <1>14, TypedOS
  <2>2. db.apply.edit.log \in Nat
    BY <1>6, <1>7, <1>8
  <2> QED
    BY <1>1, <1>2, <2>1, <2>2, Installing
<1>16. /\ db' \in Process /\ db'.phase = "open" /\ db'.apply = NoApply
       /\ db'.tables = w.tables /\ db'.log_number = w.log /\ db'.doomed = Obsolete(os', db')
       /\ db'.imm = {} /\ ~db'.has_imm /\ db'.outputs = {} /\ db'.merge = NoMerge /\ db'.mem = {}
       /\ db'.log = w.log /\ db'.next = w.next /\ db'.seq = w.seq /\ db'.manifest = m
       /\ ~db'.bg_error /\ db'.pinned = {} /\ db'.flush = 0
  <2>1. (db.tables \ e.del) \cup e.add = w.tables
    BY <1>8, <1>11
  <2>2. db.imm = {} /\ ~db.has_imm /\ db.outputs = {} /\ db.merge = NoMerge /\ db.mem = {}
        /\ ~db.bg_error /\ db.pinned = {} /\ db.flush = 0
    BY <1>1 DEF Fresh
  <2>3. db.apply.who # "flush" /\ db.apply.who # "merge"
    BY <1>7
  <2> QED
    BY <1>5, <1>7, <1>8, <1>11, <1>15, <2>1, <2>2, <2>3 DEF Installs
<1>17. \A n \in w.tables : /\ n < w.next /\ Table(n) \in os.dir.files /\ Whole(n)
                           /\ \A r \in DataOf(n) : r.seq <= w.seq
  <2>1. os.dir \in Dirs
    BY <1>1 DEF KnownHere
  <2>2. HasTables(os.dir, w)
    BY <1>12, <2>1 DEF Fulfils
  <2> QED
    BY <2>2 DEF HasTables
<1>18. Reopened(os') = InTables(os', w.tables)
  <2>1. \A n \in w.tables : TableData(os', n) = TableData(os, n)
    BY <1>14, <1>17 DEF TableData, TableOK, SameFile
  <2>2. InTables(os', w.tables) = InTables(os, w.tables)
    BY <2>1 DEF InTables
  <2> QED
    BY <1>12, <1>14, <2>2 DEF Fulfils
<1>19. \A n : n \in Numbers(os'.dir.files, "log") => n \in Nat /\ n <= w.log /\ n < w.next
  <2>1. \A n \in Numbers(os.dir.files, "log") : n \in Nat /\ n <= db.log
    BY <1>1 DEF Prepared, KnownDirs, KnownHere
  <2> QED
    BY <1>6, <1>7, <1>11, <1>14, <2>1
<1>20. os'.data[Log(w.log)] = <<>> /\ Log(w.log) \in os'.dir.files
  <2>1. os.data[Log(w.log)] = <<>> /\ Log(w.log) \in os.dir.files
    BY <1>1, <1>11 DEF Prepared
  <2> QED
    BY <1>14, <2>1 DEF SameFile
<1>21. Running'
  <2>1. TypeOK'
    <3>1. {db'.flush, db'.merge.out} \ {0} = {}
      BY <1>16 DEF NoMerge
    <3> QED
      BY <1>14, <1>16, <3>1, TypedOS DEF TypeOK
  <2>2. \A n \in InUse' : Table(n) \in os'.dir.files /\ n < db'.next /\ Len(os'.data[Table(n)]) = 1
    <3>1. InUse' = w.tables
      BY <1>16 DEF InUse
    <3> QED
      BY <1>14, <1>16, <1>17, <3>1 DEF Whole, SameFile
  <2>3. db'.seq <= issued'
    BY <1>2, <1>12, <1>16 DEF Fulfils
  <2>4. Recovered(os').next <= db'.next /\ Recovered(os').log <= db'.log
    BY <1>6, <1>11, <1>14, <1>16
  <2>5. db'.merge.inputs = {}
    BY <1>16 DEF NoMerge
  <2> QED
    BY <1>13, <1>14, <1>16, <1>19, <1>20, <2>1, <2>2, <2>3, <2>4, <2>5 DEF Running
<1>22. Working'
  <2>1. Edits(os.dir)' = s
    <3>1. os'.data[Manifest(m)] = os.data[Manifest(m)] /\ os'.dir.current = m
      BY <1>7, <1>14 DEF SameFile
    <3> QED
      BY <1>7, <3>1 DEF Edits
  <2>2. Kept(Manifest(os.dir.current))' = Len(s)
    <3>1. os'.data[Manifest(m)] = os.data[Manifest(m)] /\ os'.synced[Manifest(m)] = os.synced[Manifest(m)]
      BY <1>7, <1>14 DEF SameFile
    <3> QED
      BY <1>4, <1>7, <1>10, <1>14, <3>1 DEF Kept
  <2>3. \A i \in 1..Len(s) : ~s[i].torn
    <3>1. \A i \in 1..Len(s) : i = 1 \/ i = 2
      BY <1>10
    <3> QED
      BY <1>10, <3>1
  <2>4. Settled'
    <3>1. Recovered(os').tables = db'.tables /\ Recovered(os').log = db'.log_number
      BY <1>14, <1>16
    <3> QED
      BY <2>1, <2>2, <2>3, <3>1 DEF Settled
  <2>5. Memory' = Reopened(os')
    BY <1>16, <1>18 DEF Memory
  <2>6. \A r \in Memory' : r.seq <= db'.seq
    <3> SUFFICES ASSUME NEW r \in InTables(os, w.tables)
                 PROVE  r.seq <= w.seq
      BY <1>12, <1>14, <1>16, <2>5 DEF Fulfils
    <3>1. PICK n \in w.tables : r \in TableData(os, n)
      BY InFiles
    <3>2. r \in DataOf(n)
      BY <3>1 DEF TableData, DataOf
    <3> QED
      BY <1>17, <3>2
  <2>7. \A n \in Numbers(os'.dir.files, "log") : n >= db'.log_number => n \in {db'.log_number, db'.log}
    BY <1>6, <1>11, <1>16, <1>19
  <2>8. ToSet(os'.data[Log(db'.log)]) = db'.mem
    BY <1>16, <1>20 DEF ToSet
  <2> QED
    BY <1>16, <2>4, <2>5, <2>6, <2>7, <2>8 DEF Working
<1>23. PhaseInv'
  BY <1>16, <1>21, <1>22 DEF PhaseInv
<1>24. Apart'
  BY <1>1, <1>3, <1>16, ApartAfresh DEF Calm, Counted
<1>25. Counted'
  BY <1>1, <1>3, <1>14, StillCounted
<1> QED
  BY <1>14, <1>16, <1>23, <1>24, <1>25 DEF Fine, DBInv

-----------------------------------------------------------------------------
(* A new database.                                                         *)

FirstEdit == [NoEdit EXCEPT !.log = 0, !.next = 2]

LEMMA FirstEditIsEdit ==
    FirstEdit \in Edit /\ FirstEdit.add = {} /\ FirstEdit.del = {} /\ FirstEdit.log = 0
    /\ FirstEdit.next = 2 /\ FirstEdit.seq = 0 /\ ~FirstEdit.torn
<1>1. /\ FirstEdit.add = {} /\ FirstEdit.del = {} /\ FirstEdit.log = 0
      /\ FirstEdit.next = 2 /\ FirstEdit.seq = 0 /\ ~FirstEdit.torn
  BY DEF FirstEdit, NoEdit
<1>2. FirstEdit \in Edit
  <2>1. NoEdit \in Edit
    BY ConstantsAreTyped
  <2>2. PICK l \in Int, n \in Nat : l = 0 /\ n = 2
    OBVIOUS
  <2>3. FirstEdit = [NoEdit EXCEPT !.log = l, !.next = n]
    BY <2>2 DEF FirstEdit
  <2> HIDE DEF NoEdit
  <2> QED
    BY <2>1, <2>3 DEF Edit
<1> QED
  BY <1>1, <1>2

LEMMA NewDBIsFine == DBInv /\ NewDB => Fine
<1> SUFFICES ASSUME DBInv, NewDB
             PROVE  Fine
  OBVIOUS
<1>1. IsOS(os) /\ db \in Process /\ Counted /\ SoundFiles /\ Apart
  BY DEF DBInv
<1>2. /\ os.dir.current = 0 /\ issued' = issued /\ acked' = acked /\ left' = left
      /\ os' = AddRecord(NewWritableFile(os, Manifest(1)), Manifest(1), FirstEdit)
      /\ db' = [Down EXCEPT !.phase = "newdb"]
  BY DEF NewDB, History, FirstEdit
<1>3. Calm("none")
  BY <1>1, <1>2, Budgeted DEF Calm
<1>4. PICK f, o : f = Manifest(1) /\ o = NewWritableFile(os, f)
  OBVIOUS
<1>5. f \in File /\ Fits(f, FirstEdit)
  BY <1>4, FirstEditIsEdit, Names DEF Fits
<1>6. Begun(os, o, f)
  BY <1>1, <1>4, <1>5, Creating
<1>7. /\ Touched(os, o, f) /\ o.dir = [files |-> os.dir.files \cup {f}, current |-> os.dir.current]
      /\ o.data[f] = <<>> /\ f \in o.dir.files
  BY <1>6 DEF Begun
<1>8. Touched(os, os', f) /\ os'.dir = o.dir /\ os'.data[f] = Append(o.data[f], FirstEdit)
  <2>1. os' = AddRecord(o, f, FirstEdit)
    BY <1>2, <1>4
  <2> QED
    BY <1>5, <1>7, <2>1, Adding
<1>9. os'.data[f] = <<FirstEdit>> /\ IsOS(os')
  BY <1>7, <1>8, FirstRecord DEF Touched
<1>10. /\ os'.dir.current = 0 /\ os'.dir.files \subseteq {Manifest(1)} /\ f \in os'.dir.files
       /\ acked' = {} /\ \A d \in os'.dirs : d.current = 0
  <2>1. \A d \in os.dirs : d.current = 0
    BY <1>1, <1>2 DEF SoundFiles
  <2>2. os'.dirs = os.dirs \cup {o.dir} /\ o.dir.current = 0
    <3>1. o.dirs = os.dirs \cup {o.dir}
      BY <1>6 DEF Begun
    <3>2. os' = AddRecord(o, f, FirstEdit)
      BY <1>2, <1>4
    <3>3. os'.dirs = o.dirs
      BY <1>5, <1>7, <3>2, Adding
    <3> QED
      BY <1>2, <1>7, <3>1, <3>3
  <2>3. os'.dir.current = 0 /\ f \in os'.dir.files /\ acked' = {}
    BY <1>1, <1>2, <1>7, <1>8 DEF SoundFiles
  <2>4. os'.dir.files \subseteq {Manifest(1)}
    BY <1>1, <1>2, <1>4, <1>7, <1>8 DEF SoundFiles
  <2> QED
    BY <2>1, <2>2, <2>3, <2>4
<1>11. SoundFiles'
  BY <1>10 DEF SoundFiles
<1>12. Reopened(os') = {} /\ Reopened(os) = {}
  BY <1>2, <1>10 DEF Reopened
<1>13. Counted'
  BY <1>1, <1>3, <1>12, StillCounted
<1>14. db' \in Process /\ db'.phase = "newdb"
  <2>1. db' \in Process
    BY <1>2, DownIsProcess DEF Process
  <2>2. db'.phase = "newdb"
    BY <1>2 DEF Down
  <2> QED
    BY <2>1, <2>2
<1>15. PhaseInv'
  <2>1. os'.data[Manifest(1)] = <<[NoEdit EXCEPT !.log = 0, !.next = 2]>>
    BY <1>4, <1>9 DEF FirstEdit
  <2>2. Manifest(1) \in os'.dir.files
    BY <1>4, <1>10
  <2> QED
    BY <1>2, <1>10, <1>14, <2>1, <2>2 DEF PhaseInv
<1>16. Apart'
  <2>1. ~db'.bg_error /\ ~db'.has_imm /\ db'.flush = 0 /\ db'.merge = NoMerge
    BY <1>2 DEF Down
  <2> QED
    BY <1>1, <1>3, <2>1, ApartAfresh DEF Calm, Counted
<1> QED
  BY <1>9, <1>11, <1>12, <1>13, <1>14, <1>15, <1>16 DEF Fine, DBInv

LEMMA FirstVersion ==
    ASSUME NEW s, s = <<FirstEdit>>
    PROVE  /\ s \in Seq(Edit) /\ Len(s) = 1
           /\ Versions(s)[1] = [tables |-> {}, log |-> 0, next |-> 2, seq |-> 0]
<1>1. s \in Seq(Edit) /\ Len(s) = 1 /\ s[1] = FirstEdit
  BY FirstEditIsEdit
<1>2. Versions(s)[1] = Later(Nothing, FirstEdit)
  <2>1. \A i \in 1..Len(s) : Versions(s)[i] = Later(Versions(s)[i-1], s[i])
    BY <1>1, VersionsStepwise
  <2>2. Versions(s)[0] = Nothing
    BY <1>1, VersionsStepwise
  <2>3. 1 \in 1..Len(s) /\ 1 - 1 = 0
    BY <1>1
  <2> QED
    BY <1>1, <2>1, <2>2, <2>3
<1>3. Later(Nothing, FirstEdit) = [tables |-> {}, log |-> 0, next |-> 2, seq |-> 0]
  <2>1. (Nothing.tables \ FirstEdit.del) \cup FirstEdit.add = {}
    BY FirstEditIsEdit DEF Nothing
  <2> QED
    BY <2>1, FirstEditIsEdit DEF Later
<1> QED
  BY <1>1, <1>2, <1>3

LEMMA NewDBCurrentIsFine == DBInv /\ NewDBCurrent => Fine
<1> SUFFICES ASSUME DBInv, NewDBCurrent
             PROVE  Fine
  OBVIOUS
<1>1. IsOS(os) /\ db \in Process /\ Counted /\ SoundFiles /\ Apart /\ PhaseInv
  BY DEF DBInv
<1>2. /\ db.phase = "newdb" /\ issued' = issued /\ acked' = acked /\ left' = left
      /\ os' = SetCurrentFile(os, 1) /\ db' = [db EXCEPT !.phase = "recover"]
  BY DEF NewDBCurrent, History
<1>3. Calm("none")
  BY <1>1, <1>2, Budgeted DEF Calm
<1>4. /\ db = [Down EXCEPT !.phase = "newdb"] /\ os.dir.current = 0
      /\ Manifest(1) \in os.dir.files /\ os.data[Manifest(1)] = <<FirstEdit>>
  BY <1>1, <1>2 DEF PhaseInv, FirstEdit
<1>5. /\ issued' \in Nat /\ acked' = {} /\ os.dir.files \subseteq {Manifest(1)}
      /\ \A e \in os.dirs : e.current = 0
  BY <1>1, <1>2, <1>4 DEF SoundFiles, Counted
<1>6. PICK d, s, w : d = [files |-> os.dir.files, current |-> 1] /\ s = <<FirstEdit>>
                     /\ w = [tables |-> {}, log |-> 0, next |-> 2, seq |-> 0]
  OBVIOUS
<1>7. /\ IsOS(os') /\ os'.dir = d /\ \A g : Named(os'.dirs, g) => SameFile(os, os', g)
  BY <1>1, <1>2, <1>6, SettingCurrent
<1>8. os'.dir \in os'.dirs /\ Dirs' = {d}
  <2>1. os'.dir \in os'.dirs /\ os.dir \in os.dirs
    BY <1>1, <1>7 DEF IsOS
  <2>2. os'.dirs = {os'.dir} \cup IF FsyncLinks THEN {os.dir} ELSE os.dirs
    BY <1>1, <1>2, SettingCurrent
  <2>3. \A e \in os'.dirs : e = d \/ e.current = 0
    BY <1>5, <1>7, <2>1, <2>2
  <2> QED
    BY <1>7, <2>1, <2>3 DEF Dirs
<1>9. os'.data[Manifest(1)] = s /\ Manifest(1) \in d.files /\ d.current = 1
  <2>1. Named(os'.dirs, Manifest(1))
    BY <1>4, <1>6, <1>7, <1>8 DEF Named
  <2> QED
    BY <1>4, <1>6, <1>7, <2>1 DEF SameFile
<1>10. /\ s \in Seq(Edit) /\ Len(s) = 1 /\ Versions(s)[1] = w
  BY <1>6, FirstVersion
<1>11. Numbers(d.files, "log") = {}
  <2>1. d.files \in SUBSET File /\ \A n : Log(n) \notin d.files
    BY <1>5, <1>6, <1>7, TypedOS, Names
  <2> QED
    BY <2>1, LogNumbers
<1>12. Records(os') = s /\ Recovered(os') = w
  BY <1>7, <1>9, <1>10 DEF Records, Recovered
<1>13. Reopened(os') = {}
  <2>1. LiveLogs(os') = {}
    BY <1>7, <1>11 DEF LiveLogs
  <2>2. InTables(os', w.tables) = {} /\ InLogs(os', {}) = {}
    BY <1>6 DEF InTables, InLogs
  <2> QED
    BY <1>12, <2>1, <2>2 DEF Reopened
<1>14. SoundVersion(d, w)'
  <2>1. HasTables(d, w)'
    BY <1>6 DEF HasTables
  <2>2. Finds(d, w)'
    BY <1>6, <1>11 DEF Finds, LogsOf
  <2>3. /\ d.current < w.next /\ w.log \in 0..w.next - 1 /\ w.seq <= issued'
        /\ w.next <= w.next /\ w.log <= w.log
    BY <1>5, <1>6, <1>9
  <2> QED
    BY <1>5, <1>12, <2>1, <2>2, <2>3 DEF SoundVersion
<1>15. SoundDir(d)'
  <2>1. Edits(d)' = s /\ Kept(Manifest(d.current))' = 1
    BY <1>5, <1>9, <1>10 DEF Edits, Kept
  <2>2. Cuts(d)' = {1}
    BY <1>10, <2>1 DEF Cuts
  <2>3. At(d, 1)' = w
    BY <1>10, <2>1 DEF At
  <2>4. \A k \in Cuts(d)' : SoundVersion(d, At(d, k))'
    <3> SUFFICES ASSUME NEW k \in Cuts(d)', NEW v, v = At(d, k)'
                 PROVE  SoundVersion(d, v)'
      OBVIOUS
    <3> QED
      BY <1>14, <2>2, <2>3
  <2>5. \A i \in 1..Len(s) - 1 : ~s[i].torn
    BY <1>10
  <2> QED
    BY <1>9, <1>11, <2>1, <2>4, <2>5 DEF SoundDir
<1>16. SoundFiles'
  BY <1>7, <1>8, <1>9, <1>15 DEF SoundFiles
<1>17. Reopened(os) = {}
  BY <1>4 DEF Reopened
<1>18. Counted'
  BY <1>1, <1>3, <1>13, StillCounted
<1>19. db' = [Down EXCEPT !.phase = "recover"] /\ db'.phase = "recover"
  BY <1>2, <1>4 DEF Down
<1>20. db' \in Process
  BY <1>19, DownIsProcess DEF Process
<1>21. PhaseInv'
  BY <1>7, <1>9, <1>19 DEF PhaseInv
<1>22. Apart'
  <2>1. ~db'.bg_error /\ ~db'.has_imm /\ db'.flush = 0 /\ db'.merge = NoMerge
    BY <1>19 DEF Down
  <2> QED
    BY <1>1, <1>3, <2>1, ApartAfresh DEF Calm, Counted
<1> QED
  BY <1>7, <1>13, <1>16, <1>17, <1>18, <1>20, <1>21, <1>22 DEF Fine, DBInv

\* A directory without CURRENT, or with an empty MANIFEST, holds nothing.
LEMMA NothingThere ==
    ASSUME NEW o, o.dir.current = 0 \/ Records(o) = <<>>
    PROVE  Reopened(o) = {}
<1>1. CASE o.dir.current = 0
  BY <1>1 DEF Reopened
<1>2. CASE Records(o) = <<>>
  <2>1. PICK s : s = <<>>
    OBVIOUS
  <2>2. s \in Seq(Edit) /\ Len(s) = 0
    BY <2>1
  <2>3. Recovered(o) = Nothing
    BY <1>2, <2>1, <2>2, VersionsStepwise DEF Recovered
  <2>4. ~Readable(o)
    BY <2>3 DEF Readable, Nothing
  <2> QED
    BY <2>4 DEF Reopened
<1> QED
  BY <1>1, <1>2

\* The phase of a process that is not there.
LEMMA DownIsDown == Down = [Down EXCEPT !.phase = "down"]
<1>1. PICK d : d = Down
  OBVIOUS
<1>2. d.phase = "down"
  BY <1>1 DEF Down
<1>3. d = [x \in DOMAIN d |-> d[x]]
  BY <1>1 DEF Down
<1>4. [d EXCEPT !.phase = "down"] = [x \in DOMAIN d |-> IF x = "phase" THEN "down" ELSE d[x]]
  BY <1>3
<1>5. \A x \in DOMAIN d : d[x] = IF x = "phase" THEN "down" ELSE d[x]
  BY <1>2
<1> QED
  BY <1>1, <1>3, <1>4, <1>5

\* A power cut that leaves CURRENT and an empty first MANIFEST.
LEMMA LosesDescriptor ==
    ASSUME IsOS(os'), left' \in [Occasions -> Nat], db' = Down, acked' = {},
           os'.dirs = {os'.dir}, os'.dir.current = 1, Manifest(1) \in os'.dir.files,
           os'.data[Manifest(1)] = <<>>
    PROVE  Lost' /\ Reopened(os') = {}
<1>1. Records(os') = <<>>
  <2>1. Manifest(os'.dir.current) = Manifest(1)
    OBVIOUS
  <2> QED
    BY <2>1 DEF Records
<1>2. db' = [Down EXCEPT !.phase = "down"]
  BY DownIsDown
<1> QED
  BY <1>1, <1>2, NothingThere DEF Lost, DescriptorLost

\* The creation undone, the first MANIFEST lost, or files as sound as they were.
LEMMA PowerCutIsSafe ==
    ASSUME DBInv, Creation, PowerCut
    PROVE  FilesInv' /\ Reopened(os') \subseteq Reopened(os) /\ acked' = acked
<1>1. IsOS(os) /\ db \in Process /\ Counted /\ SoundFiles /\ Apart
  BY DEF DBInv
<1>2. Spend("cuts") /\ db' = Down /\ issued' = issued /\ acked' = acked
  BY DEF PowerCut
<1>3. Spends("cuts") /\ left.cuts > 0 /\ Lossy
  BY <1>1, <1>2, Budgeted DEF Spend, Occasions, Lossy
<1>4. PICK d \in os.dirs : WasCut(d)
  BY <1>1, Cutting
<1>5. /\ IsOS(os') /\ os'.dir = d /\ os'.dirs = {d}
      /\ \A f \in d.files : Remains(f)
  BY <1>4 DEF WasCut
<1>6. left' \in [Occasions -> Nat] /\ left'.writes = left.writes
  BY <1>3 DEF Spends, Occasions
<1>7. PICK M : M = Manifest(1)
  OBVIOUS
<1>8. /\ M \in d.files => Len(os.data[M]) <= 1
      /\ d.current = 0 => d.files \subseteq {M} /\ acked = {}
      /\ d.current = 1 /\ M \in d.files /\ acked # {} => os.synced[M] = 1
  BY <1>7 DEF Creation
<1>9. M \in d.files =>
         /\ Len(os'.data[M]) \in Nat /\ Len(os'.data[M]) <= Len(os.data[M])
         /\ os.synced[M] <= Len(os'.data[M]) /\ os'.synced[M] = Len(os'.data[M])
         /\ Len(os.data[M]) \in Nat /\ (Len(os'.data[M]) = 0 => os'.data[M] = <<>>)
  <2> SUFFICES ASSUME M \in d.files
               PROVE  /\ Len(os'.data[M]) \in Nat /\ Len(os'.data[M]) <= Len(os.data[M])
                      /\ os.synced[M] <= Len(os'.data[M]) /\ os'.synced[M] = Len(os'.data[M])
                      /\ Len(os.data[M]) \in Nat /\ (Len(os'.data[M]) = 0 => os'.data[M] = <<>>)
    OBVIOUS
  <2>1. Named(os.dirs, M) /\ Named(os'.dirs, M) /\ Remains(M)
    BY <1>5 DEF Named
  <2>2. M[1] = "manifest"
    BY <1>7, Names
  <2>3. /\ os.synced[M] \in 0..Len(os.data[M]) /\ Len(os.data[M]) \in Nat
        /\ os'.data[M] \in Seq(Edit)
    BY <1>1, <1>5, <2>1, <2>2, FileExists
  <2>4. Len(os'.data[M]) \in os.synced[M]..Len(os.data[M]) /\ os'.synced[M] = Len(os'.data[M])
    BY <2>1 DEF Remains
  <2>5. \A x \in Seq(Edit) : Len(x) \in Nat /\ (Len(x) = 0 => x = <<>>)
    OBVIOUS
  <2> QED
    BY <2>3, <2>4, <2>5
<1>10. db' \in Process /\ PhaseInv' /\ Apart'
  BY <1>1, <1>2, <1>3, Dying DEF Counted
<1>11. Creation'
  <2>1. db'.manifest # 1
    BY <1>2 DEF Down
  <2>2. /\ M \in d.files => Len(os'.data[M]) <= 1
        /\ d.current = 0 => d.files \subseteq {M} /\ acked' = {}
        /\ d.current = 1 /\ M \in d.files /\ acked' # {} => os'.synced[M] = 1
    <3>1. M \in d.files => os.synced[M] \in Nat
      BY <1>1, FileExists DEF Named
    <3> QED
      BY <1>2, <1>8, <1>9, <3>1
  <2> QED
    BY <1>5, <1>7, <2>1, <2>2 DEF Creation
<1>12. ASSUME SoundFiles', Reopened(os') \subseteq Reopened(os)
       PROVE  FilesInv'
  <2>1. Counted'
    BY <1>1, <1>2, <1>6, <1>12 DEF Counted
  <2> QED
    BY <1>5, <1>10, <1>11, <1>12, <2>1 DEF DBInv, FilesInv
<1>13. CASE d.current = 0
  <2>1. Reopened(os') = {}
    BY <1>5, <1>13, NothingThere
  <2>2. SoundFiles'
    BY <1>2, <1>5, <1>7, <1>8, <1>13 DEF SoundFiles
  <2> QED
    BY <1>2, <1>12, <2>1, <2>2
<1>14. CASE d.current # 0
  <2>1. os.dir.current # 0 /\ d \in Dirs
    BY <1>1, <1>3, <1>14 DEF SoundFiles, Dirs
  <2>2. Manifest(d.current) \in d.files
    BY <1>1, <2>1 DEF SoundFiles, SoundDir
  <2>3. CASE d.current = 1 /\ os'.data[M] = <<>>
    <3>1. acked = {}
      <4>1. Len(<<>>) = 0
        OBVIOUS
      <4>2. Len(os'.data[M]) = 0
        BY <2>3, <4>1, Zenon
      <4>3. os.synced[M] # 1
        BY <1>7, <1>9, <2>2, <2>3, <4>2
      <4> QED
        BY <1>7, <1>8, <2>2, <2>3, <4>3
    <3>2. Lost' /\ Reopened(os') = {}
      BY <1>2, <1>5, <1>6, <1>7, <2>2, <2>3, <3>1, LosesDescriptor
    <3> QED
      BY <1>2, <3>2 DEF FilesInv
  <2>4. CASE ~(d.current = 1 /\ os'.data[M] = <<>>)
    <3>1. d.current = 1 => Len(os'.data[Manifest(1)]) = Len(os.data[Manifest(1)])
      BY <1>7, <1>8, <1>9, <2>2, <2>4
    <3>2. SoundFiles' /\ Reopened(os') \subseteq Reopened(os)
      BY <1>1, <1>2, <1>3, <1>4, <1>14, <2>1, <3>1, CutIsSound
    <3> QED
      BY <1>2, <1>12, <3>2
  <2> QED
    BY <2>3, <2>4
<1> QED
  BY <1>13, <1>14

-----------------------------------------------------------------------------
(* An open database.                                                       *)

LEMMA OpenFacts ==
    ASSUME DBInv, db.phase = "open"
    PROVE  /\ IsOS(os) /\ db \in Process /\ Counted /\ SoundFiles /\ Apart
           /\ Running /\ os.dir.current # 0 /\ KnownDirs /\ KnownHere
           /\ (~db.bg_error => Working)
<1>1. IsOS(os) /\ db \in Process /\ Counted /\ SoundFiles /\ Apart /\ Running
      /\ (~db.bg_error => Working)
  BY DEF DBInv, PhaseInv
<1>2. os.dir.current # 0
  BY <1>1 DEF Running
<1> QED
  BY <1>1, <1>2, DirFiles, Here

\* LogAndApply under way while the step changes nothing it is about.
Steady ==
    /\ Recovered(os') = Recovered(os) /\ os'.dir.current = os.dir.current
    /\ os'.data[Manifest(os.dir.current)] = os.data[Manifest(os.dir.current)]
    /\ \A n : Table(n) \in os.dir.files =>
          /\ Table(n) \in os'.dir.files /\ os'.data[Table(n)] = os.data[Table(n)]
          /\ Kept(Table(n))' = Kept(Table(n))
    /\ \A d \in Dirs' : /\ d.current = os.dir.current
                        /\ \A n : /\ Table(n) \in os.dir.files
                                  /\ \A x \in Dirs : Table(n) \in x.files
                                  => Table(n) \in d.files

LEMMA StillApplying ==
    ASSUME Applying, Running, KnownHere, Steady, db \in Process, db' \in Process,
           db'.apply = db.apply, db'.bg_error = db.bg_error, db'.tables = db.tables,
           db'.merge = db.merge, db'.flush = db.flush, db'.log_number = db.log_number,
           db.next <= db'.next,
           db.apply.who = "merge" \/ (/\ db'.has_imm = db.has_imm /\ db'.imm = db.imm
                                      /\ db'.log = db.log)
    PROVE  Applying'
<1>1. PICK edit, step, who, R :
         /\ edit = db.apply.edit /\ step = db.apply.step /\ who = db.apply.who
         /\ R = Recovered(os)
  OBVIOUS
<1>2. /\ ~db.apply.new /\ ~db.bg_error /\ step \in {"append", "sync"} /\ ~edit.torn
      /\ (who = "flush" /\ FlushEdit) \/ (who = "merge" /\ MergeEdit)
      /\ \A n \in edit.add : n < db.next /\ Whole(n)
      /\ \A d \in Dirs : /\ d.current = os.dir.current
                         /\ \A n \in edit.add : Table(n) \in d.files
      /\ step = "sync" =>
            /\ edit.next \in 1..db.next
            /\ R.tables = (db.tables \ edit.del) \cup edit.add /\ R.log = edit.log
            /\ \A i \in 1..Len(Edits(os.dir)) : ~Edits(os.dir)[i].torn
  BY <1>1 DEF Applying
<1>3. os.dir \in Dirs
  BY DEF KnownHere
<1>4. \A n \in edit.add : /\ Table(n) \in os.dir.files /\ Table(n) \in os'.dir.files
                          /\ os'.data[Table(n)] = os.data[Table(n)]
                          /\ Kept(Table(n))' = Kept(Table(n))
  BY <1>2, <1>3 DEF Steady
<1>5. \A n \in edit.add : n < db'.next /\ Whole(n)'
  <2>1. edit.add \subseteq Nat /\ db.next \in Nat /\ db'.next \in Nat
    BY <1>1 DEF Process, Edit
  <2>2. \A n \in edit.add : n < db'.next
    BY <1>2, <2>1
  <2> QED
    BY <1>2, <1>4, <2>2 DEF Whole
<1>6. \A d \in Dirs' : /\ d.current = os'.dir.current
                       /\ \A n \in edit.add : Table(n) \in d.files
  BY <1>2, <1>4 DEF Steady
<1>7. (who = "flush" /\ FlushEdit') \/ (who = "merge" /\ MergeEdit')
  <2>1. CASE who = "flush"
    <3>1. FlushEdit /\ db'.has_imm = db.has_imm /\ db'.imm = db.imm /\ db'.log = db.log
      BY <1>1, <1>2, <2>1
    <3>2. FlushEdit'
      BY <1>1, <1>4, <3>1 DEF FlushEdit
    <3> QED
      BY <2>1, <3>2
  <2>2. CASE who = "merge"
    <3>1. MergeEdit
      BY <1>2, <2>2
    <3>2. \A n \in db.merge.inputs : Table(n) \in os.dir.files
      BY DEF Running, InUse
    <3>3. \A n \in db.merge.inputs : TableData(os', n) = TableData(os, n)
      <4>1. \A n \in db.merge.inputs : /\ Table(n) \in os'.dir.files
                                       /\ os'.data[Table(n)] = os.data[Table(n)]
        BY <3>2 DEF Steady
      <4> QED
        BY <3>2, <4>1 DEF TableData, TableOK
    <3>4. InTables(os', db.merge.inputs) = InTables(os, db.merge.inputs)
      BY <3>3 DEF InTables
    <3>5. DataOf(db.merge.out)' = DataOf(db.merge.out)
      <4>1. db.merge.out \in edit.add
        BY <1>1, <3>1 DEF MergeEdit
      <4> QED
        BY <1>4, <4>1 DEF DataOf
    <3>6. MergeEdit'
      BY <1>1, <3>1, <3>4, <3>5 DEF MergeEdit
    <3> QED
      BY <2>2, <3>6
  <2> QED
    BY <1>2, <2>1, <2>2
<1>8. ASSUME step = "sync"
      PROVE  /\ edit.next \in 1..db'.next
             /\ Recovered(os').tables = (db'.tables \ edit.del) \cup edit.add
             /\ Recovered(os').log = edit.log
             /\ \A i \in 1..Len(Edits(os.dir)') : ~Edits(os.dir)'[i].torn
  <2>1. Edits(os.dir)' = Edits(os.dir)
    BY DEF Steady, Edits
  <2>2. edit.next \in 1..db'.next
    <3>1. db.next \in Nat /\ db'.next \in Nat
      BY DEF Process
    <3>2. edit.next \in 1..db.next
      BY <1>2, <1>8
    <3> QED
      BY <3>1, <3>2
  <2> QED
    BY <1>1, <1>2, <1>8, <2>1, <2>2 DEF Steady
<1> QED
  BY <1>1, <1>2, <1>5, <1>6, <1>7, <1>8 DEF Applying

LEMMA Iterating ==
    ASSUME DBInv, Open, NEW what, Calm(what), os' = os,
           NEW p, p \subseteq {db.tables}, db' = [db EXCEPT !.pinned = p]
    PROVE  Fine
<1>1. /\ IsOS(os) /\ db \in Process /\ Counted /\ SoundFiles /\ Apart
      /\ Running /\ os.dir.current # 0 /\ KnownDirs /\ KnownHere
      /\ (~db.bg_error => Working) /\ db.doomed = {} /\ db.phase = "open"
  BY OpenFacts DEF Open
<1>2. IsOS(os') /\ SoundFiles' /\ Dirs' = Dirs /\ \A f : Kept(f)' = Kept(f)
  BY <1>1, Unmoved
<1>3. db' \in Process
  <2>1. p \in SUBSET SUBSET Nat
    BY <1>1 DEF Process
  <2> QED
    BY <1>1, <2>1 DEF Process
<1>4. /\ db'.phase = db.phase /\ db'.mem = db.mem /\ db'.imm = db.imm /\ db'.has_imm = db.has_imm
      /\ db'.log = db.log /\ db'.tables = db.tables /\ db'.log_number = db.log_number
      /\ db'.next = db.next /\ db'.seq = db.seq /\ db'.manifest = db.manifest
      /\ db'.bg_error = db.bg_error /\ db'.outputs = db.outputs /\ db'.pinned = p
      /\ db'.flush = db.flush /\ db'.merge = db.merge /\ db'.doomed = db.doomed
      /\ db'.apply = db.apply
  BY <1>1 DEF Process
<1>5. issued' = issued /\ acked' = acked
  BY DEF Calm
<1>6. Running'
  <2>1. TypeOK'
    BY <1>1, <1>4 DEF Running, TypeOK
  <2>2. InUse' \subseteq InUse
    BY <1>4 DEF InUse
  <2>3. \A n \in InUse' : Table(n) \in os'.dir.files /\ n < db'.next /\ Len(os'.data[Table(n)]) = 1
    BY <1>1, <1>4, <2>2 DEF Running
  <2>4. ASSUME db.apply # NoApply
        PROVE  Applying'
    <3>1. Applying
      BY <1>1, <2>4 DEF Running
    <3>2. \A d \in Dirs : d.current = os.dir.current
      BY <3>1 DEF Applying
    <3>3. Steady
      BY <1>1, <1>2, <3>2 DEF Steady
    <3>4. db.next <= db'.next
      BY <1>1, <1>4 DEF Process
    <3> QED
      BY <1>1, <1>3, <1>4, <3>1, <3>3, <3>4, StillApplying
  <2>5. /\ os'.dir.current # 0 /\ db'.manifest = os'.dir.current
        /\ Recovered(os').next <= db'.next /\ db'.seq <= issued'
        /\ db'.merge.inputs \subseteq db'.tables
        /\ db'.flush # 0 => Empty(db.flush)'
    BY <1>1, <1>4, <1>5 DEF Running, Empty
  <2>6. db'.merge # NoMerge =>
           /\ db'.merge.out # 0 /\ db'.merge.out # db'.flush
           /\ Table(db'.merge.out) \in os'.dir.files /\ db'.merge.out < db'.next
           /\ db'.apply.who # "merge" => Empty(db.merge.out)'
    BY <1>1, <1>4 DEF Running, Empty
  <2>7. /\ Log(db'.log) \in os'.dir.files /\ Recovered(os').log <= db'.log
        /\ \A n \in Numbers(os'.dir.files, "log") : n < db'.next
        /\ db'.bg_error => db'.merge = NoMerge /\ db'.flush = 0 /\ db'.apply = NoApply /\ db'.doomed = {}
        /\ db'.doomed = {}
    BY <1>1, <1>4 DEF Running
  <2> QED
    BY <2>1, <2>3, <2>4, <2>5, <2>6, <2>7 DEF Running
<1>7. ~db'.bg_error => Working'
  <2> SUFFICES ASSUME ~db.bg_error
               PROVE  Working'
    BY <1>4
  <2>1. Working
    BY <1>1
  <2>2. Memory' = Memory
    BY <1>4 DEF Memory
  <2>3. db'.apply.step # "sync" => Settled'
    BY <1>2, <1>4, <2>1 DEF Working, Settled, Edits
  <2> QED
    BY <1>4, <2>1, <2>2, <2>3 DEF Working
<1>8. PhaseInv'
  BY <1>1, <1>4, <1>6, <1>7 DEF PhaseInv
<1>9. Apart'
  BY <1>1, <1>4, ApartAsBefore DEF Calm, Counted
<1>10. Counted'
  BY <1>1, StillCounted
<1> QED
  BY <1>2, <1>3, <1>8, <1>9, <1>10 DEF Fine, DBInv

LEMMA IteratorsAreFine == DBInv /\ (NewIterator \/ DeleteIterator) => Fine
<1>1. ASSUME DBInv, NewIterator
      PROVE  Fine
  <2>1. Open /\ os' = os /\ db' = [db EXCEPT !.pinned = {db.tables}] /\ Spend("iterators")
        /\ issued' = issued /\ acked' = acked
    BY <1>1 DEF NewIterator
  <2>2. Calm("iterators")
    BY <1>1, <2>1, Budgeted DEF Calm, Occasions, DBInv
  <2>3. PICK p : p = {db.tables}
    OBVIOUS
  <2> QED
    BY <1>1, <2>1, <2>2, <2>3, Iterating
<1>2. ASSUME DBInv, DeleteIterator
      PROVE  Fine
  <2>1. Open /\ os' = os /\ db' = [db EXCEPT !.pinned = {}] /\ UNCHANGED History
    BY <1>2 DEF DeleteIterator
  <2>2. Calm("none")
    BY <1>2, <2>1, Budgeted DEF Calm, History, DBInv
  <2> QED
    BY <1>2, <2>1, <2>2, Iterating
<1> QED
  BY <1>1, <1>2

-----------------------------------------------------------------------------
(* Steps of an open database that touch one file, which is neither read    *)
(* nor written to by others.                                               *)

\* What the step does to the files.
Keeping(f) ==
    /\ Same /\ IsOS(os') /\ os'.dir.current = os.dir.current /\ Stay(f)
    /\ \A g \in os'.dir.files : g # f => g \in os.dir.files

\* The file is none of those in use.
Avoids(f) ==
    /\ f # Manifest(os.dir.current) /\ f # Log(db.log) /\ (db.has_imm => f # Log(db.log_number))
    /\ \A n \in InUse : f # Table(n)

\* The process remembers what it did; tables may be under way.
Unaltered ==
    /\ db'.phase = db.phase /\ db'.mem = db.mem /\ db'.imm = db.imm /\ db'.has_imm = db.has_imm
    /\ db'.log = db.log /\ db'.tables = db.tables /\ db'.log_number = db.log_number
    /\ db'.seq = db.seq /\ db'.manifest = db.manifest /\ db'.bg_error = db.bg_error
    /\ db'.pinned = db.pinned /\ db.next <= db'.next /\ db' \in Process

\* The directory of an open database.
LEMMA OpenDir ==
    ASSUME DBInv, db.phase = "open"
    PROVE  /\ os.dir \in Dirs /\ os.dir \in Dir /\ os.dir.files \in SUBSET File
           /\ Manifest(os.dir.current) \in os.dir.files /\ Edits(os.dir) \in Seq(Edit)
           /\ db.log \in Nat /\ db.next \in Nat /\ db.tables \subseteq Nat /\ db.seq \in Nat
<1>1. IsOS(os) /\ SoundFiles /\ os.dir.current # 0 /\ KnownDirs /\ KnownHere /\ db \in Process
  BY OpenFacts
<1>2. os.dir \in Dirs
  BY <1>1 DEF KnownHere
<1>3. Manifest(os.dir.current) \in os.dir.files /\ Edits(os.dir) \in Seq(Edit)
  BY <1>1, <1>2, Sound
<1>4. os.dir \in Dir /\ os.dir.files \in SUBSET File
  BY <1>1, <1>2 DEF KnownDirs
<1>5. db.log \in Nat /\ db.next \in Nat /\ db.tables \subseteq Nat /\ db.seq \in Nat
  BY <1>1 DEF Process
<1> QED
  BY <1>2, <1>3, <1>4, <1>5

LEMMA StaysWorking ==
    ASSUME DBInv, db.phase = "open", ~db.bg_error, db.apply.step # "sync",
           NEW f \in File, Keeping(f), Avoids(f), f[1] = "log" => f \in os.dir.files,
           Unaltered, db'.flush # 0 => db.has_imm
    PROVE  Settled' /\ Working'
<1>0. Running /\ Working
  BY OpenFacts
<1>1. /\ Settled /\ Memory = Reopened(os) /\ \A r \in Memory : r.seq <= db.seq
      /\ \A n \in Numbers(os.dir.files, "log") : n >= db.log_number => n \in {db.log_number, db.log}
      /\ ToSet(os.data[Log(db.log)]) = db.mem
      /\ IF db.has_imm
         THEN /\ db.log_number < db.log /\ Log(db.log_number) \in os.dir.files
              /\ ToSet(os.data[Log(db.log_number)]) = db.imm
         ELSE db.log_number = db.log /\ db.imm = {} /\ db.flush = 0
  BY <1>0 DEF Working
<1>2. /\ Recovered(os') = Recovered(os) /\ Reopened(os') = Reopened(os)
      /\ IsOS(os') /\ os'.dir.current = os.dir.current /\ Stay(f)
      /\ \A g \in os'.dir.files : g # f => g \in os.dir.files
  BY DEF Keeping, Same
<1>3. Manifest(os.dir.current) \in os.dir.files /\ os.dir.files \in SUBSET File
  BY OpenDir
<1>4. Settled'
  <2>1. /\ os'.data[Manifest(os.dir.current)] = os.data[Manifest(os.dir.current)]
        /\ Kept(Manifest(os.dir.current))' = Kept(Manifest(os.dir.current))
    BY <1>2, <1>3 DEF Avoids, Stay
  <2> QED
    BY <1>1, <1>2, <2>1 DEF Settled, Unaltered, Edits
<1>5. \A n \in db.tables : Table(n) \in os.dir.files /\ Table(n) # f
  BY <1>0 DEF Running, InUse, Avoids
<1>6. InTables(os', db.tables) = InTables(os, db.tables)
  BY <1>2, <1>5, TablesStay
<1>7. Memory' = Reopened(os') /\ \A r \in Memory' : r.seq <= db'.seq
  BY <1>1, <1>2, <1>6 DEF Memory, Unaltered
<1>8. os'.data[Log(db.log)] = os.data[Log(db.log)]
  BY <1>0, <1>2 DEF Running, Stay, Avoids
<1>9. db.has_imm => /\ Log(db.log_number) \in os'.dir.files
                    /\ os'.data[Log(db.log_number)] = os.data[Log(db.log_number)]
  BY <1>1, <1>2 DEF Stay, Avoids
<1>10. \A n \in Numbers(os'.dir.files, "log") : n \in Numbers(os.dir.files, "log")
  <2>1. os'.dir.files \in SUBSET File /\ os.dir.files \in SUBSET File
    BY <1>2, <1>3, TypedOS
  <2> SUFFICES ASSUME NEW n \in Numbers(os'.dir.files, "log")
               PROVE  n \in Numbers(os.dir.files, "log")
    OBVIOUS
  <2>2. Log(n) \in os'.dir.files /\ n \in Nat
    BY <2>1, LogNumbers
  <2>3. Log(n) \in os.dir.files
    BY <1>2, <2>2, Names
  <2> QED
    BY <2>1, <2>2, <2>3, LogNumbers
<1> QED
  BY <1>1, <1>4, <1>7, <1>8, <1>9, <1>10 DEF Working, Unaltered

\* The part of Running that is not about what is under way.
Grounded ==
    /\ os.dir.current # 0 /\ db.manifest = os.dir.current
    /\ Recovered(os).next <= db.next /\ db.seq <= issued
    /\ \A n \in InUse : Table(n) \in os.dir.files /\ n < db.next /\ Len(os.data[Table(n)]) = 1
    /\ Log(db.log) \in os.dir.files /\ Recovered(os).log <= db.log
    /\ \A n \in Numbers(os.dir.files, "log") : n < db.next

LEMMA StaysGrounded ==
    ASSUME DBInv, db.phase = "open", NEW what, Calm(what),
           NEW f \in File, Keeping(f), Avoids(f), f[1] = "log" => f \in os.dir.files, Unaltered
    PROVE  Grounded'
<1>1. Running /\ Recovered(os) \in Version /\ db \in Process /\ db' \in Process
  BY OpenFacts DEF KnownHere, Unaltered
<1>2. /\ Recovered(os') = Recovered(os) /\ os'.dir.current = os.dir.current /\ Stay(f)
      /\ \A g \in os'.dir.files : g # f => g \in os.dir.files
  BY DEF Keeping, Same
<1>3. db.next \in Nat /\ db'.next \in Nat /\ db.next <= db'.next /\ Recovered(os).next \in Nat
  BY <1>1 DEF Process, Version, Unaltered
<1>4. Recovered(os').next <= db'.next
  BY <1>1, <1>2, <1>3 DEF Running
<1>5. \A n \in InUse' : Table(n) \in os'.dir.files /\ n < db'.next /\ Len(os'.data[Table(n)]) = 1
  <2> SUFFICES ASSUME NEW n \in InUse'
               PROVE  Table(n) \in os'.dir.files /\ n < db'.next /\ Len(os'.data[Table(n)]) = 1
    OBVIOUS
  <2>1. n \in InUse /\ n \in Nat
    BY <1>1 DEF InUse, Unaltered, Process
  <2>2. Table(n) \in os.dir.files /\ n < db.next /\ Len(os.data[Table(n)]) = 1 /\ Table(n) # f
    BY <1>1, <2>1 DEF Running, Avoids
  <2>3. Table(n) \in os'.dir.files /\ os'.data[Table(n)] = os.data[Table(n)]
    BY <1>2, <2>2 DEF Stay
  <2> QED
    BY <1>3, <2>1, <2>2, <2>3
<1>6. Log(db.log) \in os'.dir.files
  BY <1>1, <1>2 DEF Running, Avoids, Stay
<1>7. \A n \in Numbers(os'.dir.files, "log") : n < db'.next
  <2> SUFFICES ASSUME NEW n \in Numbers(os'.dir.files, "log")
               PROVE  n < db'.next
    OBVIOUS
  <2>1. os'.dir.files \in SUBSET File /\ os.dir.files \in SUBSET File
    BY TypedOS, OpenDir DEF Keeping
  <2>2. Log(n) \in os'.dir.files /\ n \in Nat
    BY <2>1, LogNumbers
  <2>3. n \in Numbers(os.dir.files, "log")
    BY <1>2, <2>1, <2>2, LogNumbers, Names
  <2> QED
    BY <1>1, <1>3, <2>2, <2>3 DEF Running
<1> QED
  BY <1>1, <1>2, <1>4, <1>5, <1>6, <1>7 DEF Grounded, Running, Unaltered, Calm

\* What is obsolete is of no use to anybody.
LEMMA ObsoleteIsUnused ==
    ASSUME DBInv, db.phase = "open", ~db.bg_error, NEW f \in Obsolete(os, db)
    PROVE  /\ Avoids(f) /\ f \in os.dir.files /\ f \in File
           /\ \A n \in db.outputs : f # Table(n)
<1>1. Running /\ Working /\ os.dir.files \in SUBSET File /\ db.log \in Nat /\ db.log_number \in Nat
      /\ db.manifest \in Nat
  BY OpenFacts, OpenDir DEF Process
<1>2. f \in os.dir.files /\ \/ f[1] = "log" /\ f[2] < db.log_number
                            \/ f[1] = "manifest" /\ f[2] < db.manifest
                            \/ f[1] = "table" /\ f[2] \notin db.tables \cup db.outputs \cup UNION db.pinned
  BY DEF Obsolete
<1>3. db.manifest = os.dir.current /\ db.log_number <= db.log
  BY <1>1 DEF Running, Working
<1>4. f # Manifest(os.dir.current) /\ f # Log(db.log) /\ f # Log(db.log_number)
  BY <1>1, <1>2, <1>3, Names
<1>5. \A n \in InUse \cup db.outputs : f # Table(n)
  BY <1>2, Names DEF InUse
<1> QED
  BY <1>1, <1>2, <1>4, <1>5 DEF Avoids

LEMMA DeleteObsoleteFileIsFine == DBInv /\ DeleteObsoleteFile => Fine
<1> SUFFICES ASSUME DBInv, DeleteObsoleteFile
             PROVE  Fine
  OBVIOUS
<1>1. PICK f \in db.doomed : os' = DeleteFile(os, f) /\ db' = [db EXCEPT !.doomed = @ \ {f}]
  BY DEF DeleteObsoleteFile
<1>2. issued' = issued /\ acked' = acked /\ left' = left
  BY DEF DeleteObsoleteFile, History
<1>3. db.phase = "open"
  BY <1>1 DEF DBInv, PhaseInv, Replaying, Opening, Prepared, Opens, Fresh, Down
<1>4. /\ IsOS(os) /\ db \in Process /\ Counted /\ SoundFiles /\ Apart
      /\ Running /\ os.dir.current # 0 /\ (~db.bg_error => Working)
  BY <1>3, OpenFacts
<1>5. /\ db.apply = NoApply /\ ~db.bg_error /\ db.doomed \cap Obsolete(os, db) = db.doomed
      /\ f \in Obsolete(os, db)
  BY <1>1, <1>4 DEF Running
<1>6. Calm("none")
  BY <1>2, <1>4, Budgeted DEF Calm
<1>7. left'.cuts = left.cuts /\ (Lossy' <=> Lossy)
  BY <1>6, Calmly
<1>8. Working /\ Settled /\ db.manifest = os.dir.current /\ db.apply.step # "sync"
  BY <1>4, <1>5 DEF Running, Working, NoApply
<1>9. Same
  BY <1>1, <1>2, <1>4, <1>5, <1>7, <1>8, DeletedFile
<1>10. Touched(os, os', f)
  BY <1>1, <1>4, Untouched, Deleting
<1>11. Keeping(f)
  BY <1>4, <1>7, <1>9, <1>10, Others DEF Keeping, Stay
<1>12. /\ Avoids(f) /\ f \in os.dir.files /\ f \in File /\ \A n \in db.outputs : f # Table(n)
  BY <1>3, <1>5, ObsoleteIsUnused
<1>13. PICK D : D = db.doomed \ {f}
  OBVIOUS
<1>14. db' = [db EXCEPT !.doomed = D] /\ D \in SUBSET File
  BY <1>1, <1>4, <1>13 DEF Process
<1>15. db' \in Process
  BY <1>4, <1>14 DEF Process
<1>16. /\ db'.flush = db.flush /\ db'.merge = db.merge /\ db'.outputs = db.outputs
       /\ db'.apply = NoApply /\ db'.doomed = D /\ db'.phase = "open" /\ ~db'.bg_error
       /\ db'.has_imm = db.has_imm /\ db'.next = db.next /\ db'.tables = db.tables
       /\ db'.log_number = db.log_number /\ db'.manifest = db.manifest /\ db'.pinned = db.pinned
       /\ db'.bg_error = db.bg_error
  BY <1>3, <1>4, <1>5, <1>14 DEF Process
<1>17. Unaltered
  BY <1>4, <1>14, <1>15 DEF Unaltered, Process
<1>18. Grounded'
  BY <1>3, <1>6, <1>11, <1>12, <1>17, StaysGrounded
<1>19. Settled' /\ Working'
  <2>1. db'.flush # 0 => db.has_imm
    BY <1>8, <1>16 DEF Working
  <2> QED
    BY <1>3, <1>5, <1>8, <1>11, <1>12, <1>17, <2>1, StaysWorking
<1>20. \A n \in db.outputs : /\ Table(n) \in os.dir.files =>
                                    /\ Table(n) \in os'.dir.files
                                    /\ os'.data[Table(n)] = os.data[Table(n)]
  BY <1>11, <1>12 DEF Keeping, Stay
<1>21. Running'
  <2>1. TypeOK'
    <3>1. DOMAIN os'.data = DOMAIN os'.synced /\ os'.dir.files \subseteq DOMAIN os'.data
      BY <1>11, TypedOS DEF Keeping
    <3> QED
      BY <1>4, <1>16, <3>1 DEF Running, TypeOK
  <2>2. db.outputs = {db.flush, db.merge.out} \ {0}
    BY <1>4 DEF Running, TypeOK
  <2>3. db'.flush # 0 => Empty(db.flush)'
    BY <1>4, <1>16, <1>20, <2>2 DEF Running, Empty
  <2>4. db'.merge # NoMerge => /\ db'.merge.out # 0 /\ db'.merge.out # db'.flush
                               /\ Table(db'.merge.out) \in os'.dir.files /\ db'.merge.out < db'.next
                               /\ db'.apply.who # "merge" => Empty(db.merge.out)'
    <3>1. db.apply.who # "merge"
      BY <1>5 DEF NoApply
    <3>2. db.merge # NoMerge => /\ db.merge.out # 0 /\ db.merge.out # db.flush
                                /\ Table(db.merge.out) \in os.dir.files /\ db.merge.out < db.next
                                /\ Empty(db.merge.out) /\ db.merge.out \in db.outputs
      BY <1>4, <2>2, <3>1 DEF Running
    <3> QED
      BY <1>16, <1>20, <3>2 DEF Empty
  <2>5. db'.merge.inputs \subseteq db'.tables
    BY <1>4, <1>16 DEF Running
  <2>6. D \cap Obsolete(os', db') = D
    <3> SUFFICES ASSUME NEW g \in D
                 PROVE  g \in Obsolete(os', db')
      OBVIOUS
    <3>1. g \in Obsolete(os, db) /\ g # f
      BY <1>5, <1>13
    <3>2. g \in os'.dir.files
      BY <1>11, <3>1 DEF Obsolete, Keeping, Stay
    <3> QED
      BY <1>16, <3>1, <3>2 DEF Obsolete
  <2> QED
    BY <1>16, <1>18, <2>1, <2>3, <2>4, <2>5, <2>6 DEF Running, Grounded
<1>22. PhaseInv'
  BY <1>16, <1>19, <1>21 DEF PhaseInv
<1>23. Apart'
  BY <1>4, <1>6, <1>16, ApartAsBefore DEF Calm, Counted
<1>24. Reopened(os') = Reopened(os) /\ SoundFiles' /\ IsOS(os')
  BY <1>11 DEF Keeping, Same
<1>25. Counted'
  BY <1>4, <1>6, <1>24, StillCounted
<1> QED
  BY <1>15, <1>22, <1>23, <1>24, <1>25 DEF Fine, DBInv

-----------------------------------------------------------------------------
(* A table is begun and built.                                             *)

\* What the process has under way is the flush and the merge named.
UnderWay(fl, mg, x) ==
    \/ fl = x /\ mg = db.merge /\ db.flush = 0 /\ db.has_imm
    \/ /\ fl = 0 /\ db.flush = 0 /\ db.merge = NoMerge /\ ~db.has_imm /\ mg # NoMerge
       /\ mg.out = x /\ mg.inputs \subseteq db.tables

Begins(fl, mg, x) ==
    /\ db'.flush = fl /\ db'.merge = mg /\ db'.outputs = db.outputs \cup {x} /\ db'.next = x + 1
    /\ db'.apply = NoApply /\ db'.doomed = {} /\ db'.phase = "open" /\ ~db'.bg_error

\* While there is no error, and no LogAndApply, and nothing to delete.
Idle == DBInv /\ Open /\ Quiet /\ ~db.bg_error

LEMMA IdleFacts ==
    ASSUME Idle
    PROVE  /\ IsOS(os) /\ db \in Process /\ Counted /\ SoundFiles /\ Apart
           /\ Running /\ Working /\ os.dir.current # 0 /\ db.phase = "open" /\ db.doomed = {}
           /\ db.apply = NoApply /\ db.apply.step # "sync" /\ db.apply.who # "merge"
           /\ ~db.bg_error /\ KnownHere /\ KnownDirs
<1>1. DBInv /\ db.phase = "open" /\ db.apply = NoApply /\ ~db.bg_error /\ db.doomed = {}
  BY DEF Idle, Open, Quiet
<1>2. db.apply.step # "sync" /\ db.apply.who # "merge"
  BY <1>1 DEF NoApply
<1> QED
  BY <1>1, <1>2, OpenFacts

\* The next number is nobody's.
LEMMA NextIsFree ==
    ASSUME Idle, NEW x, x = db.next
    PROVE  /\ x \in Nat /\ x # 0 /\ Table(x) \in File /\ Avoids(Table(x)) /\ Spare(Table(x))
           /\ \A n \in db.outputs : n # x /\ n < x
<1>1. Running /\ KnownHere /\ db \in Process /\ Recovered(os) \in Version
  BY IdleFacts DEF KnownHere
<1>2. db.next \in Nat /\ Recovered(os).next \in Nat /\ os.dir.current # 0
  BY <1>1 DEF Process, Version, Running
<1>3. os.dir.current \in Nat
  BY OpenDir, IdleFacts DEF Idle, Dir
<1>4. x # 0 /\ x >= Recovered(os).next
  BY <1>1, <1>2, <1>3 DEF Running, KnownHere
<1>5. \A n \in InUse : n # x
  BY <1>1, <1>2 DEF Running
<1>6. \A n \in db.outputs : n # x /\ n < x
  <2>1. db.outputs = {db.flush, db.merge.out} \ {0}
    BY <1>1 DEF Running, TypeOK
  <2>2. db.flush # 0 => db.flush < db.next
    BY <1>1 DEF Running, Empty
  <2>3. db.merge.out # 0 => db.merge.out < db.next
    BY <1>1 DEF Running, NoMerge
  <2> QED
    BY <1>2, <2>1, <2>2, <2>3
<1> QED
  BY <1>2, <1>4, <1>5, <1>6, Names DEF Avoids, Spare

LEMMA BeginningTable ==
    ASSUME Idle, NEW what, Calm(what), NEW x, x = db.next, os' = NewWritableFile(os, Table(x)),
           NEW fl, NEW mg, UnderWay(fl, mg, x), Begins(fl, mg, x), Unaltered, Apart'
    PROVE  Fine
<1>1. /\ IsOS(os) /\ db \in Process /\ Counted /\ SoundFiles /\ Apart /\ DBInv
      /\ Running /\ Working /\ os.dir.current # 0 /\ db.phase = "open" /\ db.doomed = {}
      /\ db.apply = NoApply /\ db.apply.step # "sync" /\ db.apply.who # "merge"
      /\ ~db.bg_error /\ KnownHere /\ KnownDirs
  BY IdleFacts DEF Idle
<1>2. PICK f : f = Table(x)
  OBVIOUS
<1>3. /\ x \in Nat /\ x # 0 /\ f \in File /\ Avoids(f) /\ Spare(f)
      /\ \A n \in db.outputs : n # x /\ n < x
  BY <1>2, NextIsFree
<1>4. Begun(os, os', f)
  BY <1>1, <1>2, <1>3, Creating
<1>5. Touched(os, os', f) /\ f \in os'.dir.files /\ os'.data[f] = <<>>
  BY <1>4 DEF Begun
<1>6. Keeping(f)
  BY <1>1, <1>3, <1>5, SpareStep DEF Keeping
<1>7. f[1] # "log"
  BY <1>2, Names
<1>8. Grounded'
  BY <1>1, <1>3, <1>6, <1>7, StaysGrounded
<1>9. Settled' /\ Working'
  <2>1. db'.flush # 0 => db.has_imm
    BY DEF UnderWay, Begins
  <2> QED
    BY <1>1, <1>3, <1>6, <1>7, <2>1, StaysWorking
<1>10. Empty(x)'
  <2>1. x < db'.next
    BY <1>3 DEF Begins
  <2> QED
    BY <1>2, <1>5, <2>1 DEF Empty
<1>11. ASSUME NEW n \in db.outputs, Empty(n)
       PROVE  Empty(n)'
  <2>1. Table(n) # f /\ n < db'.next
    <3>1. n \in Nat
      BY <1>1 DEF Process
    <3> QED
      BY <1>2, <1>3, <3>1, Names DEF Begins
  <2> QED
    BY <1>6, <1>11, <2>1 DEF Empty, Keeping, Stay
<1>12. db.outputs = {db.flush, db.merge.out} \ {0}
  BY <1>1 DEF Running, TypeOK
<1>13. TypeOK'
  <2>1. DOMAIN os'.data = DOMAIN os'.synced /\ os'.dir.files \subseteq DOMAIN os'.data
    BY <1>6, TypedOS DEF Keeping
  <2>2. db'.outputs = {fl, mg.out} \ {0}
    <3>1. CASE fl = x /\ mg = db.merge /\ db.flush = 0
      BY <1>3, <1>12, <3>1 DEF Begins
    <3>2. CASE fl = 0 /\ db.flush = 0 /\ db.merge = NoMerge /\ mg.out = x
      BY <1>3, <1>12, <3>2 DEF Begins, NoMerge
    <3> QED
      BY <3>1, <3>2 DEF UnderWay
  <2> QED
    BY <2>1, <2>2 DEF TypeOK, Begins
<1>14. /\ db'.merge.inputs \subseteq db'.tables
       /\ db'.flush # 0 => Empty(db.flush)'
       /\ db'.merge # NoMerge => /\ db'.merge.out # 0 /\ db'.merge.out # db'.flush
                                 /\ Table(db'.merge.out) \in os'.dir.files
                                 /\ db'.merge.out < db'.next
                                 /\ db'.apply.who # "merge" => Empty(db.merge.out)'
  <2>0. db'.flush = fl /\ db'.merge = mg /\ db'.tables = db.tables
    BY DEF Begins, Unaltered
  <2>1. CASE fl = x /\ mg = db.merge
    <3>1. db.merge # NoMerge => /\ db.merge.out # 0 /\ db.merge.out \in db.outputs
                                /\ Empty(db.merge.out)
      BY <1>1, <1>12 DEF Running
    <3>2. db.merge # NoMerge => Empty(db.merge.out)' /\ db.merge.out # x
      BY <1>3, <1>11, <2>0, <2>1, <3>1 DEF Empty
    <3>3. db.merge.inputs \subseteq db.tables
      BY <1>1 DEF Running
    <3> QED
      BY <1>10, <2>0, <2>1, <3>1, <3>2, <3>3 DEF Empty
  <2>2. CASE fl = 0 /\ mg # NoMerge /\ mg.out = x /\ mg.inputs \subseteq db.tables
    BY <1>3, <1>10, <2>0, <2>2 DEF Empty
  <2> QED
    BY <2>1, <2>2 DEF UnderWay
<1>15. Running'
  <2>1. /\ db'.apply = NoApply /\ db'.doomed = {} /\ ~db'.bg_error
    BY DEF Begins
  <2>2. /\ os'.dir.current # 0 /\ db'.manifest = os'.dir.current
        /\ Recovered(os').next <= db'.next /\ db'.seq <= issued'
        /\ \A n \in InUse' : Table(n) \in os'.dir.files /\ n < db'.next /\ Len(os'.data[Table(n)]) = 1
        /\ Log(db'.log) \in os'.dir.files /\ Recovered(os').log <= db'.log
        /\ \A n \in Numbers(os'.dir.files, "log") : n < db'.next
    BY <1>8 DEF Grounded
  <2> QED
    BY <1>13, <1>14, <2>1, <2>2 DEF Running
<1>16. PhaseInv'
  BY <1>9, <1>15 DEF PhaseInv, Begins
<1>17. Reopened(os') = Reopened(os) /\ SoundFiles' /\ IsOS(os')
  BY <1>6 DEF Keeping, Same
<1>18. Counted'
  BY <1>1, <1>17, StillCounted
<1> QED
  BY <1>16, <1>17, <1>18 DEF Fine, DBInv, Unaltered

\* With a merge under way there is no error.
LEMMA FlushStartIsFine == DBInv /\ FlushStart => Fine
<1> SUFFICES ASSUME DBInv, FlushStart
             PROVE  Fine
  OBVIOUS
<1>1. /\ Open /\ Quiet /\ db.has_imm /\ db.flush = 0 /\ (db.bg_error => db.merge # NoMerge)
      /\ issued' = issued /\ acked' = acked /\ left' = left
  BY DEF FlushStart, History
<1>2. PICK x, y, os2 : x = db.next /\ y = x + 1 /\ os2 = db.outputs \cup {x}
  OBVIOUS
<1>3. /\ os' = NewWritableFile(os, Table(x))
      /\ db' = [db EXCEPT !.flush = x, !.next = y, !.outputs = os2]
  BY <1>2 DEF FlushStart
<1>4. Idle
  <2>1. db.phase = "open" /\ (db.bg_error => db.merge = NoMerge)
    BY <1>1, OpenFacts DEF Running, Open
  <2> QED
    BY <1>1, <2>1 DEF Idle
<1>5. db \in Process /\ Counted /\ Apart /\ db.phase = "open" /\ ~db.bg_error
      /\ db.apply = NoApply /\ db.doomed = {}
  BY <1>4, IdleFacts
<1>6. x \in Nat /\ y \in Nat /\ os2 \in SUBSET Nat /\ x <= y
  BY <1>2, <1>5 DEF Process
<1>7. Calm("none")
  BY <1>1, <1>5, Budgeted DEF Calm
<1>8. db' \in Process
  BY <1>3, <1>5, <1>6 DEF Process
<1>9. /\ db'.flush = x /\ db'.merge = db.merge /\ db'.outputs = os2 /\ db'.next = y
      /\ db'.apply = db.apply /\ db'.doomed = db.doomed /\ db'.phase = db.phase
      /\ db'.bg_error = db.bg_error /\ db'.has_imm = db.has_imm
  BY <1>3, <1>5 DEF Process
<1>10. Unaltered
  <2>1. db.next <= db'.next
    BY <1>2, <1>6, <1>9
  <2> QED
    BY <1>3, <1>5, <1>8, <2>1 DEF Unaltered, Process
<1>11. Begins(x, db.merge, x)
  BY <1>2, <1>5, <1>9 DEF Begins
<1>12. UnderWay(x, db.merge, x)
  BY <1>1 DEF UnderWay
<1>13. Apart'
  BY <1>1, <1>5, <1>9 DEF Apart
<1> QED
  BY <1>2, <1>3, <1>4, <1>7, <1>10, <1>11, <1>12, <1>13, BeginningTable

LEMMA MergeStartIsFine == DBInv /\ MergeStart => Fine
<1> SUFFICES ASSUME DBInv, MergeStart
             PROVE  Fine
  OBVIOUS
<1>1. /\ Open /\ Quiet /\ db.flush = 0 /\ ~db.bg_error /\ ~db.has_imm
      /\ db.merge = NoMerge /\ Spend("merges") /\ issued' = issued /\ acked' = acked
  BY DEF MergeStart
<1>2. PICK inputs \in (SUBSET db.tables) \ {{}} :
         /\ os' = NewWritableFile(os, Table(db.next))
         /\ db' = [db EXCEPT !.merge = [inputs |-> inputs, out |-> db.next], !.next = @ + 1,
                             !.outputs = @ \cup {db.next}]
  BY DEF MergeStart
<1>3. PICK x, y, mg, os2 : /\ x = db.next /\ y = x + 1 /\ os2 = db.outputs \cup {x}
                           /\ mg = [inputs |-> inputs, out |-> x]
  OBVIOUS
<1>4. /\ os' = NewWritableFile(os, Table(x))
      /\ db' = [db EXCEPT !.merge = mg, !.next = y, !.outputs = os2]
  BY <1>2, <1>3
<1>5. Idle
  BY <1>1 DEF Idle
<1>6. db \in Process /\ Counted /\ Apart /\ db.phase = "open" /\ ~db.bg_error
      /\ db.apply = NoApply /\ db.doomed = {}
  BY <1>5, IdleFacts
<1>7. x \in Nat /\ y \in Nat /\ os2 \in SUBSET Nat /\ x <= y /\ mg \in [inputs : SUBSET Nat, out : Nat]
  BY <1>2, <1>3, <1>6 DEF Process
<1>8. Calm("merges")
  BY <1>1, <1>6, Budgeted DEF Calm, Occasions
<1>9. db' \in Process
  BY <1>4, <1>6, <1>7 DEF Process
<1>10. /\ db'.flush = db.flush /\ db'.merge = mg /\ db'.outputs = os2 /\ db'.next = y
       /\ db'.apply = db.apply /\ db'.doomed = db.doomed /\ db'.phase = db.phase
       /\ db'.bg_error = db.bg_error /\ db'.has_imm = db.has_imm
  BY <1>4, <1>6 DEF Process
<1>11. Unaltered
  <2>1. db.next <= db'.next
    BY <1>3, <1>7, <1>10
  <2> QED
    BY <1>4, <1>6, <1>9, <2>1 DEF Unaltered, Process
<1>12. Begins(0, mg, x)
  BY <1>1, <1>3, <1>6, <1>10 DEF Begins
<1>13. UnderWay(0, mg, x)
  <2>1. mg.out = x /\ mg.inputs = inputs /\ inputs # {} /\ inputs \subseteq db.tables
    BY <1>2, <1>3
  <2> QED
    BY <1>1, <2>1 DEF UnderWay, NoMerge
<1>14. Apart'
  <2>1. left \in [Occasions -> Nat] /\ left.merges > 0 /\ left' = [left EXCEPT !["merges"] = @ - 1]
    BY <1>1, <1>6 DEF Spend, Counted
  <2>2. left'.failures = left.failures /\ left'.switches = left.switches
    BY <2>1 DEF Occasions
  <2> QED
    BY <1>6, <1>10, <2>1, <2>2 DEF Apart
<1> QED
  BY <1>3, <1>4, <1>5, <1>8, <1>11, <1>12, <1>13, <1>14, BeginningTable

\* A table that is complete, and named wherever a crash may lead.
Complete(n, r) ==
    /\ Table(n) \in os.dir.files /\ os.data[Table(n)] = <<r>> /\ Whole(n) /\ DataOf(n) = r
    /\ \A d \in Dirs : d = os.dir

LEMMA CompletingTable ==
    ASSUME Idle, NEW what, Calm(what), FsyncLinks, NEW n \in db.outputs, Empty(n),
           NEW r \in SUBSET Update, os' = Sync(AddRecord(os, Table(n), r), Table(n)), Unaltered,
           db'.flush # 0 => db.has_imm
    PROVE  /\ Keeping(Table(n)) /\ Grounded' /\ Settled' /\ Working' /\ Complete(n, r)'
           /\ Avoids(Table(n))
<1>1. /\ IsOS(os) /\ db \in Process /\ Counted /\ SoundFiles /\ DBInv
      /\ Running /\ Working /\ os.dir.current # 0 /\ db.phase = "open"
      /\ db.apply.step # "sync" /\ ~db.bg_error /\ KnownHere /\ KnownDirs
  BY IdleFacts DEF Idle
<1>2. PICK f : f = Table(n)
  OBVIOUS
<1>3. n \in Nat /\ f \in File /\ f[1] # "log" /\ f \in os.dir.files /\ os.data[f] = <<>>
  BY <1>1, <1>2, Names DEF Process, Empty
<1>4. Touched(os, os', f) /\ Made(os', n, r) /\ os'.dir = os.dir
  BY <1>1, <1>2, <1>3, Filling
<1>5. Spare(f)
  BY <1>2, <1>3 DEF Spare
<1>6. Keeping(f)
  BY <1>1, <1>4, <1>5, SpareStep DEF Keeping
<1>7. Avoids(f)
  <2>1. \A m \in InUse : Len(os.data[Table(m)]) = 1
    BY <1>1 DEF Running
  <2>0. Len(os.data[f]) = 0
    BY <1>3
  <2>2. \A m \in InUse : f # Table(m)
    <3> SUFFICES ASSUME NEW m \in InUse, f = Table(m)
                 PROVE  FALSE
      OBVIOUS
    <3>1. Len(os.data[f]) = 1
      BY <2>1
    <3> QED
      BY <2>0, <3>1
  <2> QED
    BY <1>2, <2>2, Names DEF Avoids
<1>8. Grounded'
  BY <1>1, <1>3, <1>6, <1>7, StaysGrounded
<1>9. Settled' /\ Working'
  BY <1>1, <1>3, <1>6, <1>7, StaysWorking
<1>10. Complete(n, r)'
  <2>1. /\ f \in os'.dir.files /\ os'.data[f] = <<r>> /\ os'.synced[f] = 1
        /\ os'.dirs = {os'.dir}
    BY <1>2, <1>4 DEF Made
  <2>2. os'.data[f][1] = r /\ Len(os'.data[f]) = 1
    BY <2>1
  <2>3. \A d \in Dirs' : d = os'.dir
    BY <2>1 DEF Dirs
  <2> QED
    BY <1>2, <2>1, <2>2, <2>3 DEF Complete, Whole, Kept, DataOf
<1> QED
  BY <1>2, <1>6, <1>7, <1>8, <1>9, <1>10

\* The edit that names it is going to be applied.
Submits(e, who) ==
    /\ db'.apply.who = who /\ db'.apply.step = "append" /\ ~db'.apply.new /\ db'.apply.edit = e
    /\ db'.doomed = {} /\ db'.phase = "open" /\ ~db'.bg_error

LEMMA Submitting ==
    ASSUME NEW n, NEW r, NEW e, NEW who,
           Complete(n, r)', Submits(e, who), ~e.torn, e.add = {n}, n < db'.next,
           (who = "flush" /\ FlushEdit') \/ (who = "merge" /\ MergeEdit')
    PROVE  Applying'
<1>1. \A d \in Dirs' : d.current = os'.dir.current /\ Table(n) \in d.files
  BY DEF Complete
<1>2. Whole(n)'
  BY DEF Complete
<1> QED
  BY <1>1, <1>2 DEF Applying, Submits

LEMMA FlushBuiltIsFine ==
    ASSUME DBInv, FlushBuilt, FsyncLinks
    PROVE  Fine
<1>1. /\ Open /\ Quiet /\ db.flush # 0 /\ issued' = issued /\ acked' = acked /\ left' = left
  BY DEF FlushBuilt, History
<1>2. Idle
  <2>1. db.phase = "open" /\ (db.bg_error => db.flush = 0)
    BY <1>1, OpenFacts DEF Running, Open
  <2> QED
    BY <1>1, <2>1 DEF Idle
<1>3. /\ IsOS(os) /\ db \in Process /\ Counted /\ SoundFiles /\ Apart /\ Running /\ Working
      /\ db.phase = "open" /\ ~db.bg_error /\ db.apply = NoApply /\ db.doomed = {}
      /\ db.apply.who # "merge"
  BY <1>2, IdleFacts
<1>0. PICK l \in Int : l = db.log
  BY <1>3 DEF Process
<1>4. PICK n, r, e, a, os2 :
         /\ n = db.flush /\ r = db.imm /\ os2 = db.outputs \ {n}
         /\ e = [NoEdit EXCEPT !.add = {n}, !.log = l]
         /\ a = [who |-> "flush", step |-> "append", new |-> FALSE, edit |-> e]
  OBVIOUS
<1>5. /\ os' = Sync(AddRecord(os, Table(n), r), Table(n))
      /\ db' = [db EXCEPT !.flush = 0, !.outputs = os2, !.apply = a]
  BY <1>0, <1>4 DEF FlushBuilt
<1>6. n \in Nat /\ r \in SUBSET Update /\ os2 \in SUBSET Nat
  BY <1>3, <1>4 DEF Process
<1>7. e \in Edit /\ e.add = {n} /\ e.log = l /\ e.del = {} /\ ~e.torn
  <2>1. NoEdit \in Edit
    BY ConstantsAreTyped
  <2>2. PICK A : A = {n}
    OBVIOUS
  <2>3. e = [NoEdit EXCEPT !.add = A, !.log = l] /\ A \in SUBSET Nat
    BY <1>4, <1>6, <2>2
  <2>4. e.add = A /\ e.log = l /\ e.del = NoEdit.del /\ e.torn = NoEdit.torn
    BY <2>1, <2>3 DEF Edit
  <2>5. e \in Edit
    BY <2>1, <2>3 DEF Edit
  <2> QED
    BY <2>2, <2>4, <2>5 DEF NoEdit
<1>8. a \in [who : {"none", "open", "flush", "merge"},
             step : {"none", "append", "sync", "current"}, edit : Edit, new : BOOLEAN]
      /\ a.who = "flush" /\ a.step = "append" /\ ~a.new /\ a.edit = e
  BY <1>4, <1>7
<1>9. Calm("none")
  BY <1>1, <1>3, Budgeted DEF Calm
<1>10. db' \in Process
  BY <1>3, <1>5, <1>6, <1>8 DEF Process
<1>11. /\ db'.flush = 0 /\ db'.merge = db.merge /\ db'.outputs = os2 /\ db'.next = db.next
       /\ db'.apply = a /\ db'.doomed = db.doomed /\ db'.phase = db.phase
       /\ db'.bg_error = db.bg_error /\ db'.has_imm = db.has_imm /\ db'.imm = db.imm
       /\ db'.log = db.log /\ db'.tables = db.tables
  BY <1>3, <1>5 DEF Process
<1>12. Unaltered
  <2>1. db.next <= db'.next
    BY <1>3, <1>11 DEF Process
  <2> QED
    BY <1>3, <1>5, <1>10, <2>1 DEF Unaltered, Process
<1>13. n \in db.outputs /\ Empty(n) /\ db.has_imm /\ n < db.next
  BY <1>1, <1>3, <1>4 DEF Running, TypeOK, Working, Empty
<1>14. /\ Keeping(Table(n)) /\ Grounded' /\ Settled' /\ Working' /\ Complete(n, r)'
       /\ Avoids(Table(n))
  BY <1>2, <1>5, <1>6, <1>9, <1>11, <1>12, <1>13, CompletingTable
<1>15. Applying'
  <2>1. Submits(e, "flush")
    BY <1>3, <1>8, <1>11 DEF Submits
  <2>2. os'.data[Table(n)] = <<r>>
    BY <1>14 DEF Complete
  <2>3. FlushEdit'
    <3>1. /\ db'.has_imm /\ db'.flush = 0 /\ db'.apply.edit = e /\ e.log = db'.log /\ e.del = {}
          /\ db'.imm = r /\ n \in e.add /\ e.add = {n}
      BY <1>0, <1>4, <1>7, <1>8, <1>11, <1>13
    <3> QED
      BY <2>2, <3>1 DEF FlushEdit
  <2> QED
    BY <1>7, <1>11, <1>13, <1>14, <2>1, <2>3, Submitting
<1>16. Running'
  <2>1. db.outputs = {n, db.merge.out} \ {0} /\ n # 0
    BY <1>1, <1>3, <1>4 DEF Running, TypeOK
  <2>2. db.merge # NoMerge => /\ db.merge.out # 0 /\ db.merge.out # n
                              /\ Empty(db.merge.out) /\ db.merge.out < db.next
    BY <1>3, <1>4 DEF Running
  <2>3. db.merge = NoMerge => db.merge.out = 0
    BY DEF NoMerge
  <2>4. os2 = {0, db.merge.out} \ {0}
    BY <1>4, <2>1, <2>2, <2>3
  <2>5. TypeOK'
    <3>1. DOMAIN os'.data = DOMAIN os'.synced /\ os'.dir.files \subseteq DOMAIN os'.data
      BY <1>14, TypedOS DEF Keeping
    <3> QED
      BY <1>3, <1>11, <2>4, <3>1 DEF TypeOK
  <2>6. db.merge # NoMerge => Empty(db.merge.out)'
    <3>1. db.merge # NoMerge => Table(db.merge.out) # Table(n)
      BY <2>2, Names
    <3> QED
      BY <1>11, <1>14, <2>2, <3>1 DEF Keeping, Stay, Empty
  <2>7. db.merge.inputs \subseteq db.tables
    BY <1>3 DEF Running
  <2>8. db'.doomed = {} /\ db'.flush = 0 /\ ~db'.bg_error /\ db'.merge = db.merge
        /\ db'.tables = db.tables /\ db'.next = db.next
    BY <1>3, <1>11
  <2>9. db'.merge # NoMerge => /\ db'.merge.out # 0 /\ db'.merge.out # db'.flush
                               /\ Table(db'.merge.out) \in os'.dir.files
                               /\ db'.merge.out < db'.next
                               /\ db'.apply.who # "merge" => Empty(db.merge.out)'
    BY <2>2, <2>6, <2>8 DEF Empty
  <2>10. /\ os'.dir.current # 0 /\ db'.manifest = os'.dir.current
         /\ Recovered(os').next <= db'.next /\ db'.seq <= issued'
         /\ \A m \in InUse' : Table(m) \in os'.dir.files /\ m < db'.next /\ Len(os'.data[Table(m)]) = 1
         /\ Log(db'.log) \in os'.dir.files /\ Recovered(os').log <= db'.log
         /\ \A m \in Numbers(os'.dir.files, "log") : m < db'.next
    BY <1>14 DEF Grounded
  <2> QED
    BY <1>15, <2>5, <2>7, <2>8, <2>9, <2>10 DEF Running
<1>17. PhaseInv'
  BY <1>3, <1>11, <1>14, <1>16 DEF PhaseInv
<1>18. Apart'
  BY <1>1, <1>3, <1>11, <1>13 DEF Apart
<1>19. Reopened(os') = Reopened(os) /\ SoundFiles' /\ IsOS(os')
  BY <1>14 DEF Keeping, Same
<1>20. Counted'
  BY <1>3, <1>9, <1>19, StillCounted
<1> QED
  BY <1>10, <1>17, <1>18, <1>19, <1>20 DEF Fine, DBInv

LEMMA MergeBuiltIsFine ==
    ASSUME DBInv, MergeBuilt, FsyncLinks
    PROVE  Fine
<1>1. /\ Open /\ Quiet /\ db.flush = 0 /\ db.merge # NoMerge
      /\ issued' = issued /\ acked' = acked /\ left' = left
  BY DEF MergeBuilt, History
<1>2. Idle
  <2>1. db.phase = "open" /\ (db.bg_error => db.merge = NoMerge)
    BY <1>1, OpenFacts DEF Running, Open
  <2> QED
    BY <1>1, <2>1 DEF Idle
<1>3. /\ IsOS(os) /\ db \in Process /\ Counted /\ SoundFiles /\ Apart /\ Running /\ Working
      /\ db.phase = "open" /\ ~db.bg_error /\ db.apply = NoApply /\ db.doomed = {}
      /\ db.apply.who # "merge" /\ KnownDirs /\ KnownHere
  BY <1>2, IdleFacts
<1>4. PICK n, inputs, e, a :
         /\ n = db.merge.out /\ inputs = db.merge.inputs
         /\ e = [NoEdit EXCEPT !.add = {n}, !.del = inputs]
         /\ a = [who |-> "merge", step |-> "append", new |-> FALSE, edit |-> e]
  OBVIOUS
<1>5. PICK r : r = InTables(os, inputs)
  OBVIOUS
<1>6. /\ os' = Sync(AddRecord(os, Table(n), r), Table(n))
      /\ db' = [db EXCEPT !.apply = a]
  BY <1>4, <1>5 DEF MergeBuilt
<1>7. n \in Nat /\ inputs \in SUBSET Nat
  BY <1>3, <1>4 DEF Process
<1>8. inputs \subseteq db.tables /\ \A m \in inputs : Table(m) \in os.dir.files
  BY <1>3, <1>4 DEF Running, InUse
<1>9. r \in SUBSET Update
  <2> SUFFICES ASSUME NEW x \in r
               PROVE  x \in Update
    OBVIOUS
  <2>1. PICK m \in inputs : x \in TableData(os, m)
    BY <1>5, InFiles
  <2>2. Table(m) \in os.dir.files /\ Len(os.data[Table(m)]) = 1
    BY <1>3, <1>8 DEF Running, InUse
  <2>3. DataOf(m) \in SUBSET Update
    BY <1>3, <2>2, DataIsUpdates DEF KnownHere
  <2>4. x \in DataOf(m)
    BY <2>1 DEF TableData, DataOf
  <2> QED
    BY <2>3, <2>4
<1>10. e \in Edit /\ e.add = {n} /\ e.log = -1 /\ e.del = inputs /\ ~e.torn
  <2>1. NoEdit \in Edit
    BY ConstantsAreTyped
  <2>2. PICK A : A = {n}
    OBVIOUS
  <2>3. e = [NoEdit EXCEPT !.add = A, !.del = inputs] /\ A \in SUBSET Nat
    BY <1>4, <1>7, <2>2
  <2>4. e.add = A /\ e.log = NoEdit.log /\ e.del = inputs /\ e.torn = NoEdit.torn
    BY <2>1, <2>3 DEF Edit
  <2>5. e \in Edit
    BY <1>7, <2>1, <2>3 DEF Edit
  <2> QED
    BY <2>2, <2>4, <2>5 DEF NoEdit
<1>11. a \in [who : {"none", "open", "flush", "merge"},
              step : {"none", "append", "sync", "current"}, edit : Edit, new : BOOLEAN]
       /\ a.who = "merge" /\ a.step = "append" /\ ~a.new /\ a.edit = e
  BY <1>4, <1>10
<1>12. Calm("none")
  BY <1>1, <1>3, Budgeted DEF Calm
<1>13. db' \in Process
  BY <1>3, <1>6, <1>11 DEF Process
<1>14. /\ db'.flush = db.flush /\ db'.merge = db.merge /\ db'.outputs = db.outputs
       /\ db'.next = db.next /\ db'.apply = a /\ db'.doomed = db.doomed /\ db'.phase = db.phase
       /\ db'.bg_error = db.bg_error /\ db'.has_imm = db.has_imm /\ db'.tables = db.tables
  BY <1>3, <1>6 DEF Process
<1>15. Unaltered
  <2>1. db.next <= db'.next
    BY <1>3, <1>14 DEF Process
  <2> QED
    BY <1>3, <1>6, <1>13, <2>1 DEF Unaltered, Process
<1>16. n \in db.outputs /\ Empty(n) /\ n < db.next /\ n # 0
  BY <1>1, <1>3, <1>4 DEF Running, TypeOK
<1>17. /\ Keeping(Table(n)) /\ Grounded' /\ Settled' /\ Working' /\ Complete(n, r)'
       /\ Avoids(Table(n))
  <2>1. db'.flush # 0 => db.has_imm
    BY <1>1, <1>14
  <2> QED
    BY <1>2, <1>6, <1>9, <1>12, <1>15, <1>16, <2>1, CompletingTable
<1>18. InTables(os', inputs) = r
  <2>1. \A m \in inputs : Table(m) # Table(n)
    BY <1>8, <1>17 DEF Avoids, InUse
  <2> QED
    BY <1>5, <1>8, <1>17, <2>1, TablesStay DEF Keeping
<1>19. Applying'
  <2>1. Submits(e, "merge")
    BY <1>3, <1>11, <1>14 DEF Submits
  <2>2. DataOf(n)' = r
    BY <1>17 DEF Complete
  <2>3. MergeEdit'
    <3>1. /\ db'.apply.edit = e /\ db'.apply.step = "append" /\ e.log = -1 /\ e.add = {n}
          /\ e.del = inputs /\ db'.merge.out = n /\ db'.merge.inputs = inputs
          /\ db'.merge # NoMerge /\ db'.flush = 0
      BY <1>1, <1>4, <1>10, <1>11, <1>14
    <3>2. DataOf(n)' = InTables(os', inputs)
      BY <1>18, <2>2
    <3> QED
      BY <3>1, <3>2 DEF MergeEdit
  <2>4. n < db'.next
    BY <1>14, <1>16
  <2> QED
    BY <1>10, <1>17, <2>1, <2>3, <2>4, Submitting
<1>20. Running'
  <2>1. TypeOK'
    <3>1. DOMAIN os'.data = DOMAIN os'.synced /\ os'.dir.files \subseteq DOMAIN os'.data
      BY <1>17, TypedOS DEF Keeping
    <3> QED
      BY <1>3, <1>14, <3>1 DEF TypeOK, Running
  <2>2. db.merge.inputs \subseteq db.tables
    BY <1>3 DEF Running
  <2>3. db'.doomed = {} /\ db'.flush = 0 /\ ~db'.bg_error /\ db'.merge = db.merge
        /\ db'.tables = db.tables /\ db'.next = db.next /\ db'.apply.who = "merge"
    BY <1>1, <1>3, <1>11, <1>14
  <2>4. Table(db'.merge.out) \in os'.dir.files
    BY <1>4, <1>14, <1>17 DEF Complete
  <2>5. db'.merge # NoMerge => /\ db'.merge.out # 0 /\ db'.merge.out # db'.flush
                               /\ Table(db'.merge.out) \in os'.dir.files
                               /\ db'.merge.out < db'.next
                               /\ db'.apply.who # "merge" => Empty(db.merge.out)'
    BY <1>4, <1>16, <2>3, <2>4
  <2>6. /\ os'.dir.current # 0 /\ db'.manifest = os'.dir.current
        /\ Recovered(os').next <= db'.next /\ db'.seq <= issued'
        /\ \A m \in InUse' : Table(m) \in os'.dir.files /\ m < db'.next /\ Len(os'.data[Table(m)]) = 1
        /\ Log(db'.log) \in os'.dir.files /\ Recovered(os').log <= db'.log
        /\ \A m \in Numbers(os'.dir.files, "log") : m < db'.next
    BY <1>17 DEF Grounded
  <2> QED
    BY <1>19, <2>1, <2>2, <2>3, <2>5, <2>6 DEF Running
<1>21. PhaseInv'
  BY <1>3, <1>14, <1>17, <1>20 DEF PhaseInv
<1>22. Apart'
  BY <1>3, <1>12, <1>14, ApartAsBefore DEF Calm, Counted
<1>23. Reopened(os') = Reopened(os) /\ SoundFiles' /\ IsOS(os')
  BY <1>17 DEF Keeping, Same
<1>24. Counted'
  BY <1>3, <1>12, <1>23, StillCounted
<1> QED
  BY <1>13, <1>21, <1>22, <1>23, <1>24 DEF Fine, DBInv

-----------------------------------------------------------------------------
(* The memtable is full.                                                   *)

LEMMA SwitchMemTableIsFine == DBInv /\ SwitchMemTable => Fine
<1> SUFFICES ASSUME DBInv, SwitchMemTable
             PROVE  Fine
  OBVIOUS
<1>1. /\ Open /\ ~db.bg_error /\ ~db.has_imm /\ Spend("switches")
      /\ issued' = issued /\ acked' = acked
  BY DEF SwitchMemTable
<1>2. /\ IsOS(os) /\ db \in Process /\ Counted /\ SoundFiles /\ Apart
      /\ Running /\ os.dir.current # 0 /\ KnownDirs /\ KnownHere /\ Working
      /\ db.phase = "open" /\ db.doomed = {}
  BY <1>1, OpenFacts DEF Open
<1>3. PICK x, y, m : x = db.next /\ y = x + 1 /\ m = db.mem
  OBVIOUS
<1>4. /\ os' = NewWritableFile(os, Log(x))
      /\ db' = [db EXCEPT !.imm = m, !.has_imm = TRUE, !.mem = {}, !.log = x, !.next = y]
  BY <1>3 DEF SwitchMemTable
<1>5. /\ x \in Nat /\ y \in Nat /\ m \in SUBSET Update /\ x < y
      /\ db.log \in Nat /\ db.log_number \in Nat
  BY <1>2, <1>3 DEF Process
<1>6. /\ Recovered(os).next \in Nat /\ Recovered(os).next <= x
      /\ Recovered(os).log \in Int /\ Recovered(os).log <= db.log /\ db.log < x
  <2>1. Recovered(os) \in Version /\ os.dir.files \in SUBSET File
    BY <1>2, OpenDir DEF KnownHere
  <2>2. db.log \in Numbers(os.dir.files, "log")
    BY <1>2, <1>5, <2>1, LogNumbers DEF Running
  <2> QED
    BY <1>2, <1>3, <2>1, <2>2 DEF Running, Version
<1>7. Log(x) \notin os.dir.files
  <2>1. os.dir.files \in SUBSET File
    BY OpenDir, <1>2
  <2>2. \A n \in Numbers(os.dir.files, "log") : n < x
    BY <1>2, <1>3 DEF Running
  <2>3. x \notin Numbers(os.dir.files, "log")
    BY <1>5, <2>2
  <2> QED
    BY <1>5, <2>1, <2>3, LogNumbers
<1>8. Calm("switches")
  BY <1>1, <1>2, Budgeted DEF Calm, Occasions
<1>9. /\ Same /\ IsOS(os') /\ os'.dir.current = os.dir.current /\ Stay(Log(x))
      /\ os'.dir.files = os.dir.files \cup {Log(x)} /\ os'.data[Log(x)] = <<>>
      /\ os'.dirs = os.dirs \cup {os'.dir}
  BY <1>2, <1>4, <1>5, <1>6, <1>7, <1>8, NewLog
<1>10. /\ Recovered(os') = Recovered(os) /\ Reopened(os') = Reopened(os) /\ SoundFiles'
  BY <1>9 DEF Same
<1>11. db' \in Process
  BY <1>2, <1>4, <1>5 DEF Process
<1>12. /\ db'.flush = db.flush /\ db'.merge = db.merge /\ db'.outputs = db.outputs
       /\ db'.next = y /\ db'.apply = db.apply /\ db'.doomed = db.doomed /\ db'.phase = db.phase
       /\ db'.bg_error = db.bg_error /\ db'.tables = db.tables /\ db'.pinned = db.pinned
       /\ db'.log_number = db.log_number /\ db'.manifest = db.manifest /\ db'.seq = db.seq
  BY <1>2, <1>4 DEF Process
<1>13. db'.imm = m /\ db'.has_imm /\ db'.mem = {} /\ db'.log = x
  BY <1>2, <1>4 DEF Process
<1>14. /\ db.log_number = db.log /\ db.imm = {} /\ db.flush = 0 /\ ToSet(os.data[Log(db.log)]) = m
       /\ Log(db.log) \in os.dir.files
  BY <1>1, <1>2, <1>3 DEF Working, Running
<1>15. \A n : Table(n) \in os.dir.files =>
          /\ Table(n) \in os'.dir.files /\ os'.data[Table(n)] = os.data[Table(n)]
          /\ Kept(Table(n))' = Kept(Table(n))
  BY <1>9, Names DEF Stay
<1>16. /\ os'.data[Manifest(os.dir.current)] = os.data[Manifest(os.dir.current)]
       /\ Kept(Manifest(os.dir.current))' = Kept(Manifest(os.dir.current))
  BY <1>2, <1>9, OpenDir, Names DEF Stay
<1>17. os'.data[Log(db.log)] = os.data[Log(db.log)] /\ Log(db.log) \in os'.dir.files
  <2>1. Log(db.log) # Log(x)
    BY <1>5, <1>6, Names
  <2> QED
    BY <1>9, <1>14, <2>1 DEF Stay
<1>18. \A n \in InUse' : Table(n) \in os'.dir.files /\ n < db'.next /\ Len(os'.data[Table(n)]) = 1
  <2> SUFFICES ASSUME NEW n \in InUse'
               PROVE  Table(n) \in os'.dir.files /\ n < db'.next /\ Len(os'.data[Table(n)]) = 1
    OBVIOUS
  <2>1. n \in InUse /\ n \in Nat
    BY <1>2, <1>12 DEF InUse, Process
  <2>2. Table(n) \in os.dir.files /\ n < x /\ Len(os.data[Table(n)]) = 1
    BY <1>2, <1>3, <2>1 DEF Running
  <2> QED
    BY <1>5, <1>12, <1>15, <2>1, <2>2
<1>19. \A n \in Numbers(os'.dir.files, "log") : n \in Numbers(os.dir.files, "log") \/ n = x
  <2>1. os'.dir.files \in SUBSET File /\ os.dir.files \in SUBSET File
    BY <1>2, <1>9, TypedOS
  <2> SUFFICES ASSUME NEW n \in Numbers(os'.dir.files, "log")
               PROVE  n \in Numbers(os.dir.files, "log") \/ n = x
    OBVIOUS
  <2>2. Log(n) \in os'.dir.files /\ n \in Nat
    BY <2>1, LogNumbers
  <2>3. Log(n) \in os.dir.files \/ n = x
    BY <1>9, <2>2, Names
  <2> QED
    BY <2>1, <2>2, <2>3, LogNumbers
<1>20. \A n \in Numbers(os'.dir.files, "log") : n < db'.next
  <2> SUFFICES ASSUME NEW n \in Numbers(os'.dir.files, "log")
               PROVE  n < y
    BY <1>12
  <2>1. CASE n = x
    BY <1>5, <2>1
  <2>2. CASE n \in Numbers(os.dir.files, "log")
    <3>1. n < x /\ n \in Nat
      BY <1>2, <1>3, <2>2, OpenDir, LogNumbers DEF Running
    <3> QED
      BY <1>5, <3>1
  <2> QED
    BY <1>19, <2>1, <2>2
<1>21. ASSUME db.apply # NoApply
       PROVE  Applying'
  <2>1. Applying
    BY <1>2, <1>21 DEF Running
  <2>2. \A d \in Dirs : d.current = os.dir.current
    BY <2>1 DEF Applying
  <2>3. os.dir \in Dirs /\ (Lossy' <=> Lossy)
    BY <1>2, <1>8, OpenDir, Calmly
  <2>4. \A d \in Dirs' : d \in Dirs \/ d = os'.dir
    BY <1>9, <2>3 DEF Dirs
  <2>5. Steady
    BY <1>9, <1>10, <1>15, <1>16, <2>2, <2>3, <2>4 DEF Steady
  <2>6. db.apply.who = "merge"
    BY <1>1, <2>1 DEF Applying, FlushEdit
  <2>7. db.next <= db'.next
    BY <1>3, <1>5, <1>12
  <2> QED
    BY <1>2, <1>11, <1>12, <2>1, <2>5, <2>6, <2>7, StillApplying
<1>22. Running'
  <2>1. TypeOK'
    <3>1. DOMAIN os'.data = DOMAIN os'.synced /\ os'.dir.files \subseteq DOMAIN os'.data
      BY <1>9, TypedOS
    <3> QED
      BY <1>2, <1>12, <3>1 DEF TypeOK, Running
  <2>2. db'.merge.inputs \subseteq db'.tables
    BY <1>2, <1>12 DEF Running
  <2>3. /\ db'.doomed = {} /\ db'.flush = 0 /\ ~db'.bg_error
        /\ os'.dir.current # 0 /\ db'.manifest = os'.dir.current /\ db'.seq <= issued'
    BY <1>1, <1>2, <1>9, <1>12, <1>14 DEF Running
  <2>4. db'.merge # NoMerge => /\ db'.merge.out # 0 /\ db'.merge.out # db'.flush
                               /\ Table(db'.merge.out) \in os'.dir.files
                               /\ db'.merge.out < db'.next
                               /\ db'.apply.who # "merge" => Empty(db.merge.out)'
    <3> SUFFICES ASSUME db.merge # NoMerge
                 PROVE  /\ db.merge.out # 0 /\ db.merge.out # db.flush
                        /\ Table(db.merge.out) \in os'.dir.files
                        /\ db.merge.out < db'.next
                        /\ db.apply.who # "merge" => Empty(db.merge.out)'
      BY <1>12
    <3>1. /\ db.merge.out # 0 /\ db.merge.out # db.flush /\ Table(db.merge.out) \in os.dir.files
          /\ db.merge.out < db.next /\ (db.apply.who # "merge" => Empty(db.merge.out))
      BY <1>2 DEF Running
    <3>2. db.merge.out < db'.next
      <4>1. db.merge.out \in Nat
        BY <1>2 DEF Process
      <4> QED
        BY <1>3, <1>5, <1>12, <3>1, <4>1
    <3> QED
      BY <1>12, <1>15, <3>1, <3>2 DEF Empty
  <2>5. Log(db'.log) \in os'.dir.files
    BY <1>9, <1>13
  <2>6. Recovered(os').log <= db'.log /\ Recovered(os').next <= db'.next
    BY <1>5, <1>6, <1>10, <1>12, <1>13
  <2> QED
    BY <1>12, <1>18, <1>20, <1>21, <2>1, <2>2, <2>3, <2>4, <2>5, <2>6 DEF Running
<1>23. Working'
  <2>1. db'.apply.step # "sync" => Settled'
    BY <1>2, <1>9, <1>10, <1>12, <1>16 DEF Working, Settled, Edits
  <2>2. InTables(os', db.tables) = InTables(os, db.tables)
    <3>1. \A n \in db.tables : Table(n) \in os.dir.files /\ Table(n) # Log(x)
      BY <1>2, Names DEF Running, InUse
    <3> QED
      BY <1>9, <3>1, TablesStay
  <2>3. Memory' = Memory
    BY <1>3, <1>12, <1>13, <1>14, <2>2 DEF Memory
  <2>4. Memory' = Reopened(os') /\ \A r \in Memory' : r.seq <= db'.seq
    BY <1>2, <1>10, <1>12, <2>3 DEF Working
  <2>5. \A n \in Numbers(os'.dir.files, "log") :
           n >= db'.log_number => n \in {db'.log_number, db'.log}
    BY <1>2, <1>12, <1>13, <1>14, <1>19 DEF Working
  <2>6. ToSet(os'.data[Log(db'.log)]) = db'.mem
    BY <1>9, <1>13 DEF ToSet
  <2>7. /\ db'.log_number < db'.log /\ Log(db'.log_number) \in os'.dir.files
        /\ ToSet(os'.data[Log(db'.log_number)]) = db'.imm
    BY <1>6, <1>12, <1>13, <1>14, <1>17
  <2> QED
    BY <1>13, <2>1, <2>4, <2>5, <2>6, <2>7 DEF Working
<1>24. PhaseInv'
  BY <1>2, <1>12, <1>22, <1>23 DEF PhaseInv
<1>25. Apart'
  <2>1. left \in [Occasions -> Nat] /\ left.switches > 0 /\ left' = [left EXCEPT !["switches"] = @ - 1]
    BY <1>1, <1>2 DEF Spend, Counted
  <2>2. left'.failures = left.failures /\ left'.merges = left.merges
    BY <2>1 DEF Occasions
  <2> QED
    BY <1>2, <1>12, <2>1, <2>2 DEF Apart
<1>26. Counted'
  BY <1>2, <1>8, <1>10, StillCounted
<1> QED
  BY <1>9, <1>10, <1>11, <1>24, <1>25, <1>26 DEF Fine, DBInv

-----------------------------------------------------------------------------
(* A write.                                                                *)

\* A record is behind the others of the log.
Logged(f, r) ==
    /\ IsOS(os') /\ os'.dir = os.dir /\ Dirs' \subseteq Dirs
    /\ os'.data[f] = Append(os.data[f], r) /\ Kept(f) <= Kept(f)'
    /\ \A d \in Dirs' : \A g \in d.files :
          g # f => os'.data[g] = os.data[g] /\ Kept(g)' = Kept(g)

\* No cut takes it, and none takes the log from the directory.
Forced(f) == Dirs' = {os.dir} /\ Kept(f)' = Len(os'.data[f])

LEMMA Logging ==
    ASSUME IsOS(os), FsyncLinks, NEW f \in os.dir.files, NEW r, Fits(f, r), Lossy' <=> Lossy,
           NEW sync, NEW o, o = AddRecord(os, f, r), os' = IF sync THEN Sync(o, f) ELSE o
    PROVE  Logged(f, r) /\ (sync => Forced(f))
<1>1. os.dir \in os.dirs /\ Named(os.dirs, f)
  BY DEF IsOS, Named
<1>2. /\ IsOS(o) /\ o.dir = os.dir /\ o.dirs = os.dirs
      /\ o.data[f] = Append(os.data[f], r) /\ o.synced[f] = os.synced[f]
      /\ \A g : g # f /\ Named(os.dirs, g) => SameFile(os, o, g)
  BY <1>1, Appending DEF Fits
<1>3. /\ os.synced[f] \in 0..Len(os.data[f]) /\ Len(os.data[f]) \in Nat
      /\ Len(o.data[f]) = Len(os.data[f]) + 1
  <2>1. /\ f \in File /\ os.synced[f] \in 0..Len(os.data[f])
        /\ f[1] = "log" => os.data[f] \in Seq(Update)
        /\ f[1] = "table" => os.data[f] \in Seq(SUBSET Update)
        /\ f[1] = "manifest" => os.data[f] \in Seq(Edit)
    BY <1>1, FileExists
  <2>2. f[1] \in {"log", "table", "manifest"}
    BY <2>1 DEF File
  <2>3. CASE f[1] = "log"
    BY <1>2, <2>1, <2>3
  <2>4. CASE f[1] = "table"
    BY <1>2, <2>1, <2>4
  <2>5. CASE f[1] = "manifest"
    BY <1>2, <2>1, <2>5
  <2> QED
    BY <2>2, <2>3, <2>4, <2>5
<1>4. ASSUME sync
      PROVE  /\ IsOS(os') /\ os'.dir = os.dir /\ os'.dirs = {os.dir}
             /\ os'.data[f] = o.data[f] /\ os'.synced[f] = Len(o.data[f])
             /\ \A g : g # f /\ Named(os'.dirs, g) => SameFile(o, os', g)
  <2>1. os' = Sync(o, f) /\ f \in o.dir.files
    BY <1>2, <1>4
  <2>2. Synced(o, os', f)
    BY <1>2, <2>1, Syncing
  <2> QED
    BY <1>2, <2>2 DEF Synced
<1>5. ~sync => os' = o
  OBVIOUS
<1>6. IsOS(os') /\ os'.dir = os.dir /\ os'.dirs \subseteq os.dirs
      /\ os'.data[f] = o.data[f] /\ os'.synced[f] \in {os.synced[f], Len(o.data[f])}
      /\ \A g : g # f /\ Named(os'.dirs, g) => SameFile(o, os', g)
  BY <1>1, <1>2, <1>4, <1>5 DEF SameFile
<1>7. Dirs' \subseteq Dirs
  BY <1>6 DEF Dirs
<1>8. \A d \in Dirs' : d \in os'.dirs
  BY <1>6 DEF Dirs, IsOS
<1>9. \A d \in Dirs' : \A g \in d.files :
         g # f => os'.data[g] = os.data[g] /\ Kept(g)' = Kept(g)
  <2> SUFFICES ASSUME NEW d \in Dirs', NEW g \in d.files, g # f
               PROVE  os'.data[g] = os.data[g] /\ Kept(g)' = Kept(g)
    OBVIOUS
  <2>1. Named(os'.dirs, g) /\ Named(os.dirs, g)
    BY <1>6, <1>8 DEF Named
  <2>2. os'.data[g] = os.data[g] /\ os'.synced[g] = os.synced[g]
    BY <1>2, <1>6, <2>1 DEF SameFile
  <2> QED
    BY <2>2 DEF Kept
<1>10. Kept(f) <= Kept(f)'
  <2>1. PICK a, b, c : a = os.synced[f] /\ b = Len(os.data[f]) /\ c = Len(os'.data[f])
    OBVIOUS
  <2>2. a \in 0..b /\ b \in Nat /\ c = b + 1
    BY <1>3, <1>6, <2>1
  <2>3. os'.synced[f] \in {a, c}
    BY <1>6, <2>1
  <2>4. \/ Kept(f) = a /\ Kept(f)' = os'.synced[f]
        \/ Kept(f) = b /\ Kept(f)' = c
    BY <2>1 DEF Kept
  <2> QED
    BY <2>2, <2>3, <2>4
<1>11. sync => Forced(f)
  <2> SUFFICES ASSUME sync
               PROVE  Forced(f)
    OBVIOUS
  <2>1. Dirs' = {os.dir}
    BY <1>4 DEF Dirs
  <2>2. Kept(f)' = Len(os'.data[f])
    BY <1>4 DEF Kept
  <2> QED
    BY <2>1, <2>2 DEF Forced
<1> QED
  BY <1>2, <1>6, <1>7, <1>9, <1>10, <1>11 DEF Logged

LEMMA LongerLog ==
    ASSUME NEW S, NEW s \in Seq(S), NEW r, NEW t, t = Append(s, r)
    PROVE  /\ Len(t) = Len(s) + 1 /\ Len(s) \in Nat /\ t[Len(s) + 1] = r
           /\ \A i \in 1..Len(s) : t[i] = s[i]
           /\ ToSet(t) = ToSet(s) \cup {r}
<1>1. /\ Len(t) = Len(s) + 1 /\ Len(s) \in Nat /\ t[Len(s) + 1] = r
      /\ \A i \in 1..Len(s) : t[i] = s[i]
      /\ DOMAIN t = 1..Len(s) + 1 /\ DOMAIN s = 1..Len(s)
  OBVIOUS
<1>2. ToSet(t) = {t[i] : i \in DOMAIN t} /\ ToSet(s) = {s[i] : i \in DOMAIN s}
  BY DEF ToSet
<1>3. \A x : x \in ToSet(t) <=> x \in ToSet(s) \/ x = r
  <2> SUFFICES ASSUME NEW x
               PROVE  x \in ToSet(t) <=> x \in ToSet(s) \/ x = r
    OBVIOUS
  <2>1. ASSUME x \in ToSet(t)
        PROVE  x \in ToSet(s) \/ x = r
    <3>1. PICK i \in 1..Len(s) + 1 : x = t[i]
      BY <1>1, <1>2, <2>1
    <3>2. i = Len(s) + 1 \/ i \in 1..Len(s)
      BY <1>1
    <3> QED
      BY <1>1, <1>2, <3>1, <3>2
  <2>2. ASSUME x \in ToSet(s)
        PROVE  x \in ToSet(t)
    <3>1. PICK i \in 1..Len(s) : x = s[i]
      BY <1>1, <1>2, <2>2
    <3>2. i \in DOMAIN t /\ t[i] = x
      BY <1>1, <3>1
    <3> QED
      BY <1>2, <3>2
  <2>3. r \in ToSet(t)
    <3>1. Len(s) + 1 \in DOMAIN t
      BY <1>1
    <3> QED
      BY <1>1, <1>2, <3>1
  <2> QED
    BY <2>1, <2>2, <2>3
<1> QED
  BY <1>1, <1>3

\* What a process that starts now would find.
LEMMA WriteIsFound ==
    ASSUME DBInv, db.phase = "open", NEW r, NEW f, f = Log(db.log), Logged(f, r)
    PROVE  /\ Recovered(os') = Recovered(os) /\ Records(os') = Records(os)
           /\ Reopened(os') = Reopened(os) \cup {r} /\ os'.dir \in Dirs' /\ Stay(f)
           /\ LiveLogs(os') = LiveLogs(os)
<1>1. /\ IsOS(os) /\ db \in Process /\ SoundFiles /\ Running /\ os.dir.current # 0
      /\ KnownDirs /\ KnownHere /\ Recovered(os) \in Version
  BY OpenFacts DEF KnownHere
<1>2. /\ IsOS(os') /\ os'.dir = os.dir /\ Dirs' \subseteq Dirs
      /\ os'.data[f] = Append(os.data[f], r) /\ Kept(f) <= Kept(f)'
      /\ \A d \in Dirs' : \A g \in d.files :
            g # f => os'.data[g] = os.data[g] /\ Kept(g)' = Kept(g)
  BY DEF Logged
<1>3. os'.dir \in Dirs' /\ os.dir \in Dirs' /\ os.dir.files \in SUBSET File
  BY <1>2, OpenDir DEF IsOS, Dirs
<1>4. Stay(f)
  BY <1>2, <1>3 DEF Stay
<1>5. Manifest(os.dir.current) \in os.dir.files /\ Manifest(os.dir.current) # f
  BY OpenDir, Names
<1>6. Records(os') = Records(os)
  <2>1. os'.data[Manifest(os.dir.current)] = os.data[Manifest(os.dir.current)]
    BY <1>4, <1>5 DEF Stay
  <2> QED
    BY <1>2, <1>5, <2>1 DEF Records
<1>7. Recovered(os') = Recovered(os) /\ Readable(os') /\ Readable(os)
  BY <1>1, <1>6 DEF Recovered, Readable, KnownHere
<1>8. LiveLogs(os') = LiveLogs(os)
  BY <1>2, <1>7 DEF LiveLogs
<1>9. db.log \in LiveLogs(os) /\ os.data[f] \in Seq(Update)
  <2>1. Log(db.log) \in os.dir.files /\ Recovered(os).log <= db.log /\ db.log \in Nat
    BY <1>1, OpenDir DEF Running
  <2>2. db.log \in Numbers(os.dir.files, "log")
    BY <1>3, <2>1, LogNumbers
  <2>3. os.data[f] \in Seq(Update)
    BY <1>1, <2>1 DEF KnownDirs, KnownHere
  <2> QED
    BY <1>1, <2>1, <2>2, <2>3 DEF LiveLogs, Version
<1>10. InTables(os', Recovered(os).tables) = InTables(os, Recovered(os).tables)
  <2>1. \A n \in Recovered(os).tables : Table(n) \in os.dir.files /\ Table(n) # f
    BY <1>1, Names DEF KnownHere, TableOK
  <2> QED
    BY <1>4, <2>1, TablesStay
<1>11. ToSet(os'.data[f]) = ToSet(os.data[f]) \cup {r}
  <2>1. PICK s, t : s = os.data[f] /\ t = os'.data[f]
    OBVIOUS
  <2>2. s \in Seq(Update) /\ t = Append(s, r)
    BY <1>2, <1>9, <2>1
  <2>3. ToSet(t) = ToSet(s) \cup {r}
    <3> QED
      BY <2>2, LongerLog
  <2> QED
    BY <2>1, <2>3
<1>12. \A n \in LiveLogs(os) : n # db.log => os'.data[Log(n)] = os.data[Log(n)]
  <2> SUFFICES ASSUME NEW n \in LiveLogs(os), n # db.log
               PROVE  os'.data[Log(n)] = os.data[Log(n)]
    OBVIOUS
  <2>1. Log(n) \in os.dir.files /\ Log(n) # f
    BY <1>3, LogNumbers, Names DEF LiveLogs
  <2> QED
    BY <1>4, <2>1 DEF Stay
<1>13. InLogs(os', LiveLogs(os)) = InLogs(os, LiveLogs(os)) \cup {r}
  <2>1. \A x : x \in InLogs(os', LiveLogs(os)) <=> \E n \in LiveLogs(os) : x \in ToSet(os'.data[Log(n)])
    BY InFiles
  <2>2. \A x : x \in InLogs(os, LiveLogs(os)) <=> \E n \in LiveLogs(os) : x \in ToSet(os.data[Log(n)])
    BY InFiles
  <2> SUFFICES ASSUME NEW x
               PROVE  x \in InLogs(os', LiveLogs(os)) <=> x \in InLogs(os, LiveLogs(os)) \/ x = r
    OBVIOUS
  <2>3. ASSUME x \in InLogs(os', LiveLogs(os))
        PROVE  x \in InLogs(os, LiveLogs(os)) \/ x = r
    <3>1. PICK n \in LiveLogs(os) : x \in ToSet(os'.data[Log(n)])
      BY <2>1, <2>3
    <3>2. CASE n = db.log
      <4>1. x \in ToSet(os.data[Log(n)]) \/ x = r
        BY <1>11, <3>1, <3>2
      <4> QED
        BY <2>2, <4>1
    <3>3. CASE n # db.log
      <4>1. x \in ToSet(os.data[Log(n)])
        BY <1>12, <3>1, <3>3
      <4> QED
        BY <2>2, <4>1
    <3> QED
      BY <3>2, <3>3
  <2>4. ASSUME x \in InLogs(os, LiveLogs(os))
        PROVE  x \in InLogs(os', LiveLogs(os))
    <3>1. PICK n \in LiveLogs(os) : x \in ToSet(os.data[Log(n)])
      BY <2>2, <2>4
    <3>2. x \in ToSet(os'.data[Log(n)])
      BY <1>11, <1>12, <3>1
    <3> QED
      BY <2>1, <3>2
  <2>5. r \in InLogs(os', LiveLogs(os))
    <3>1. r \in ToSet(os'.data[Log(db.log)])
      BY <1>11
    <3> QED
      BY <1>9, <2>1, <3>1
  <2> QED
    BY <2>3, <2>4, <2>5
<1>14. Reopened(os') = Reopened(os) \cup {r}
  BY <1>1, <1>2, <1>7, <1>8, <1>10, <1>13 DEF Reopened
<1> QED
  BY <1>3, <1>4, <1>6, <1>7, <1>8, <1>14

\* Every version a crash may leave has the write behind the others, or not at all.
LEMMA WriteIsSound ==
    ASSUME DBInv, db.phase = "open", NEW r, NEW f, f = Log(db.log), Logged(f, r),
           issued' = issued + 1, NEW sync, acked' = IF sync THEN acked \cup {r.id} ELSE acked,
           sync => Forced(f)
    PROVE  SoundFiles'
<1>1. /\ IsOS(os) /\ db \in Process /\ SoundFiles /\ Running /\ os.dir.current # 0
      /\ KnownDirs /\ KnownHere /\ Recovered(os) \in Version /\ issued \in Nat
  BY OpenFacts DEF KnownHere, Counted
<1>2. /\ os'.dir = os.dir /\ Dirs' \subseteq Dirs
      /\ os'.data[f] = Append(os.data[f], r) /\ Kept(f) <= Kept(f)'
      /\ \A d \in Dirs' : \A g \in d.files :
            g # f => os'.data[g] = os.data[g] /\ Kept(g)' = Kept(g)
  BY DEF Logged
<1>3. /\ Recovered(os') = Recovered(os) /\ Reopened(os') = Reopened(os) \cup {r}
      /\ os'.dir \in Dirs'
  BY WriteIsFound
<1>4. f \in os.dir.files /\ db.log \in Nat /\ Recovered(os).log <= db.log
  BY <1>1, OpenDir DEF Running
<1>5. os.data[f] \in Seq(Update) /\ Kept(f) \in 0..Len(os.data[f])
  BY <1>1, <1>4 DEF KnownDirs, KnownHere
<1>6. /\ Len(os'.data[f]) = Len(os.data[f]) + 1 /\ Len(os.data[f]) \in Nat
      /\ os'.data[f][Len(os.data[f]) + 1] = r
      /\ \A i \in 1..Len(os.data[f]) : os'.data[f][i] = os.data[f][i]
      /\ ToSet(os'.data[f]) = ToSet(os.data[f]) \cup {r}
  <2>1. PICK s, t : s = os.data[f] /\ t = os'.data[f]
    OBVIOUS
  <2>2. s \in Seq(Update) /\ t = Append(s, r)
    BY <1>2, <1>5, <2>1
  <2>3. /\ Len(t) = Len(s) + 1 /\ Len(s) \in Nat /\ t[Len(s) + 1] = r
        /\ \A i \in 1..Len(s) : t[i] = s[i]
    BY <2>2
  <2>4. ToSet(t) = ToSet(s) \cup {r}
    BY <2>2, LongerLog
  <2> QED
    BY <2>1, <2>3, <2>4
<1>7. \A i \in 1..Kept(f) : i \in 1..Kept(f)' /\ os'.data[f][i] = os.data[f][i]
  <2>1. Kept(f)' \in Int
    <3>1. os'.dir \in Dirs' /\ IsOS(os') /\ f \in os'.dir.files
      BY <1>2, <1>3, <1>4 DEF Logged
    <3>2. Named(os'.dirs, f)
      BY <3>1 DEF Named, IsOS
    <3>3. os'.synced[f] \in 0..Len(os'.data[f]) /\ Len(os'.data[f]) \in Nat
      BY <3>1, <3>2, FileExists
    <3> QED
      BY <3>3 DEF Kept
  <2> QED
    BY <1>2, <1>5, <1>6, <2>1
<1>8. ASSUME NEW d \in Dirs'
      PROVE  SoundDir(d)'
  <2>1. d \in Dirs
    BY <1>2
  <2>2. /\ SoundDir(d) /\ Manifest(d.current) \in d.files
        /\ \A k \in Cuts(d) : At(d, k) \in Version /\ SoundVersion(d, At(d, k))
        /\ d.files \in SUBSET File
    BY <1>1, <2>1, Sound DEF KnownDirs
  <2>3. Edits(d)' = Edits(d) /\ Cuts(d)' = Cuts(d) /\ \A k : At(d, k)' = At(d, k)
    <3>1. Manifest(d.current) # f
      BY Names
    <3>2. Edits(d)' = Edits(d) /\ Kept(Manifest(d.current))' = Kept(Manifest(d.current))
      BY <1>2, <2>2, <3>1 DEF Edits
    <3> QED
      BY <3>2 DEF Cuts, At
  <2>4. ASSUME NEW k \in Cuts(d), NEW v, v = At(d, k)
        PROVE  SoundVersion(d, v)'
    <3>1. /\ d.current < v.next /\ v.log \in 0..v.next - 1 /\ v.seq <= issued
          /\ v.next <= Recovered(os).next /\ v.log <= Recovered(os).log
          /\ HasTables(d, v) /\ Finds(d, v)
          /\ (\A id \in acked : Keeps(d, v, id)) /\ v \in Version
      BY <2>2, <2>4 DEF SoundVersion
    <3>2. \A n \in v.tables : /\ os'.data[Table(n)] = os.data[Table(n)]
                              /\ Kept(Table(n))' = Kept(Table(n))
      <4>1. \A n \in v.tables : Table(n) \in d.files /\ Table(n) # f
        BY <3>1, Names DEF HasTables
      <4> QED
        BY <1>2, <4>1
    <3>3. \A n \in LogsOf(d, v) : n # db.log =>
             os'.data[Log(n)] = os.data[Log(n)] /\ Kept(Log(n))' = Kept(Log(n))
      <4> SUFFICES ASSUME NEW n \in LogsOf(d, v), n # db.log
                   PROVE  os'.data[Log(n)] = os.data[Log(n)] /\ Kept(Log(n))' = Kept(Log(n))
        OBVIOUS
      <4>1. Log(n) \in d.files /\ Log(n) # f
        BY <2>2, LogNumbers, Names DEF LogsOf
      <4> QED
        BY <1>2, <4>1
    <3>4. HasTables(d, v)'
      BY <3>1, <3>2 DEF HasTables, Whole, DataOf
    <3>5. Finds(d, v)'
      <4>1. \A n \in v.tables : DataOf(n)' \subseteq Reopened(os')
        BY <1>3, <3>1, <3>2 DEF Finds, DataOf
      <4>2. \A n \in LogsOf(d, v) : ToSet(os'.data[Log(n)]) \subseteq Reopened(os')
        <5> SUFFICES ASSUME NEW n \in LogsOf(d, v)
                     PROVE  ToSet(os'.data[Log(n)]) \subseteq Reopened(os')
          OBVIOUS
        <5>1. ToSet(os.data[Log(n)]) \subseteq Reopened(os)
          BY <3>1 DEF Finds
        <5>2. CASE n = db.log
          BY <1>3, <1>6, <5>1, <5>2
        <5>3. CASE n # db.log
          BY <1>3, <3>3, <5>1, <5>3
        <5> QED
          BY <5>2, <5>3
      <4> QED
        BY <4>1, <4>2 DEF Finds, LogsOf
    <3>6. ASSUME NEW id \in acked
          PROVE  Keeps(d, v, id)'
      <4>1. Keeps(d, v, id)
        BY <3>1
      <4>2. CASE \E n \in v.tables : \E q \in DataOf(n) : q.id = id
        BY <3>2, <4>2 DEF Keeps, DataOf
      <4>3. CASE \E n \in LogsOf(d, v) : \E i \in 1..Kept(Log(n)) : os.data[Log(n)][i].id = id
        <5>1. PICK n \in LogsOf(d, v) : \E i \in 1..Kept(Log(n)) : os.data[Log(n)][i].id = id
          BY <4>3
        <5>2. \E i \in 1..Kept(Log(n))' : os'.data[Log(n)][i].id = id
          <6>1. CASE n = db.log
            BY <1>7, <5>1, <6>1
          <6>2. CASE n # db.log
            BY <3>3, <5>1, <6>2
          <6> QED
            BY <6>1, <6>2
        <5> QED
          BY <5>1, <5>2 DEF Keeps, LogsOf
      <4> QED
        BY <4>1, <4>2, <4>3 DEF Keeps
    <3>7. ASSUME sync
          PROVE  Keeps(d, v, r.id)'
      <4>1. d = os.dir /\ Kept(f)' = Len(os.data[f]) + 1
        BY <1>6, <3>7 DEF Forced
      <4>2. db.log \in LogsOf(d, v)
        <5>1. db.log \in Numbers(d.files, "log")
          BY <1>4, <2>2, <4>1, LogNumbers
        <5>2. v.log <= db.log
          BY <1>1, <1>4, <3>1 DEF Version
        <5> QED
          BY <5>1, <5>2, <1>4, <3>1 DEF LogsOf, Version
      <4>3. Len(os.data[f]) + 1 \in 1..Kept(f)' /\ os'.data[f][Len(os.data[f]) + 1].id = r.id
        BY <1>6, <4>1
      <4> QED
        BY <4>2, <4>3 DEF Keeps, LogsOf
    <3>8. \A id \in acked' : Keeps(d, v, id)'
      BY <3>6, <3>7
    <3>9. v.seq <= issued'
      BY <1>1, <3>1 DEF Version
    <3> QED
      BY <1>3, <3>1, <3>4, <3>5, <3>8, <3>9 DEF SoundVersion
  <2>5. \A k \in Cuts(d)' : SoundVersion(d, At(d, k))'
    <3> SUFFICES ASSUME NEW k \in Cuts(d)', NEW v, v = At(d, k)'
                 PROVE  SoundVersion(d, v)'
      OBVIOUS
    <3> QED
      BY <2>3, <2>4
  <2>6. /\ \A i \in 1..Len(Edits(d)) - 1 : ~Edits(d)[i].torn
        /\ \A n \in Numbers(d.files, "log") :
              n \in Numbers(os.dir.files, "log") \/ n < Recovered(os).log
        /\ d.current # 0
    BY <2>2 DEF SoundDir
  <2> QED
    BY <1>2, <1>3, <2>2, <2>3, <2>5, <2>6 DEF SoundDir
<1> QED
  BY <1>1, <1>2, <1>8 DEF SoundFiles

LEMMA WriteIsFine ==
    ASSUME DBInv, NEW sync \in BOOLEAN, Write(sync), FsyncLinks
    PROVE  DBInv' /\ Reopened(os) \subseteq Reopened(os')
           /\ (\A q \in Reopened(os') \ Reopened(os) : q.id = issued + 1)
           /\ (\E q \in Reopened(os') : q.id = issued + 1) /\ issued < MaxWrites
           /\ acked \subseteq acked' /\ acked' \subseteq acked \cup {issued + 1}
<1>1. Open /\ ~db.bg_error /\ Spend("writes") /\ issued' = issued + 1
      /\ acked' = IF sync THEN acked \cup {issued + 1} ELSE acked
  BY DEF Write
<1>2. /\ IsOS(os) /\ db \in Process /\ Counted /\ SoundFiles /\ Apart
      /\ Running /\ os.dir.current # 0 /\ KnownDirs /\ KnownHere /\ Working
      /\ db.phase = "open" /\ db.doomed = {}
  BY <1>1, OpenFacts DEF Open
<1>3. PICK r, f, o, m, q : /\ r = [id |-> issued + 1, seq |-> db.seq + 1] /\ f = Log(db.log)
                           /\ o = AddRecord(os, f, r) /\ m = db.mem \cup {r} /\ q = db.seq + 1
  OBVIOUS
<1>4. /\ os' = IF sync THEN Sync(o, f) ELSE o
      /\ db' = [db EXCEPT !.mem = m, !.seq = q]
  BY <1>3 DEF Write
<1>5. /\ issued \in Nat /\ db.seq \in Nat /\ q \in Nat /\ r.id = issued + 1 /\ r.seq = q
      /\ r \in Update /\ m \in SUBSET Update /\ db.seq <= issued
  BY <1>2, <1>3 DEF Counted, Process, Running, Update
<1>6. Spends("writes") /\ left \in [Occasions -> Nat] /\ left.writes > 0
      /\ left' = [left EXCEPT !["writes"] = @ - 1]
  BY <1>1, <1>2, Budgeted DEF Spend, Occasions, Counted
<1>7. /\ left' \in [Occasions -> Nat] /\ left'.writes = left.writes - 1
      /\ (Lossy' <=> Lossy)
  BY <1>6 DEF Spends, Occasions, Lossy
<1>8. f \in os.dir.files /\ Fits(f, r)
  BY <1>2, <1>3, <1>5, Names DEF Running, Fits
<1>9. Logged(f, r) /\ (sync => Forced(f))
  BY <1>2, <1>3, <1>4, <1>7, <1>8, Logging
<1>10. /\ Recovered(os') = Recovered(os) /\ Records(os') = Records(os)
       /\ Reopened(os') = Reopened(os) \cup {r} /\ os'.dir \in Dirs' /\ Stay(f)
       /\ LiveLogs(os') = LiveLogs(os)
  BY <1>2, <1>3, <1>9, WriteIsFound
<1>11. SoundFiles'
  <2>1. acked' = IF sync THEN acked \cup {r.id} ELSE acked
    BY <1>1, <1>5
  <2> QED
    BY <1>1, <1>2, <1>3, <1>9, <2>1, WriteIsSound
<1>12. IsOS(os') /\ os'.dir = os.dir /\ Dirs' \subseteq Dirs /\ os'.data[f] = Append(os.data[f], r)
  BY <1>9 DEF Logged
<1>13. db' \in Process
  <2>1. db \in Process /\ m \in SUBSET Update /\ q \in Nat
    BY <1>2, <1>5
  <2> QED
    BY <1>4, <2>1 DEF Process
<1>14. /\ db'.flush = db.flush /\ db'.merge = db.merge /\ db'.outputs = db.outputs
       /\ db'.next = db.next /\ db'.apply = db.apply /\ db'.doomed = db.doomed
       /\ db'.phase = db.phase /\ db'.bg_error = db.bg_error /\ db'.tables = db.tables
       /\ db'.pinned = db.pinned /\ db'.log_number = db.log_number
       /\ db'.manifest = db.manifest /\ db'.imm = db.imm /\ db'.has_imm = db.has_imm
       /\ db'.log = db.log
  BY <1>2, <1>4 DEF Process
<1>15. db'.mem = m /\ db'.seq = q
  BY <1>2, <1>4 DEF Process
<1>16. \A s \in Reopened(os) : s.seq <= db.seq /\ s.seq \in 1..issued /\ s.id \in 1..issued
  BY <1>2 DEF Working, Counted
<1>17. Counted'
  <2>1. \A s \in Reopened(os') : /\ s.id \in 1..issued' /\ s.seq \in 1..issued'
                                 /\ \A p \in Reopened(os') : p.seq = s.seq => p = s
    <3>1. \A s \in Reopened(os) : s.seq # q
      BY <1>3, <1>5, <1>16
    <3>2. r.id \in 1..issued' /\ r.seq \in 1..issued'
      BY <1>1, <1>3, <1>5
    <3>3. \A s \in Reopened(os) : s.id \in 1..issued' /\ s.seq \in 1..issued'
      BY <1>1, <1>5, <1>16
    <3>4. \A s, p \in Reopened(os) : p.seq = s.seq => p = s
      BY <1>2 DEF Counted
    <3>5. \A s \in Reopened(os') : s \in Reopened(os) \/ s = r
      BY <1>10
    <3> QED
      BY <1>5, <3>1, <3>2, <3>3, <3>4, <3>5
  <2>2. issued' \in Nat /\ acked' \subseteq Nat
    <3>1. acked \subseteq Nat /\ issued + 1 \in Nat
      BY <1>2, <1>5 DEF Counted
    <3>2. acked' \subseteq acked \cup {issued + 1}
      BY <1>1
    <3> QED
      BY <1>1, <3>1, <3>2
  <2>3. issued' + left'.writes <= MaxWrites
    <3>1. issued + left.writes <= MaxWrites /\ left.writes \in Nat
      BY <1>2, <1>6 DEF Counted, Occasions
    <3>2. issued' + left'.writes = issued + left.writes
      BY <1>1, <1>5, <1>7, <3>1
    <3> QED
      BY <3>1, <3>2
  <2> QED
    BY <1>7, <2>1, <2>2, <2>3 DEF Counted
<1>18. \A n : Table(n) \in os.dir.files =>
          /\ Table(n) \in os'.dir.files /\ os'.data[Table(n)] = os.data[Table(n)]
          /\ Kept(Table(n))' = Kept(Table(n))
  BY <1>3, <1>10, Names DEF Stay
<1>19. /\ os'.data[Manifest(os.dir.current)] = os.data[Manifest(os.dir.current)]
       /\ Kept(Manifest(os.dir.current))' = Kept(Manifest(os.dir.current))
  <2>1. Manifest(os.dir.current) \in os.dir.files /\ Manifest(os.dir.current) # f
    BY <1>2, <1>3, OpenDir, Names
  <2>2. Stay(f)
    BY <1>10
  <2>3. os'.dir = os.dir
    BY <1>12
  <2> QED
    BY <2>1, <2>2, <2>3 DEF Stay
<1>20. ASSUME db.apply # NoApply
       PROVE  Applying'
  <2>1. Applying
    BY <1>2, <1>20 DEF Running
  <2>2. \A d \in Dirs : d.current = os.dir.current
    BY <2>1 DEF Applying
  <2>3. Steady
    BY <1>10, <1>12, <1>18, <1>19, <2>2 DEF Steady
  <2>4. db.next <= db'.next
    BY <1>2, <1>14 DEF Process
  <2> QED
    BY <1>2, <1>13, <1>14, <2>1, <2>3, <2>4, StillApplying
<1>21. Running'
  <2>1. TypeOK'
    <3>1. DOMAIN os'.data = DOMAIN os'.synced /\ os'.dir.files \subseteq DOMAIN os'.data
      BY <1>12, TypedOS
    <3> QED
      BY <1>2, <1>14, <3>1 DEF TypeOK, Running
  <2>2. InUse' = InUse
    BY <1>14 DEF InUse
  <2>3. \A n \in InUse' : Table(n) \in os'.dir.files /\ n < db'.next /\ Len(os'.data[Table(n)]) = 1
    BY <1>2, <1>14, <1>18, <2>2 DEF Running
  <2>4. db'.seq <= issued'
    BY <1>1, <1>3, <1>5, <1>15
  <2>5. \A n \in {db.flush, db.merge.out} : Empty(n) => Empty(n)'
    BY <1>14, <1>18 DEF Empty
  <2>6. db'.flush # 0 => Empty(db.flush)'
    BY <1>2, <1>14, <2>5 DEF Running
  <2>7. db'.merge # NoMerge => /\ db'.merge.out # 0 /\ db'.merge.out # db'.flush
                               /\ Table(db'.merge.out) \in os'.dir.files
                               /\ db'.merge.out < db'.next
                               /\ db'.apply.who # "merge" => Empty(db.merge.out)'
    BY <1>2, <1>12, <1>14, <2>5 DEF Running
  <2>8. db'.merge.inputs \subseteq db'.tables
    BY <1>2, <1>14 DEF Running
  <2>9. /\ os'.dir.current # 0 /\ db'.manifest = os'.dir.current
        /\ Recovered(os').next <= db'.next
        /\ Log(db'.log) \in os'.dir.files /\ Recovered(os').log <= db'.log
        /\ \A n \in Numbers(os'.dir.files, "log") : n < db'.next
    BY <1>2, <1>10, <1>12, <1>14 DEF Running
  <2>10. ~db'.bg_error /\ db'.doomed = {}
    BY <1>1, <1>2, <1>14
  <2> QED
    BY <1>14, <1>20, <2>1, <2>3, <2>4, <2>6, <2>7, <2>8, <2>9, <2>10 DEF Running
<1>22. Working'
  <2>1. db'.apply.step # "sync" => Settled'
    BY <1>2, <1>10, <1>12, <1>14, <1>19 DEF Working, Settled, Edits
  <2>2. InTables(os', db.tables) = InTables(os, db.tables)
    <3>1. \A n \in db.tables : Table(n) \in os.dir.files /\ Table(n) # f
      BY <1>2, <1>3, Names DEF Running, InUse
    <3> QED
      BY <1>10, <3>1, TablesStay
  <2>3. Memory' = Memory \cup {r}
    BY <1>3, <1>14, <1>15, <2>2 DEF Memory
  <2>4. Memory' = Reopened(os')
    BY <1>2, <1>10, <2>3 DEF Working
  <2>5. \A s \in Memory' : s.seq <= db'.seq
    <3>1. \A s \in Reopened(os) : s.seq <= q
      BY <1>3, <1>5, <1>16
    <3>2. r.seq <= q
      BY <1>5
    <3> QED
      BY <1>10, <1>15, <2>4, <3>1, <3>2
  <2>6. ToSet(os'.data[f]) = db'.mem
    <3>1. os.data[f] \in Seq(Update)
      BY <1>2, <1>3, <1>8 DEF KnownDirs, KnownHere
    <3>0. PICK s, t : s = os.data[f] /\ t = os'.data[f]
      OBVIOUS
    <3>2. ToSet(t) = ToSet(s) \cup {r}
      <4>1. s \in Seq(Update) /\ t = Append(s, r)
        BY <1>12, <3>0, <3>1
      <4> QED
        BY <4>1, LongerLog
    <3> QED
      BY <1>2, <1>3, <1>15, <3>0, <3>2 DEF Working
  <2>7. db.has_imm => os'.data[Log(db.log_number)] = os.data[Log(db.log_number)]
    <3> SUFFICES ASSUME db.has_imm
                 PROVE  os'.data[Log(db.log_number)] = os.data[Log(db.log_number)]
      OBVIOUS
    <3>1. db.log_number < db.log /\ Log(db.log_number) \in os.dir.files
      BY <1>2 DEF Working
    <3>2. Log(db.log_number) # f
      <4>1. db.log_number \in Nat /\ db.log \in Nat
        BY <1>2 DEF Process
      <4> QED
        BY <1>3, <3>1, <4>1, Names
    <3> QED
      BY <1>10, <3>1, <3>2 DEF Stay
  <2>8. \A n \in Numbers(os'.dir.files, "log") :
           n >= db'.log_number => n \in {db'.log_number, db'.log}
    BY <1>2, <1>12, <1>14 DEF Working
  <2>9. IF db'.has_imm
        THEN /\ db'.log_number < db'.log /\ Log(db'.log_number) \in os'.dir.files
             /\ ToSet(os'.data[Log(db'.log_number)]) = db'.imm
        ELSE db'.log_number = db'.log /\ db'.imm = {} /\ db'.flush = 0
    BY <1>2, <1>12, <1>14, <2>7 DEF Working
  <2> QED
    BY <1>3, <1>14, <2>1, <2>4, <2>5, <2>6, <2>8, <2>9 DEF Working
<1>23. PhaseInv'
  BY <1>2, <1>14, <1>21, <1>22 DEF PhaseInv
<1>24. Apart'
  BY <1>2, <1>6, <1>14, ApartAsBefore
<1>25. DBInv'
  BY <1>11, <1>12, <1>13, <1>17, <1>23, <1>24 DEF DBInv
<1>26. issued < MaxWrites
  <2>1. issued + left.writes <= MaxWrites /\ left.writes \in Nat
    BY <1>2, <1>6 DEF Counted, Occasions
  <2>2. MaxWrites \in Int
    BY FilesAssumption
  <2> QED
    BY <1>5, <1>6, <2>1, <2>2
<1> QED
  BY <1>1, <1>5, <1>10, <1>25, <1>26

-----------------------------------------------------------------------------
(* LogAndApply in an open database.                                        *)

\* Wherever a crash leads, before the edit is written the MANIFEST says the same.
LEMMA Submitted ==
    ASSUME DBInv, db.phase = "open", db.apply.step \in {"append", "sync"}
    PROVE  /\ Applying /\ Working /\ ~db.bg_error /\ ~db.apply.new /\ db.doomed = {}
           /\ \A d \in Dirs : d.current = os.dir.current /\ SoundDir(d)
           /\ db.apply.step = "append" =>
                 Settled /\ \A d \in Dirs : SoundVersion(d, Recovered(os))
<1>1. /\ IsOS(os) /\ SoundFiles /\ Running /\ os.dir.current # 0 /\ KnownHere
      /\ (~db.bg_error => Working)
  BY OpenFacts
<1>2. db.apply # NoApply
  BY DEF NoApply
<1>3. Applying /\ db.doomed = {}
  BY <1>1, <1>2 DEF Running
<1>4. ~db.bg_error /\ ~db.apply.new /\ Working /\ \A d \in Dirs : d.current = os.dir.current
  BY <1>1, <1>3 DEF Applying
<1>5. \A d \in Dirs : /\ SoundDir(d) /\ Len(Edits(d)) \in Cuts(d)
                      /\ \A k \in Cuts(d) : SoundVersion(d, At(d, k))
  BY <1>1, Sound
<1>6. db.apply.step = "append" => Settled /\ \A d \in Dirs : SoundVersion(d, Recovered(os))
  <2> SUFFICES ASSUME db.apply.step = "append"
               PROVE  Settled /\ \A d \in Dirs : SoundVersion(d, Recovered(os))
    OBVIOUS
  <2>1. Settled
    BY <1>4 DEF Working
  <2>2. ASSUME NEW d \in Dirs
        PROVE  SoundVersion(d, Recovered(os))
    <3>1. Edits(d) = Edits(os.dir)
      BY <1>4 DEF Edits
    <3>2. At(d, Len(Edits(d))) = Recovered(os)
      BY <1>1, <3>1 DEF At, KnownHere
    <3> QED
      BY <1>5, <3>2
  <2> QED
    BY <2>1, <2>2
<1> QED
  BY <1>3, <1>4, <1>5, <1>6

\* The version that an edit makes of that on disk.
Edited(e, w) ==
    /\ w.tables = (db.tables \ e.del) \cup e.add /\ w.log = e.log
    /\ w.next = db.next /\ w.seq = db.seq /\ w \in Version

LEMMA FlushFulfils ==
    ASSUME DBInv, db.phase = "open", db.apply.step = "append", db.apply.who = "flush",
           NEW w, Edited(db.apply.edit, w)
    PROVE  Fulfils(w)
<1>1. /\ Applying /\ Working /\ Settled /\ \A d \in Dirs : d.current = os.dir.current /\ SoundDir(d)
      /\ \A d \in Dirs : SoundVersion(d, Recovered(os))
  BY Submitted
<1>2. /\ IsOS(os) /\ db \in Process /\ Running /\ KnownHere /\ KnownDirs /\ Recovered(os) \in Version
      /\ issued \in Nat
  BY OpenFacts DEF KnownHere, Counted
<1>3. /\ db.log \in Nat /\ db.log_number \in Nat /\ db.next \in Nat /\ db.seq \in Nat
      /\ os.dir.files \in SUBSET File /\ os.dir \in Dirs
  BY <1>2, OpenDir DEF Process
<1>4. FlushEdit
  BY <1>1 DEF Applying
<1>5. PICK n : db.apply.edit.add = {n} /\ os.data[Table(n)] = <<db.imm>>
  BY <1>4 DEF FlushEdit
<1>6. w.tables = db.tables \cup {n} /\ w.log = db.log /\ w.next = db.next /\ w.seq = db.seq
  BY <1>4, <1>5 DEF Edited, FlushEdit
<1>7. /\ n < db.next /\ Whole(n) /\ \A d \in Dirs : Table(n) \in d.files
  BY <1>1, <1>5 DEF Applying
<1>8. DataOf(n) = db.imm
  BY <1>5 DEF DataOf
<1>9. /\ db.log_number < db.log /\ Log(db.log_number) \in os.dir.files
      /\ ToSet(os.data[Log(db.log_number)]) = db.imm /\ ToSet(os.data[Log(db.log)]) = db.mem
      /\ Memory = Reopened(os) /\ \A r \in Memory : r.seq <= db.seq
      /\ \A m \in Numbers(os.dir.files, "log") : m >= db.log_number => m \in {db.log_number, db.log}
  BY <1>1, <1>4 DEF Working, FlushEdit
<1>10. Recovered(os).tables = db.tables /\ Recovered(os).log = db.log_number
  BY <1>1 DEF Settled
<1>11. Log(db.log) \in os.dir.files /\ db.log \in Numbers(os.dir.files, "log") /\ db.log < db.next
  <2>1. Log(db.log) \in os.dir.files /\ \A m \in Numbers(os.dir.files, "log") : m < db.next
    BY <1>2 DEF Running
  <2> QED
    BY <1>3, <2>1, LogNumbers
<1>12. /\ w.log \in 0..w.next - 1 /\ w.seq <= issued /\ w.next \in Nat
       /\ Recovered(os).next <= w.next /\ Recovered(os).log <= w.log
  BY <1>2, <1>3, <1>6, <1>9, <1>10, <1>11 DEF Running
<1>13. ASSUME NEW d \in Dirs
       PROVE  HasTables(d, w)
  <2> SUFFICES ASSUME NEW m \in w.tables
               PROVE  /\ m < w.next /\ Table(m) \in d.files /\ Whole(m)
                      /\ \A r \in DataOf(m) : r.seq <= w.seq
    BY DEF HasTables
  <2>1. CASE m = n
    BY <1>6, <1>7, <1>8, <1>9, <2>1 DEF Memory
  <2>2. CASE m \in db.tables
    <3>1. HasTables(d, Recovered(os)) /\ Finds(d, Recovered(os)) /\ m \in Recovered(os).tables
      BY <1>1, <1>10, <2>2 DEF SoundVersion
    <3>2. m < db.next
      BY <1>2, <2>2 DEF Running, InUse
    <3>3. \A r \in DataOf(m) : r.seq <= db.seq
      BY <1>9, <3>1 DEF Finds
    <3> QED
      BY <1>6, <3>1, <3>2, <3>3 DEF HasTables
  <2> QED
    BY <1>6, <2>1, <2>2
<1>14. ASSUME NEW d \in Dirs, NEW id \in acked
       PROVE  Keeps(d, w, id)
  <2>1. Keeps(d, Recovered(os), id)
    BY <1>1 DEF SoundVersion
  <2>2. CASE \E m \in Recovered(os).tables : \E r \in DataOf(m) : r.id = id
    BY <1>6, <1>10, <2>2 DEF Keeps
  <2>3. CASE \E m \in LogsOf(d, Recovered(os)) : \E i \in 1..Kept(Log(m)) : os.data[Log(m)][i].id = id
    <3>0. PICK m \in LogsOf(d, Recovered(os)) :
             \E i \in 1..Kept(Log(m)) : os.data[Log(m)][i].id = id
      BY <2>3
    <3>1. PICK i \in 1..Kept(Log(m)) : os.data[Log(m)][i].id = id
      BY <3>0
    <3>2. m \in Numbers(d.files, "log") /\ m >= db.log_number /\ m \in Nat /\ Log(m) \in d.files
      <4>1. d.files \in SUBSET File
        BY <1>2 DEF KnownDirs
      <4> QED
        BY <1>10, <3>1, <4>1, LogNumbers DEF LogsOf
    <3>3. m \in Numbers(os.dir.files, "log")
      BY <1>1, <1>3, <1>10, <3>2 DEF SoundDir
    <3>4. m \in {db.log_number, db.log}
      BY <1>9, <3>2, <3>3
    <3>5. CASE m = db.log
      <4>1. m \in LogsOf(d, w)
        BY <1>3, <1>6, <3>2, <3>5 DEF LogsOf
      <4> QED
        BY <3>1, <4>1 DEF Keeps
    <3>6. CASE m = db.log_number
      <4>1. os.data[Log(m)] \in Seq(Update) /\ Kept(Log(m)) \in 0..Len(os.data[Log(m)])
        BY <1>2, <3>2 DEF KnownDirs
      <4>2. os.data[Log(m)][i] \in ToSet(os.data[Log(m)])
        <5>1. i \in DOMAIN os.data[Log(m)]
          BY <3>1, <4>1
        <5> QED
          BY <5>1 DEF ToSet
      <4>3. os.data[Log(m)][i] \in DataOf(n)
        BY <1>8, <1>9, <3>6, <4>2
      <4> QED
        BY <1>6, <3>1, <4>3 DEF Keeps
    <3> QED
      BY <3>4, <3>5, <3>6
  <2> QED
    BY <2>1, <2>2, <2>3 DEF Keeps
<1>15. Holds(os.dir, w) = Memory
  <2>1. LogsOf(os.dir, w) = {db.log}
    <3>1. ASSUME NEW m \in LogsOf(os.dir, w)
          PROVE  m = db.log
      <4>1. m \in Numbers(os.dir.files, "log") /\ m >= db.log /\ m \in Nat
        BY <1>3, <1>6, LogNumbers DEF LogsOf
      <4> QED
        BY <1>3, <1>9, <4>1
    <3>2. db.log \in LogsOf(os.dir, w)
      BY <1>3, <1>6, <1>11 DEF LogsOf
    <3> QED
      BY <3>1, <3>2
  <2>2. InLogs(os, {db.log}) = db.mem
    BY <1>9 DEF InLogs
  <2>3. TableData(os, n) = db.imm
    <3>1. Table(n) \in os.dir.files /\ Len(os.data[Table(n)]) = 1
      BY <1>3, <1>7 DEF Whole
    <3>2. os.data[Table(n)] # <<>>
      BY <1>5
    <3> QED
      BY <1>8, <3>1, <3>2 DEF TableData, TableOK, DataOf
  <2>4. InTables(os, w.tables) = InTables(os, db.tables) \cup db.imm
    BY <1>6, <2>3 DEF InTables
  <2> QED
    BY <2>1, <2>2, <2>4 DEF Holds, Memory
<1> QED
  BY <1>9, <1>12, <1>13, <1>14, <1>15 DEF Fulfils

LEMMA MergeFulfils ==
    ASSUME DBInv, db.phase = "open", db.apply.step = "append", db.apply.who = "merge",
           NEW e, e.add = db.apply.edit.add, e.del = db.apply.edit.del, e.log = db.log_number,
           NEW w, Edited(e, w)
    PROVE  Fulfils(w)
<1>1. /\ Applying /\ Working /\ Settled /\ \A d \in Dirs : d.current = os.dir.current /\ SoundDir(d)
      /\ \A d \in Dirs : SoundVersion(d, Recovered(os))
  BY Submitted
<1>2. /\ IsOS(os) /\ db \in Process /\ Running /\ KnownHere /\ KnownDirs /\ Recovered(os) \in Version
      /\ issued \in Nat
  BY OpenFacts DEF KnownHere, Counted
<1>3. /\ db.log \in Nat /\ db.log_number \in Nat /\ db.next \in Nat /\ db.seq \in Nat
      /\ os.dir.files \in SUBSET File /\ os.dir \in Dirs
  BY <1>2, OpenDir DEF Process
<1>4. MergeEdit
  BY <1>1 DEF Applying
<1>5. PICK n, inputs : n = db.merge.out /\ inputs = db.merge.inputs
  OBVIOUS
<1>6. /\ w.tables = (db.tables \ inputs) \cup {n} /\ w.log = db.log_number
      /\ w.next = db.next /\ w.seq = db.seq /\ inputs \subseteq db.tables
  BY <1>2, <1>4, <1>5 DEF Edited, MergeEdit, Running
<1>7. /\ n < db.next /\ Whole(n) /\ \A d \in Dirs : Table(n) \in d.files
      /\ DataOf(n) = InTables(os, inputs)
  BY <1>1, <1>4, <1>5 DEF Applying, MergeEdit
<1>8. Memory = Reopened(os) /\ (\A r \in Memory : r.seq <= db.seq) /\ db.log_number <= db.log
  BY <1>1, <1>3 DEF Working
<1>9. Recovered(os).tables = db.tables /\ Recovered(os).log = db.log_number
  BY <1>1 DEF Settled
<1>10. \A m \in db.tables : TableData(os, m) = DataOf(m)
  BY <1>2, <1>9 DEF KnownHere
<1>11. /\ w.log \in 0..w.next - 1 /\ w.seq <= issued /\ w.next \in Nat
       /\ Recovered(os).next <= w.next /\ Recovered(os).log <= w.log
  <2>1. db.log < db.next
    <3>1. Log(db.log) \in os.dir.files /\ \A m \in Numbers(os.dir.files, "log") : m < db.next
      BY <1>2 DEF Running
    <3> QED
      BY <1>3, <3>1, LogNumbers
  <2> QED
    BY <1>2, <1>3, <1>6, <1>8, <1>9, <2>1 DEF Running
<1>12. DataOf(n) \subseteq Memory
  <2>1. InTables(os, inputs) \subseteq InTables(os, db.tables)
    BY <1>6 DEF InTables
  <2> QED
    BY <1>7, <2>1 DEF Memory
<1>13. ASSUME NEW d \in Dirs
       PROVE  HasTables(d, w)
  <2> SUFFICES ASSUME NEW m \in w.tables
               PROVE  /\ m < w.next /\ Table(m) \in d.files /\ Whole(m)
                      /\ \A r \in DataOf(m) : r.seq <= w.seq
    BY DEF HasTables
  <2>1. CASE m = n
    BY <1>6, <1>7, <1>8, <1>12, <2>1
  <2>2. CASE m \in db.tables
    <3>1. HasTables(d, Recovered(os)) /\ Finds(d, Recovered(os)) /\ m \in Recovered(os).tables
      BY <1>1, <1>9, <2>2 DEF SoundVersion
    <3>2. m < db.next
      BY <1>2, <2>2 DEF Running, InUse
    <3>3. \A r \in DataOf(m) : r.seq <= db.seq
      BY <1>8, <3>1 DEF Finds
    <3> QED
      BY <1>6, <3>1, <3>2, <3>3 DEF HasTables
  <2> QED
    BY <1>6, <2>1, <2>2
<1>14. ASSUME NEW d \in Dirs, NEW id \in acked
       PROVE  Keeps(d, w, id)
  <2>1. Keeps(d, Recovered(os), id)
    BY <1>1 DEF SoundVersion
  <2>2. CASE \E m \in Recovered(os).tables : \E r \in DataOf(m) : r.id = id
    <3>1. PICK m \in db.tables : \E r \in DataOf(m) : r.id = id
      BY <1>9, <2>2
    <3>2. PICK r \in DataOf(m) : r.id = id
      BY <3>1
    <3>3. CASE m \notin inputs
      BY <1>6, <3>1, <3>3 DEF Keeps
    <3>4. CASE m \in inputs
      <4>1. r \in TableData(os, m)
        BY <1>10, <3>1, <3>2
      <4>2. r \in InTables(os, inputs)
        BY <3>4, <4>1, InFiles
      <4>3. r \in DataOf(n)
        BY <1>7, <4>2
      <4> QED
        BY <1>6, <3>2, <4>3 DEF Keeps
    <3> QED
      BY <3>3, <3>4
  <2>3. CASE \E m \in LogsOf(d, Recovered(os)) : \E i \in 1..Kept(Log(m)) : os.data[Log(m)][i].id = id
    <3>1. LogsOf(d, w) = LogsOf(d, Recovered(os))
      BY <1>6, <1>9 DEF LogsOf
    <3> QED
      BY <2>3, <3>1 DEF Keeps
  <2> QED
    BY <2>1, <2>2, <2>3 DEF Keeps
<1>15. Holds(os.dir, w) = Reopened(os)
  <2>1. LogsOf(os.dir, w) = LogsOf(os.dir, Recovered(os))
    BY <1>6, <1>9 DEF LogsOf
  <2>2. Reopened(os) = InTables(os, db.tables) \cup InLogs(os, LogsOf(os.dir, w))
    BY <1>2, <1>9, <2>1 DEF KnownHere, Holds
  <2>3. TableData(os, n) = InTables(os, inputs)
    <3>1. Table(n) \in os.dir.files /\ Len(os.data[Table(n)]) = 1
      BY <1>3, <1>7 DEF Whole
    <3>2. os.data[Table(n)] # <<>>
      <4> SUFFICES ASSUME os.data[Table(n)] = <<>>
                   PROVE  FALSE
        OBVIOUS
      <4>1. Len(os.data[Table(n)]) = 0
        OBVIOUS
      <4> QED
        BY <3>1, <4>1
    <3> QED
      BY <1>7, <3>1, <3>2 DEF TableData, TableOK, DataOf
  <2>4. InTables(os, w.tables) = InTables(os, db.tables)
    <3>1. \A x : x \in InTables(os, w.tables) <=> \E m \in w.tables : x \in TableData(os, m)
      BY InFiles
    <3>2. \A x : x \in InTables(os, db.tables) <=> \E m \in db.tables : x \in TableData(os, m)
      BY InFiles
    <3>3. \A x : x \in InTables(os, inputs) <=> \E m \in inputs : x \in TableData(os, m)
      BY InFiles
    <3>4. \A x : x \in InTables(os, w.tables) <=> x \in InTables(os, db.tables)
      BY <1>6, <2>3, <3>1, <3>2, <3>3
    <3> QED
      BY <3>4
  <2> QED
    BY <2>2, <2>4 DEF Holds
<1> QED
  BY <1>11, <1>13, <1>14, <1>15 DEF Fulfils

LEMMA LaterSays ==
    ASSUME NEW v \in Version, NEW e \in Edit, ~e.torn, e.log >= 0, e.next > 0,
           NEW w, w = Later(v, e)
    PROVE  /\ w \in Version /\ w.tables = (v.tables \ e.del) \cup e.add
           /\ w.log = e.log /\ w.next = e.next /\ w.seq = e.seq
<1>1. w \in Version
  BY LaterIsVersion
<1>2. w = [tables |-> (v.tables \ e.del) \cup e.add, log |-> e.log, next |-> e.next, seq |-> e.seq]
  BY DEF Later
<1> QED
  BY <1>1, <1>2

\* The record, with the numbers the process has by now.
Record(e) ==
    /\ e \in Edit /\ e.add = db.apply.edit.add /\ e.del = db.apply.edit.del /\ ~e.torn
    /\ e.next = db.next /\ e.seq = db.seq /\ e.next > 0 /\ e.log \in Nat
    /\ db.apply.who = "flush" => e.log = db.log /\ db.apply.edit.log = db.log
    /\ db.apply.who = "merge" => e.log = db.log_number

LEMMA RecordIsFit ==
    ASSUME DBInv, db.phase = "open", db.apply.step = "append",
           NEW e, e = [db.apply.edit EXCEPT !.next = db.next, !.seq = db.seq,
                                            !.log = IF @ >= 0 THEN @ ELSE db.log_number]
    PROVE  Record(e)
<1>1. Applying
  BY Submitted
<1>2. Running /\ db \in Process
  BY OpenFacts
<1>3. PICK s, n, q, l : s = db.apply.edit /\ n = db.next /\ q = db.seq
                        /\ l = IF s.log >= 0 THEN s.log ELSE db.log_number
  OBVIOUS
<1>4. s \in Edit /\ n \in Nat /\ q \in Nat /\ db.log \in Nat /\ db.log_number \in Nat
  BY <1>2, <1>3 DEF Process
<1>5. l \in Nat /\ l \in Int
  BY <1>3, <1>4 DEF Edit
<1>6. e = [s EXCEPT !.next = n, !.seq = q, !.log = l]
  BY <1>3
<1>7. e \in Edit
  BY <1>4, <1>5, <1>6 DEF Edit
<1>8. e.add = s.add /\ e.del = s.del /\ e.torn = s.torn /\ e.next = n /\ e.seq = q /\ e.log = l
  BY <1>4, <1>6 DEF Edit
<1>9. n > 0
  <2>1. Log(db.log) \in os.dir.files /\ \A m \in Numbers(os.dir.files, "log") : m < db.next
    BY <1>2 DEF Running
  <2>2. db.log < db.next
    BY <1>4, <2>1, LogNumbers, OpenDir
  <2> QED
    BY <1>3, <1>4, <2>2
<1>10. ~s.torn
  BY <1>1, <1>3 DEF Applying
<1>11. db.apply.who = "flush" => l = db.log /\ s.log = db.log
  BY <1>1, <1>3, <1>4 DEF Applying, FlushEdit
<1>12. db.apply.who = "merge" => l = db.log_number
  BY <1>1, <1>3, <1>4 DEF Applying, MergeEdit
<1> QED
  BY <1>3, <1>5, <1>7, <1>8, <1>9, <1>10, <1>11, <1>12 DEF Record

LEMMA RecordFulfils ==
    ASSUME DBInv, db.phase = "open", db.apply.step = "append", NEW e, Record(e),
           NEW w, w = Later(Recovered(os), e)
    PROVE  Fulfils(w) /\ Edited(e, w)
<1>1. Recovered(os) \in Version /\ Settled /\ Applying
  BY OpenFacts, Submitted DEF KnownHere
<1>2. e \in Edit /\ ~e.torn /\ e.log >= 0 /\ e.next > 0 /\ e.next = db.next /\ e.seq = db.seq
  BY DEF Record
<1>3. /\ w \in Version /\ w.tables = (Recovered(os).tables \ e.del) \cup e.add
      /\ w.log = e.log /\ w.next = e.next /\ w.seq = e.seq
  BY <1>1, <1>2, LaterSays
<1>4. Edited(e, w)
  BY <1>1, <1>2, <1>3 DEF Edited, Settled
<1>5. CASE db.apply.who = "flush"
  <2>1. Edited(db.apply.edit, w)
    BY <1>4, <1>5 DEF Edited, Record
  <2> QED
    BY <1>4, <1>5, <2>1, FlushFulfils
<1>6. CASE db.apply.who = "merge"
  BY <1>4, <1>6, MergeFulfils DEF Record
<1> QED
  BY <1>1, <1>5, <1>6 DEF Applying

LEMMA AppendsEdit ==
    ASSUME DBInv, ApplyAppend, db.phase = "open"
    PROVE  Fine
<1>1. /\ db.apply.step = "append" /\ issued' = issued /\ acked' = acked /\ left' = left
  BY DEF ApplyAppend, History
<1>2. /\ Applying /\ Working /\ Settled /\ ~db.bg_error /\ ~db.apply.new /\ db.doomed = {}
      /\ \A d \in Dirs : d.current = os.dir.current
  BY <1>1, Submitted
<1>3. /\ IsOS(os) /\ db \in Process /\ Counted /\ SoundFiles /\ Apart
      /\ Running /\ os.dir.current # 0 /\ KnownDirs /\ KnownHere /\ Recovered(os) \in Version
  BY OpenFacts DEF KnownHere
<1>4. PICK e, f : /\ e = [db.apply.edit EXCEPT !.next = db.next, !.seq = db.seq,
                                               !.log = IF @ >= 0 THEN @ ELSE db.log_number]
                  /\ f = Manifest(os.dir.current)
  OBVIOUS
<1>5. os' = AddRecord(os, f, e) /\ db' = [db EXCEPT !.apply.step = "sync", !.apply.edit = e]
  BY <1>2, <1>3, <1>4 DEF ApplyAppend, Running
<1>6. Record(e)
  BY <1>1, <1>4, RecordIsFit
<1>7. PICK w : w = Later(Recovered(os), e)
  OBVIOUS
<1>8. Fulfils(w) /\ Edited(e, w)
  BY <1>1, <1>6, <1>7, RecordFulfils
<1>9. Calm("none")
  BY <1>1, <1>3, Budgeted DEF Calm
<1>10. left'.cuts = left.cuts /\ (Lossy' <=> Lossy)
  BY <1>9, Calmly
<1>11. /\ IsOS(os') /\ os'.dir = os.dir /\ os'.dirs = os.dirs
       /\ SoundFiles' /\ Recovered(os') = w /\ Reopened(os') = Reopened(os)
       /\ \A g \in os.dir.files : g # f => SameFile(os, os', g)
       /\ Edits(os.dir)' = Append(Edits(os.dir), e)
  <2>1. e \in Edit /\ w \in Version
    BY <1>6, <1>8 DEF Record, Edited
  <2>2. /\ \A i \in 1..Len(Edits(os.dir)) : ~Edits(os.dir)[i].torn
        /\ Kept(Manifest(os.dir.current)) = Len(Edits(os.dir))
    BY <1>2 DEF Settled
  <2> QED
    BY <1>1, <1>2, <1>3, <1>4, <1>5, <1>7, <1>8, <1>10, <2>1, <2>2, AppliedEdit
<1>12. Stay(f) /\ Dirs' = Dirs
  BY <1>10, <1>11 DEF Stay, SameFile, Kept, Dirs
<1>13. PICK a : a = [db.apply EXCEPT !.step = "sync", !.edit = e]
  OBVIOUS
<1>14. db' = [db EXCEPT !.apply = a]
  BY <1>3, <1>5, <1>13 DEF Process
<1>15. /\ a \in [who : {"none", "open", "flush", "merge"},
                 step : {"none", "append", "sync", "current"}, edit : Edit, new : BOOLEAN]
       /\ a.who = db.apply.who /\ a.step = "sync" /\ a.new = db.apply.new /\ a.edit = e
  BY <1>3, <1>6, <1>13 DEF Process, Record
<1>16. db' \in Process
  BY <1>3, <1>14, <1>15 DEF Process
<1>17. /\ db'.flush = db.flush /\ db'.merge = db.merge /\ db'.outputs = db.outputs
       /\ db'.next = db.next /\ db'.apply = a /\ db'.doomed = db.doomed
       /\ db'.phase = db.phase /\ db'.bg_error = db.bg_error /\ db'.tables = db.tables
       /\ db'.pinned = db.pinned /\ db'.log_number = db.log_number
       /\ db'.manifest = db.manifest /\ db'.imm = db.imm /\ db'.has_imm = db.has_imm
       /\ db'.log = db.log /\ db'.mem = db.mem /\ db'.seq = db.seq
  BY <1>3, <1>14 DEF Process
<1>18. \A n : Table(n) # f /\ Log(n) # f
  BY <1>4, Names
<1>19. \A n : Table(n) \in os.dir.files =>
          /\ os'.data[Table(n)] = os.data[Table(n)] /\ Kept(Table(n))' = Kept(Table(n))
  BY <1>12, <1>18 DEF Stay
<1>20. Applying'
  <2>1. /\ (db.apply.who = "flush" /\ FlushEdit) \/ (db.apply.who = "merge" /\ MergeEdit)
        /\ \A n \in e.add : n < db.next /\ Whole(n)
        /\ \A d \in Dirs : /\ d.current = os.dir.current
                           /\ \A n \in e.add : Table(n) \in d.files
    BY <1>2, <1>6 DEF Applying, Record
  <2>2. \A n \in e.add : Table(n) \in os.dir.files /\ Whole(n)'
    <3>1. os.dir \in Dirs
      BY <1>3 DEF KnownHere
    <3> QED
      BY <1>19, <2>1, <3>1 DEF Whole
  <2>3. (db.apply.who = "flush" /\ FlushEdit') \/ (db.apply.who = "merge" /\ MergeEdit')
    <3>1. CASE db.apply.who = "flush"
      <4>1. FlushEdit /\ e.add = db.apply.edit.add /\ e.log = db.log /\ e.del = {}
        BY <1>6, <2>1, <3>1 DEF Record, FlushEdit
      <4>2. PICK n \in e.add : e.add = {n} /\ os.data[Table(n)] = <<db.imm>>
        BY <4>1 DEF FlushEdit
      <4>3. os'.data[Table(n)] = <<db.imm>> /\ db.has_imm /\ db.flush = 0
        BY <1>19, <2>2, <4>1, <4>2 DEF FlushEdit
      <4>4. FlushEdit'
        BY <1>15, <1>17, <4>1, <4>2, <4>3 DEF FlushEdit
      <4> QED
        BY <3>1, <4>4
    <3>2. CASE db.apply.who = "merge"
      <4>1. /\ MergeEdit /\ e.add = db.apply.edit.add /\ e.del = db.apply.edit.del
            /\ e.log = db.log_number
        BY <1>6, <2>1, <3>2 DEF Record
      <4>2. /\ e.add = {db.merge.out} /\ e.del = db.merge.inputs /\ db.merge # NoMerge
            /\ db.flush = 0 /\ DataOf(db.merge.out) = InTables(os, db.merge.inputs)
        BY <4>1 DEF MergeEdit
      <4>3. InTables(os', db.merge.inputs) = InTables(os, db.merge.inputs)
        <5>1. \A n \in db.merge.inputs : Table(n) \in os.dir.files /\ Table(n) # f
          BY <1>3, <1>18 DEF Running, InUse
        <5> QED
          BY <1>12, <5>1, TablesStay
      <4>4. DataOf(db.merge.out)' = DataOf(db.merge.out)
        BY <1>17, <1>19, <2>2, <4>2 DEF DataOf
      <4>5. MergeEdit'
        BY <1>15, <1>17, <4>1, <4>2, <4>3, <4>4 DEF MergeEdit
      <4> QED
        BY <3>2, <4>5
    <3> QED
      BY <2>1, <3>1, <3>2
  <2>4. /\ e.next \in 1..db'.next /\ Recovered(os').tables = (db'.tables \ e.del) \cup e.add
        /\ Recovered(os').log = e.log
    <3>1. e.next = db'.next /\ db'.next \in Nat /\ e.next > 0
      BY <1>3, <1>6, <1>17 DEF Record, Process
    <3> QED
      BY <1>8, <1>11, <1>17, <3>1 DEF Edited
  <2>5. \A i \in 1..Len(Edits(os.dir)') : ~Edits(os.dir)'[i].torn
    <3>1. PICK s, t : s = Edits(os.dir) /\ t = Edits(os.dir)'
      OBVIOUS
    <3>2. s \in Seq(Edit) /\ t = Append(s, e) /\ \A i \in 1..Len(s) : ~s[i].torn
      BY <1>2, <1>11, <3>1, OpenDir DEF Settled
    <3>3. \A i \in 1..Len(t) : ~t[i].torn
      <4>1. /\ Len(t) = Len(s) + 1 /\ Len(s) \in Nat /\ t[Len(s) + 1] = e
            /\ \A i \in 1..Len(s) : t[i] = s[i]
        BY <3>2
      <4>2. ~e.torn
        BY <1>6 DEF Record
      <4> SUFFICES ASSUME NEW i \in 1..Len(t)
                   PROVE  ~t[i].torn
        OBVIOUS
      <4>3. i = Len(s) + 1 \/ i \in 1..Len(s)
        BY <4>1
      <4> QED
        BY <3>2, <4>1, <4>2, <4>3
    <3> QED
      BY <3>1, <3>3
  <2>6. ~db'.apply.new /\ ~db'.bg_error /\ db'.apply.step = "sync" /\ ~e.torn
        /\ db'.apply.edit = e /\ db'.apply.who = db.apply.who /\ db'.next = db.next
    BY <1>2, <1>6, <1>15, <1>17 DEF Record
  <2>7. \A d \in Dirs' : /\ d.current = os'.dir.current
                         /\ \A n \in e.add : Table(n) \in d.files
    BY <1>11, <1>12, <2>1
  <2> QED
    BY <2>1, <2>2, <2>3, <2>4, <2>5, <2>6, <2>7 DEF Applying
<1>21. Running'
  <2>1. TypeOK'
    <3>1. DOMAIN os'.data = DOMAIN os'.synced /\ os'.dir.files \subseteq DOMAIN os'.data
      BY <1>11, TypedOS
    <3> QED
      BY <1>3, <1>17, <3>1 DEF TypeOK, Running
  <2>2. InUse' = InUse
    BY <1>17 DEF InUse
  <2>3. \A n \in InUse' : Table(n) \in os'.dir.files /\ n < db'.next /\ Len(os'.data[Table(n)]) = 1
    BY <1>3, <1>11, <1>17, <1>19, <2>2 DEF Running
  <2>4. \A n \in {db.flush, db.merge.out} : Empty(n) => Empty(n)'
    BY <1>11, <1>17, <1>19 DEF Empty
  <2>5. db'.flush # 0 => Empty(db.flush)'
    BY <1>3, <1>17, <2>4 DEF Running
  <2>6. db'.merge # NoMerge => /\ db'.merge.out # 0 /\ db'.merge.out # db'.flush
                               /\ Table(db'.merge.out) \in os'.dir.files
                               /\ db'.merge.out < db'.next
                               /\ db'.apply.who # "merge" => Empty(db.merge.out)'
    BY <1>3, <1>11, <1>15, <1>17, <2>4 DEF Running
  <2>7. db'.merge.inputs \subseteq db'.tables
    BY <1>3, <1>17 DEF Running
  <2>8. Recovered(os').next <= db'.next /\ Recovered(os').log <= db'.log
    <3>1. w.next = db.next /\ w.log = e.log /\ db.next \in Nat
      BY <1>3, <1>8 DEF Edited, Process
    <3>2. e.log = db.log \/ e.log = db.log_number
      BY <1>2, <1>6 DEF Record, Applying
    <3>3. db.log_number <= db.log /\ db.log \in Nat /\ db.log_number \in Nat
      BY <1>2, <1>3 DEF Working, Process
    <3> QED
      BY <1>11, <1>17, <3>1, <3>2, <3>3
  <2>9. /\ os'.dir.current # 0 /\ db'.manifest = os'.dir.current /\ db'.seq <= issued'
        /\ Log(db'.log) \in os'.dir.files
        /\ \A n \in Numbers(os'.dir.files, "log") : n < db'.next
    BY <1>1, <1>3, <1>11, <1>17 DEF Running
  <2>10. ~db'.bg_error /\ db'.doomed = {}
    BY <1>2, <1>17
  <2> QED
    BY <1>20, <2>1, <2>3, <2>5, <2>6, <2>7, <2>8, <2>9, <2>10 DEF Running
<1>22. Working'
  <2>1. db'.apply.step = "sync"
    BY <1>15, <1>17
  <2>2. InTables(os', db.tables) = InTables(os, db.tables)
    <3>1. \A n \in db.tables : Table(n) \in os.dir.files /\ Table(n) # f
      BY <1>3, <1>18 DEF Running, InUse
    <3> QED
      BY <1>12, <3>1, TablesStay
  <2>3. Memory' = Memory
    BY <1>17, <2>2 DEF Memory
  <2>4. \A n : Log(n) \in os.dir.files => os'.data[Log(n)] = os.data[Log(n)]
    BY <1>12, <1>18 DEF Stay
  <2>5. Log(db.log) \in os.dir.files
    BY <1>3 DEF Running
  <2>6. /\ ToSet(os'.data[Log(db.log)]) = db.mem
        /\ IF db.has_imm
           THEN /\ db.log_number < db.log /\ Log(db.log_number) \in os.dir.files
                /\ ToSet(os'.data[Log(db.log_number)]) = db.imm
           ELSE db.log_number = db.log /\ db.imm = {} /\ db.flush = 0
    BY <1>2, <2>4, <2>5 DEF Working
  <2> QED
    BY <1>2, <1>11, <1>17, <2>1, <2>3, <2>6 DEF Working
<1>23. PhaseInv'
  BY <1>17, <1>21, <1>22 DEF PhaseInv
<1>24. Apart'
  BY <1>3, <1>9, <1>17, ApartAsBefore DEF Calm, Counted
<1>25. Counted'
  BY <1>3, <1>9, <1>11, StillCounted
<1> QED
  BY <1>11, <1>16, <1>23, <1>24, <1>25 DEF Fine, DBInv

\* The MANIFEST is synced, and the version installed.
LEMMA SyncsEdit ==
    ASSUME DBInv, ApplySync, db.phase = "open"
    PROVE  Fine
<1>1. /\ db.apply.step = "sync" /\ issued' = issued /\ acked' = acked /\ left' = left
  BY DEF ApplySync, History
<1>2. /\ Applying /\ Working /\ ~db.bg_error /\ ~db.apply.new /\ db.doomed = {}
  BY <1>1, Submitted
<1>3. /\ IsOS(os) /\ db \in Process /\ Counted /\ SoundFiles /\ Apart
      /\ Running /\ os.dir.current # 0 /\ KnownDirs /\ KnownHere /\ Recovered(os) \in Version
  BY OpenFacts DEF KnownHere
<1>4. PICK e, f, who : e = db.apply.edit /\ f = Manifest(os.dir.current) /\ who = db.apply.who
  OBVIOUS
<1>5. os' = Sync(os, f) /\ db' = Installed(os', db)
  BY <1>2, <1>3, <1>4 DEF ApplySync, Running
<1>6. Calm("none")
  BY <1>1, <1>3, Budgeted DEF Calm
<1>7. left'.cuts = left.cuts /\ (Lossy' <=> Lossy)
  BY <1>6, Calmly
<1>8. f \in os.dir.files /\ f[1] = "manifest" /\ Edits(os.dir) \in Seq(Edit)
  BY <1>4, OpenDir, Names
<1>9. Synced(os, os', f)
  BY <1>3, <1>5, <1>8, Syncing
<1>10. Same
  BY <1>1, <1>3, <1>7, <1>8, <1>9, SyncedManifest
<1>11. /\ IsOS(os') /\ os'.dir = os.dir /\ os'.dirs = {os.dir} /\ os'.data[f] = os.data[f]
       /\ os'.synced[f] = Len(os.data[f])
       /\ \A g : g # f /\ Named(os'.dirs, g) => SameFile(os, os', g)
  BY <1>8, <1>9 DEF Synced
<1>12. \A g \in os.dir.files : g # f => os'.data[g] = os.data[g] /\ Kept(g)' = Kept(g)
  <2> SUFFICES ASSUME NEW g \in os.dir.files, g # f
               PROVE  os'.data[g] = os.data[g] /\ Kept(g)' = Kept(g)
    OBVIOUS
  <2>1. SameFile(os, os', g)
    BY <1>11 DEF Named
  <2> QED
    BY <1>7, <2>1 DEF SameFile, Kept
<1>13. Stay(f)
  BY <1>11, <1>12 DEF Stay
<1>14. /\ Recovered(os') = Recovered(os) /\ Reopened(os') = Reopened(os) /\ SoundFiles'
  BY <1>10 DEF Same
<1>15. /\ ~e.torn /\ e.next \in 1..db.next /\ Recovered(os).log = e.log
       /\ Recovered(os).tables = (db.tables \ e.del) \cup e.add
       /\ \A i \in 1..Len(Edits(os.dir)) : ~Edits(os.dir)[i].torn
       /\ (who = "flush" /\ FlushEdit) \/ (who = "merge" /\ MergeEdit)
       /\ \A n \in e.add : n < db.next /\ Whole(n) /\ Table(n) \in os.dir.files
  <2>1. os.dir \in Dirs
    BY <1>3 DEF KnownHere
  <2> QED
    BY <1>1, <1>2, <1>4, <2>1 DEF Applying
<1>16. e.log \in Nat /\ db.log \in Nat /\ db.log_number \in Nat
  <2>1. Recovered(os).log \in 0..Recovered(os).next - 1
    BY <1>3 DEF KnownHere, SoundVersion
  <2> QED
    BY <1>3, <1>15, <2>1 DEF Version, Process
<1>17. Installs(os', db, db')
  <2>1. os'.dir.files \subseteq File
    BY <1>11, TypedOS
  <2>2. PICK p : p = db'
    OBVIOUS
  <2>3. Installs(os', db, p)
    BY <1>3, <1>4, <1>5, <1>16, <2>1, <2>2, Installing
  <2> QED
    BY <2>2, <2>3
<1>18. /\ db' \in Process /\ db'.phase = "open" /\ db'.apply = NoApply
       /\ db'.tables = (db.tables \ e.del) \cup e.add /\ db'.log_number = e.log
       /\ db'.doomed = Obsolete(os', db')
       /\ db'.imm = (IF who = "flush" THEN {} ELSE db.imm)
       /\ db'.has_imm = (IF who = "flush" THEN FALSE ELSE db.has_imm)
       /\ db'.outputs = (IF who = "merge" THEN {} ELSE db.outputs)
       /\ db'.merge = (IF who = "merge" THEN NoMerge ELSE db.merge)
       /\ db'.mem = db.mem /\ db'.log = db.log /\ db'.next = db.next /\ db'.seq = db.seq
       /\ db'.manifest = db.manifest /\ db'.bg_error = db.bg_error /\ db'.pinned = db.pinned
       /\ db'.flush = db.flush
  BY <1>4, <1>17 DEF Installs
<1>19. \A n : Table(n) # f /\ Log(n) # f
  BY <1>4, Names
<1>20. /\ \A n : Table(n) \in os.dir.files => os'.data[Table(n)] = os.data[Table(n)]
       /\ \A n : Log(n) \in os.dir.files => os'.data[Log(n)] = os.data[Log(n)]
  BY <1>12, <1>19
<1>21. \A n \in InUse' : Table(n) \in os'.dir.files /\ n < db'.next /\ Len(os'.data[Table(n)]) = 1
  <2> SUFFICES ASSUME NEW n \in InUse'
               PROVE  Table(n) \in os'.dir.files /\ n < db'.next /\ Len(os'.data[Table(n)]) = 1
    OBVIOUS
  <2>1. n \in InUse \/ n \in e.add
    BY <1>18 DEF InUse
  <2>2. Table(n) \in os.dir.files /\ n < db.next /\ Len(os.data[Table(n)]) = 1
    BY <1>3, <1>15, <2>1 DEF Running, Whole
  <2> QED
    BY <1>11, <1>18, <1>20, <2>2
<1>22. Running'
  <2>1. TypeOK'
    <3>1. DOMAIN os'.data = DOMAIN os'.synced /\ os'.dir.files \subseteq DOMAIN os'.data
      BY <1>11, TypedOS
    <3>2. db.outputs = {db.flush, db.merge.out} \ {0}
      BY <1>3 DEF Running, TypeOK
    <3>3. db'.outputs = {db'.flush, db'.merge.out} \ {0}
      <4>1. CASE who = "flush"
        BY <1>18, <3>2, <4>1
      <4>2. CASE who = "merge"
        <5>1. db.flush = 0 /\ NoMerge.out = 0
          BY <1>15, <4>2 DEF MergeEdit, NoMerge
        <5> QED
          BY <1>18, <4>2, <5>1
      <4> QED
        BY <1>15, <4>1, <4>2
    <3> QED
      BY <1>18, <3>1, <3>3 DEF TypeOK
  <2>2. db'.merge.inputs \subseteq db'.tables
    <3>1. CASE who = "flush"
      <4>1. e.del = {} /\ db.merge.inputs \subseteq db.tables
        BY <1>3, <1>4, <1>15, <3>1 DEF FlushEdit, Running
      <4> QED
        BY <1>18, <3>1, <4>1
    <3>2. CASE who = "merge"
      BY <1>18, <3>2 DEF NoMerge
    <3> QED
      BY <1>15, <3>1, <3>2
  <2>3. \A n \in {db.flush, db.merge.out} : Empty(n) => /\ Table(n) \in os'.dir.files /\ n < db'.next
                                                        /\ os'.data[Table(n)] = <<>>
    BY <1>11, <1>18, <1>20 DEF Empty
  <2>4. db'.flush # 0 => Empty(db.flush)'
    BY <1>3, <1>18, <2>3 DEF Running, Empty
  <2>5. db'.merge # NoMerge => /\ db'.merge.out # 0 /\ db'.merge.out # db'.flush
                               /\ Table(db'.merge.out) \in os'.dir.files
                               /\ db'.merge.out < db'.next
                               /\ db'.apply.who # "merge" => Empty(db.merge.out)'
    <3> SUFFICES ASSUME db'.merge # NoMerge
                 PROVE  /\ db'.merge.out # 0 /\ db'.merge.out # db'.flush
                        /\ Table(db'.merge.out) \in os'.dir.files
                        /\ db'.merge.out < db'.next
                        /\ db'.apply.who # "merge" => Empty(db.merge.out)'
      OBVIOUS
    <3>1. who # "merge" /\ db'.merge = db.merge
      BY <1>18
    <3>2. /\ db.merge.out # 0 /\ db.merge.out # db.flush /\ Empty(db.merge.out)
      BY <1>3, <1>4, <3>1 DEF Running
    <3> QED
      BY <1>18, <2>3, <3>1, <3>2 DEF Empty
  <2>6. /\ Recovered(os').next <= db'.next /\ Recovered(os').log <= db'.log
        /\ os'.dir.current # 0 /\ db'.manifest = os'.dir.current /\ db'.seq <= issued'
        /\ Log(db'.log) \in os'.dir.files
        /\ \A n \in Numbers(os'.dir.files, "log") : n < db'.next
    BY <1>1, <1>3, <1>11, <1>14, <1>18 DEF Running
  <2>7. ~db'.bg_error /\ db'.doomed \cap Obsolete(os', db') = db'.doomed
    BY <1>2, <1>18
  <2> QED
    BY <1>18, <1>21, <2>1, <2>2, <2>4, <2>5, <2>6, <2>7 DEF Running
<1>23. Settled'
  <2>1. Edits(os.dir)' = Edits(os.dir)
    BY <1>4, <1>11 DEF Edits
  <2>2. Kept(Manifest(os.dir.current))' = Len(Edits(os.dir)')
    BY <1>4, <1>11 DEF Kept, Edits
  <2> QED
    BY <1>11, <1>14, <1>15, <1>18, <2>1, <2>2 DEF Settled
<1>24. Working
  BY <1>2
<1>25. InTables(os', db'.tables) \cup db'.imm = InTables(os, db.tables) \cup db.imm
  <2>0. \A n \in db.tables : TableData(os', n) = TableData(os, n)
    <3>1. \A n \in db.tables : Table(n) \in os.dir.files /\ Table(n) # f
      BY <1>3, <1>19 DEF Running, InUse
    <3> QED
      BY <1>13, <3>1, TablesStay
  <2>1. CASE who = "flush"
    <3>1. e.del = {} /\ FlushEdit
      BY <1>4, <1>15, <2>1 DEF FlushEdit
    <3>2. PICK n : e.add = {n} /\ os.data[Table(n)] = <<db.imm>>
      BY <1>4, <3>1 DEF FlushEdit
    <3>3. Table(n) \in os.dir.files
      BY <1>15, <3>2
    <3>4. os'.data[Table(n)] = <<db.imm>> /\ Table(n) \in os'.dir.files
      BY <1>11, <1>20, <3>2, <3>3
    <3>5. TableData(os', n) = db.imm
      BY <3>4 DEF TableData, TableOK
    <3>6. InTables(os', db'.tables) = InTables(os, db.tables) \cup db.imm
      BY <1>18, <2>0, <3>1, <3>2, <3>5 DEF InTables
    <3> QED
      BY <1>18, <2>1, <3>6
  <2>2. CASE who = "merge"
    <3>1. /\ e.add = {db.merge.out} /\ e.del = db.merge.inputs
          /\ DataOf(db.merge.out) = InTables(os, db.merge.inputs)
      BY <1>4, <1>15, <2>2 DEF MergeEdit
    <3>2. PICK n, inputs : n = db.merge.out /\ inputs = db.merge.inputs
      OBVIOUS
    <3>3. Table(n) \in os.dir.files /\ Len(os.data[Table(n)]) = 1
      BY <1>15, <3>1, <3>2 DEF Whole
    <3>4. os.data[Table(n)] # <<>>
      <4> SUFFICES ASSUME os.data[Table(n)] = <<>>
                   PROVE  FALSE
        OBVIOUS
      <4>1. Len(os.data[Table(n)]) = 0
        OBVIOUS
      <4> QED
        BY <3>3, <4>1
    <3>5. TableData(os', n) = InTables(os, inputs)
      BY <1>11, <1>20, <3>1, <3>2, <3>3, <3>4 DEF TableData, TableOK, DataOf
    <3>6. inputs \subseteq db.tables
      BY <1>3, <3>2 DEF Running
    <3>7. InTables(os', db'.tables) = InTables(os, db.tables)
      <4>1. \A x : x \in InTables(os', db'.tables) <=> \E m \in db'.tables : x \in TableData(os', m)
        BY InFiles
      <4>2. \A x : x \in InTables(os, db.tables) <=> \E m \in db.tables : x \in TableData(os, m)
        BY InFiles
      <4>3. \A x : x \in InTables(os, inputs) <=> \E m \in inputs : x \in TableData(os, m)
        BY InFiles
      <4>4. db'.tables = (db.tables \ inputs) \cup {n}
        BY <1>18, <3>1, <3>2
      <4>5. \A x : x \in InTables(os', db'.tables) <=> x \in InTables(os, db.tables)
        BY <2>0, <3>5, <3>6, <4>1, <4>2, <4>3, <4>4
      <4> QED
        BY <4>5
    <3> QED
      BY <1>18, <2>2, <3>7
  <2> QED
    BY <1>15, <2>1, <2>2
<1>26. Working'
  <2>1. Memory' = Memory
    BY <1>18, <1>25 DEF Memory
  <2>2. Memory' = Reopened(os') /\ \A r \in Memory' : r.seq <= db'.seq
    BY <1>14, <1>18, <1>24, <2>1 DEF Working
  <2>3. /\ \A n \in Numbers(os.dir.files, "log") : n >= db.log_number => n \in {db.log_number, db.log}
        /\ ToSet(os.data[Log(db.log)]) = db.mem
        /\ IF db.has_imm
           THEN /\ db.log_number < db.log /\ Log(db.log_number) \in os.dir.files
                /\ ToSet(os.data[Log(db.log_number)]) = db.imm
           ELSE db.log_number = db.log /\ db.imm = {} /\ db.flush = 0
    BY <1>24 DEF Working
  <2>4. ToSet(os'.data[Log(db'.log)]) = db'.mem
    <3>1. Log(db.log) \in os.dir.files
      BY <1>3 DEF Running
    <3> QED
      BY <1>18, <1>20, <2>3, <3>1
  <2>5. CASE who = "flush"
    <3>1. /\ db.has_imm /\ e.log = db.log /\ db.flush = 0
      BY <1>4, <1>15, <2>5 DEF FlushEdit
    <3>2. ~db'.has_imm /\ db'.imm = {} /\ db'.log_number = db'.log /\ db'.flush = 0
      BY <1>18, <2>5, <3>1
    <3>3. \A n \in Numbers(os'.dir.files, "log") :
             n >= db'.log_number => n \in {db'.log_number, db'.log}
      <4> SUFFICES ASSUME NEW n \in Numbers(os.dir.files, "log"), n >= db.log
                   PROVE  n = db.log
        BY <1>11, <1>18, <3>1
      <4>1. n \in Nat
        BY LogNumbers, OpenDir
      <4> QED
        BY <1>16, <2>3, <3>1, <4>1
    <3> QED
      BY <1>18, <1>23, <2>2, <2>4, <3>2, <3>3 DEF Working
  <2>6. CASE who = "merge"
    <3>1. e.log = db.log_number
      BY <1>1, <1>4, <1>15, <2>6 DEF MergeEdit
    <3>2. db'.has_imm = db.has_imm /\ db'.imm = db.imm /\ db'.log_number = db.log_number
      BY <1>18, <2>6, <3>1
    <3>3. db.has_imm => os'.data[Log(db.log_number)] = os.data[Log(db.log_number)]
      BY <1>20, <2>3
    <3>4. /\ os'.dir.files = os.dir.files /\ db'.log = db.log /\ db'.flush = db.flush
          /\ Log(db'.log_number) = Log(db.log_number)
      BY <1>11, <1>18, <3>2
    <3>5. \A n \in Numbers(os'.dir.files, "log") :
             n >= db'.log_number => n \in {db'.log_number, db'.log}
      BY <2>3, <3>2, <3>4
    <3>6. IF db'.has_imm
          THEN /\ db'.log_number < db'.log /\ Log(db'.log_number) \in os'.dir.files
               /\ ToSet(os'.data[Log(db'.log_number)]) = db'.imm
          ELSE db'.log_number = db'.log /\ db'.imm = {} /\ db'.flush = 0
      BY <2>3, <3>2, <3>3, <3>4
    <3> QED
      BY <1>18, <1>23, <2>2, <2>4, <3>5, <3>6 DEF Working
  <2> QED
    BY <1>15, <2>5, <2>6
<1>27. PhaseInv'
  BY <1>18, <1>22, <1>26 DEF PhaseInv
<1>28. Apart'
  <2>1. CASE who = "flush"
    <3>1. db.has_imm
      BY <1>15, <2>1 DEF FlushEdit
    <3> QED
      BY <1>1, <1>3, <1>18, <2>1, <3>1 DEF Apart
  <2>2. CASE who = "merge"
    BY <1>1, <1>3, <1>18, <2>2 DEF Apart
  <2> QED
    BY <1>15, <2>1, <2>2
<1>29. Counted'
  BY <1>3, <1>6, <1>14, StillCounted
<1> QED
  BY <1>11, <1>14, <1>18, <1>27, <1>28, <1>29 DEF Fine, DBInv

\* A record that is torn says nothing.
Unsaid(f) ==
    /\ IsOS(os') /\ SoundFiles' /\ os'.dir = os.dir /\ Recovered(os') = Recovered(os)
    /\ Reopened(os') = Reopened(os)
    /\ \A g \in os.dir.files : g # f => os'.data[g] = os.data[g]

LEMMA Tearing ==
    ASSUME DBInv, db.phase = "open", db.apply.step = "append", NEW what, Calm(what),
           NEW f, f = Manifest(os.dir.current), NEW e \in Edit, e.torn, os' = AddRecord(os, f, e)
    PROVE  Unsaid(f)
<1>1. /\ Settled /\ \A d \in Dirs : d.current = os.dir.current
      /\ \A d \in Dirs : SoundVersion(d, Recovered(os))
  BY Submitted
<1>2. /\ IsOS(os) /\ SoundFiles /\ os.dir.current # 0 /\ KnownHere /\ Recovered(os) \in Version
      /\ os.dir \in Dirs
  BY OpenFacts DEF KnownHere
<1>3. PICK w : w = Later(Recovered(os), e)
  OBVIOUS
<1>4. w = Recovered(os)
  BY <1>3 DEF Later
<1>5. Fulfils(w)
  <2>1. SoundVersion(os.dir, w)
    BY <1>1, <1>2, <1>4
  <2>2. \A d \in Dirs : HasTables(d, w) /\ \A id \in acked : Keeps(d, w, id)
    BY <1>1, <1>4 DEF SoundVersion
  <2>3. Holds(os.dir, w) = Reopened(os)
    BY <1>2, <1>4 DEF KnownHere
  <2>4. /\ w.log \in 0..w.next - 1 /\ w.seq <= issued /\ w.next \in Nat /\ w.log \in Int
    BY <1>2, <1>4, <2>1 DEF SoundVersion, Version
  <2>5. Recovered(os).next <= w.next /\ Recovered(os).log <= w.log
    BY <1>4, <2>4
  <2> QED
    BY <2>2, <2>3, <2>4, <2>5 DEF Fulfils
<1>6. left'.cuts = left.cuts /\ issued' = issued /\ acked' = acked
  BY Calmly DEF Calm
<1>7. /\ IsOS(os') /\ os'.dir = os.dir
      /\ SoundFiles' /\ Recovered(os') = w /\ Reopened(os') = Reopened(os)
      /\ \A g \in os.dir.files : g # f => SameFile(os, os', g)
  <2>1. /\ \A i \in 1..Len(Edits(os.dir)) : ~Edits(os.dir)[i].torn
        /\ Kept(Manifest(os.dir.current)) = Len(Edits(os.dir))
    BY <1>1 DEF Settled
  <2> QED
    BY <1>1, <1>2, <1>3, <1>4, <1>5, <1>6, <2>1, AppliedEdit
<1> QED
  BY <1>4, <1>7 DEF Unsaid, SameFile

\* What the callers leave behind.
LEMMA GivingUp ==
    ASSUME db \in Process, NEW who, who = db.apply.who, db' = GivenUp, db.doomed = {}
    PROVE  /\ db' \in Process /\ db'.apply = NoApply /\ db'.bg_error /\ db'.doomed = {}
           /\ db'.outputs = (IF who = "merge" THEN {} ELSE db.outputs)
           /\ db'.merge = (IF who = "merge" THEN NoMerge ELSE db.merge)
           /\ db'.phase = db.phase /\ db'.log = db.log /\ db'.tables = db.tables
           /\ db'.next = db.next /\ db'.seq = db.seq /\ db'.manifest = db.manifest
           /\ db'.pinned = db.pinned /\ db'.flush = db.flush /\ db'.has_imm = db.has_imm
<1>1. PICK d, e, none, no : /\ none = NoApply /\ no = NoMerge
                            /\ d = [db EXCEPT !.apply = none, !.bg_error = TRUE]
                            /\ e = [d EXCEPT !.outputs = {}, !.merge = no]
  OBVIOUS
<1>2. /\ none \in [who : {"none", "open", "flush", "merge"},
                   step : {"none", "append", "sync", "current"}, edit : Edit, new : BOOLEAN]
      /\ no \in [inputs : SUBSET Nat, out : Nat]
  BY <1>1, ConstantsAreTyped
<1>3. d \in Process
  BY <1>1, <1>2 DEF Process
<1>4. d.doomed = {} /\ d.apply = none /\ d.bg_error /\ d.outputs = db.outputs /\ d.merge = db.merge
      /\ d.phase = db.phase /\ d.log = db.log /\ d.tables = db.tables
      /\ d.next = db.next /\ d.seq = db.seq /\ d.manifest = db.manifest
      /\ d.pinned = db.pinned /\ d.flush = db.flush /\ d.has_imm = db.has_imm
  BY <1>1 DEF Process
<1>5. CASE who # "merge"
  <2>1. db' = d
    BY <1>1, <1>5 DEF GivenUp
  <2> QED
    BY <1>1, <1>3, <1>4, <1>5, <2>1
<1>6. CASE who = "merge"
  <2>1. e \in Process
    <3>1. PICK outs \in SUBSET Nat : outs = {}
      OBVIOUS
    <3>2. e = [d EXCEPT !.outputs = outs, !.merge = no]
      BY <1>1, <3>1
    <3>3. no \in [inputs : SUBSET Nat, out : Nat]
      BY <1>2
    <3> QED
      BY <1>3, <3>2, <3>3 DEF Process
  <2>2. e.bg_error /\ e.doomed = {}
    BY <1>1, <1>3, <1>4 DEF Process
  <2>3. Obsolete(os, e) = {}
    BY <2>2 DEF Obsolete
  <2>4. db' = [e EXCEPT !.doomed = {}]
    BY <1>1, <1>6, <2>3 DEF GivenUp
  <2>5. db' = e
    BY <2>1, <2>2, <2>4 DEF Process
  <2>6. e.apply = none /\ e.outputs = {} /\ e.merge = no
      /\ e.phase = db.phase /\ e.log = db.log /\ e.tables = db.tables
      /\ e.next = db.next /\ e.seq = db.seq /\ e.manifest = db.manifest
      /\ e.pinned = db.pinned /\ e.flush = db.flush /\ e.has_imm = db.has_imm
    BY <1>1, <1>3, <1>4 DEF Process
  <2> QED
    BY <1>1, <1>6, <2>1, <2>2, <2>5, <2>6
<1> QED
  BY <1>5, <1>6

LEMMA GivesUpEdit ==
    ASSUME DBInv, ApplyFails, db.phase = "open"
    PROVE  Fine
<1>0. db.apply # NoApply /\ Spend("failures") /\ issued' = issued /\ acked' = acked
  BY DEF ApplyFails
<1>1. /\ db.apply.step \in {"append", "sync"} /\ Spend("failures")
      /\ issued' = issued /\ acked' = acked
  <2>1. Applying
    BY <1>0, OpenFacts DEF Running
  <2> QED
    BY <1>0, <2>1 DEF Applying
<1>2. /\ Applying /\ Working /\ ~db.bg_error /\ ~db.apply.new /\ db.doomed = {}
  BY <1>1, Submitted
<1>3. /\ IsOS(os) /\ db \in Process /\ Counted /\ SoundFiles /\ Apart
      /\ Running /\ os.dir.current # 0 /\ KnownDirs /\ KnownHere
  BY OpenFacts
<1>4. PICK f, e, who : /\ f = Manifest(os.dir.current) /\ who = db.apply.who
                       /\ e = [NoEdit EXCEPT !.torn = TRUE]
  OBVIOUS
<1>5. /\ db' = GivenUp
      /\ os' = os \/ (db.apply.step = "append" /\ os' = AddRecord(os, f, e))
  BY <1>2, <1>3, <1>4 DEF ApplyFails, Running
<1>6. Calm("failures")
  BY <1>1, <1>3, Budgeted DEF Calm, Occasions
<1>7. Unsaid(f)
  <2>1. CASE os' = os
    BY <1>3, <1>6, <2>1, Unmoved DEF Unsaid
  <2>2. CASE db.apply.step = "append" /\ os' = AddRecord(os, f, e)
    <3>1. e \in Edit /\ e.torn
      BY <1>4, ConstantsAreTyped DEF Edit
    <3> QED
      BY <1>4, <1>6, <2>2, <3>1, Tearing
  <2> QED
    BY <1>5, <2>1, <2>2
<1>8. /\ IsOS(os') /\ SoundFiles' /\ os'.dir = os.dir /\ Recovered(os') = Recovered(os)
      /\ Reopened(os') = Reopened(os)
      /\ \A n : Table(n) \in os.dir.files => os'.data[Table(n)] = os.data[Table(n)]
  BY <1>4, <1>7, Names DEF Unsaid
<1>9. /\ db' \in Process /\ db'.apply = NoApply /\ db'.bg_error /\ db'.doomed = {}
      /\ db'.outputs = (IF who = "merge" THEN {} ELSE db.outputs)
      /\ db'.merge = (IF who = "merge" THEN NoMerge ELSE db.merge)
      /\ db'.phase = "open" /\ db'.log = db.log /\ db'.tables = db.tables
      /\ db'.next = db.next /\ db'.seq = db.seq /\ db'.manifest = db.manifest
      /\ db'.pinned = db.pinned /\ db'.flush = db.flush /\ db'.has_imm = db.has_imm
  BY <1>2, <1>3, <1>4, <1>5, GivingUp
<1>10. left.failures > 0 /\ left' \in [Occasions -> Nat]
  BY <1>1, <1>6 DEF Spend, Calm, Spends
<1>11. db'.merge = NoMerge /\ db.flush = 0
  <2>1. (who = "flush" /\ FlushEdit) \/ (who = "merge" /\ MergeEdit)
    BY <1>2, <1>4 DEF Applying
  <2>2. CASE who = "flush"
    <3>1. db.has_imm /\ db.flush = 0
      BY <2>1, <2>2 DEF FlushEdit
    <3>2. db.merge = NoMerge
      BY <1>3, <1>10, <3>1 DEF Apart
    <3> QED
      BY <1>9, <2>2, <3>1, <3>2
  <2>3. CASE who = "merge"
    BY <1>9, <2>1, <2>3 DEF MergeEdit
  <2> QED
    BY <2>1, <2>2, <2>3
<1>12. InUse' = InUse
  BY <1>9 DEF InUse
<1>13. Running'
  <2>1. TypeOK'
    <3>1. DOMAIN os'.data = DOMAIN os'.synced /\ os'.dir.files \subseteq DOMAIN os'.data
      BY <1>8, TypedOS
    <3>2. db'.outputs = {} /\ NoMerge.out = 0
      <4>1. db.outputs = {db.flush, db.merge.out} \ {0} /\ NoMerge.out = 0
        BY <1>3 DEF Running, TypeOK, NoMerge
      <4>2. CASE who = "merge"
        BY <1>9, <4>1, <4>2
      <4>3. CASE who # "merge"
        BY <1>9, <1>11, <4>1, <4>3
      <4> QED
        BY <4>2, <4>3
    <3> QED
      BY <1>9, <1>11, <3>1, <3>2 DEF TypeOK
  <2>2. \A n \in InUse' : Table(n) \in os'.dir.files /\ n < db'.next /\ Len(os'.data[Table(n)]) = 1
    BY <1>3, <1>8, <1>9, <1>12 DEF Running
  <2>3. /\ Recovered(os').next <= db'.next /\ Recovered(os').log <= db'.log
        /\ os'.dir.current # 0 /\ db'.manifest = os'.dir.current /\ db'.seq <= issued'
        /\ Log(db'.log) \in os'.dir.files
        /\ \A n \in Numbers(os'.dir.files, "log") : n < db'.next
    BY <1>1, <1>3, <1>8, <1>9 DEF Running
  <2>4. db'.merge.inputs \subseteq db'.tables
    BY <1>11 DEF NoMerge
  <2> QED
    BY <1>9, <1>11, <2>1, <2>2, <2>3, <2>4 DEF Running
<1>14. PhaseInv'
  BY <1>9, <1>13 DEF PhaseInv
<1>15. Apart'
  <2>1. /\ left'.switches <= left.switches /\ left'.merges <= left.merges
        /\ left.switches \in Nat /\ left.merges \in Nat
        /\ left'.switches \in Nat /\ left'.merges \in Nat
    BY <1>3, <1>6 DEF Calm, Spends, Occasions, Counted
  <2> QED
    BY <1>3, <1>9, <1>10, <1>11, <2>1 DEF Apart
<1>16. Counted'
  BY <1>3, <1>6, <1>8, StillCounted
<1> QED
  BY <1>8, <1>9, <1>14, <1>15, <1>16 DEF Fine, DBInv

-----------------------------------------------------------------------------
(* All steps.                                                              *)

\* No run of the database has a failing record of the MANIFEST, a filled memtable
\* and a compaction of tables.
NotTogether == \A b \in Budgets : b.failures = 0 \/ b.switches = 0 \/ b.merges = 0

LEMMA FirstRecordIsSound ==
    ASSUME IsOS(os), os.dir = Created, os.dirs = {os.dir}, issued = 0, acked = {},
           os.data[Manifest(1)] = <<FirstEdit>>, os.synced[Manifest(1)] = 1
    PROVE  SoundFiles /\ Reopened(os) = {}
<1>1. PICK d, s, w : d = os.dir /\ s = <<FirstEdit>>
                     /\ w = [tables |-> {}, log |-> 0, next |-> 2, seq |-> 0]
  OBVIOUS
<1>2. d.files = {Manifest(1)} /\ d.current = 1 /\ Dirs = {d}
  BY <1>1 DEF Created, Dirs
<1>3. s \in Seq(Edit) /\ Len(s) = 1 /\ Versions(s)[1] = w
  BY <1>1, FirstVersion
<1>4. Numbers(d.files, "log") = {}
  <2>1. d.files \in SUBSET File /\ \A n : Log(n) \notin d.files
    BY <1>1, <1>2, TypedOS, Names
  <2> QED
    BY <2>1, LogNumbers
<1>5. Edits(d) = s /\ Kept(Manifest(d.current)) = 1
  BY <1>1, <1>2, <1>3 DEF Edits, Kept
<1>6. Records(os) = s /\ Recovered(os) = w
  BY <1>1, <1>2, <1>3 DEF Records, Recovered
<1>7. Reopened(os) = {}
  <2>1. LiveLogs(os) = {}
    BY <1>1, <1>4 DEF LiveLogs
  <2>2. InTables(os, w.tables) = {} /\ InLogs(os, {}) = {}
    BY <1>1 DEF InTables, InLogs
  <2> QED
    BY <1>6, <2>1, <2>2 DEF Reopened
<1>8. SoundVersion(d, w)
  <2>1. HasTables(d, w)
    BY <1>1 DEF HasTables
  <2>2. Finds(d, w)
    BY <1>1, <1>4 DEF Finds, LogsOf
  <2>3. /\ d.current < w.next /\ w.log \in 0..w.next - 1 /\ w.seq <= issued
        /\ w.next <= w.next /\ w.log <= w.log
    BY <1>1, <1>2
  <2> QED
    BY <1>6, <2>1, <2>2, <2>3 DEF SoundVersion
<1>9. SoundDir(d)
  <2>1. Cuts(d) = {1}
    BY <1>3, <1>5 DEF Cuts
  <2>2. At(d, 1) = w
    BY <1>3, <1>5 DEF At
  <2>3. \A i \in 1..Len(s) - 1 : ~s[i].torn
    BY <1>3
  <2>4. \A k \in Cuts(d) : SoundVersion(d, At(d, k))
    BY <1>8, <2>1, <2>2
  <2>5. \A i \in 1..Len(Edits(d)) - 1 : ~Edits(d)[i].torn
    BY <1>5, <2>3
  <2>6. d.current # 0 /\ Manifest(d.current) \in d.files
    BY <1>2
  <2> QED
    BY <1>4, <2>4, <2>5, <2>6 DEF SoundDir
<1> QED
  BY <1>1, <1>2, <1>7, <1>9 DEF SoundFiles

LEMMA FirstFiles ==
    ASSUME Init
    PROVE  /\ IsOS(os) /\ os.dirs = {os.dir} /\ os.dir \in {EmptyDir, Created}
           /\ \A f \in os.dir.files : os.data[f] = <<FirstEdit>> /\ os.synced[f] = 1
<1>1. PICK d \in {EmptyDir, Created} :
         os = [dir |-> d, dirs |-> {d}, data |-> [f \in d.files |-> <<FirstEdit>>],
               synced |-> [f \in d.files |-> 1]]
  BY DEF Init, FirstEdit
<1>2. d \in Dir /\ d.files \subseteq {Manifest(1)} /\ Manifest(1) \in File
  <2>1. Manifest(1) \in File
    BY Names DEF Manifest, File
  <2> QED
    BY <2>1 DEF EmptyDir, Created, Dir
<1>3. PICK s : s = <<FirstEdit>>
  OBVIOUS
<1>4. s \in Seq(Edit) /\ Len(s) = 1
  BY <1>3, FirstVersion
<1>5. /\ os.dir = d /\ os.dirs = {d} /\ DOMAIN os.data = d.files
      /\ os.data = [f \in d.files |-> s] /\ os.synced = [f \in d.files |-> 1]
      /\ os = [dir |-> os.dir, dirs |-> os.dirs, data |-> os.data, synced |-> os.synced]
  BY <1>1, <1>3
<1>6. \A f \in d.files : os.data[f] = s /\ os.synced[f] = 1 /\ f[1] = "manifest"
  BY <1>2, <1>5 DEF Manifest
<1>7. IsOS(os)
  <2>1. os.data = [f \in DOMAIN os.data |-> os.data[f]]
    BY <1>5
  <2>2. os.synced = [f \in DOMAIN os.data |-> os.synced[f]]
    BY <1>5
  <2>3. \A f \in DOMAIN os.data :
          /\ os.synced[f] \in 0..Len(os.data[f])
          /\ f[1] = "log" => os.data[f] \in Seq(Update)
          /\ f[1] = "table" => os.data[f] \in Seq(SUBSET Update)
          /\ f[1] = "manifest" => os.data[f] \in Seq(Edit)
    BY <1>4, <1>5, <1>6
  <2>4. DOMAIN os.data \subseteq File /\ \A c \in os.dirs : c.files \subseteq DOMAIN os.data
    BY <1>2, <1>5
  <2> QED
    BY <1>2, <1>5, <2>1, <2>2, <2>3, <2>4 DEF IsOS
<1> QED
  BY <1>3, <1>5, <1>6, <1>7

LEMMA InitIsFine ==
    ASSUME Init, NotTogether
    PROVE  DBInv /\ Creation
<1>1. /\ IsOS(os) /\ os.dirs = {os.dir} /\ os.dir \in {EmptyDir, Created}
      /\ \A f \in os.dir.files : os.data[f] = <<FirstEdit>> /\ os.synced[f] = 1
  BY FirstFiles
<1>2. db = Down /\ issued = 0 /\ acked = {} /\ left \in Budgets
  BY DEF Init
<1>3. left \in [Occasions -> 0..MaxWrites] /\ MaxWrites \in Nat
  BY <1>2, FilesAssumption
<1>4. left \in [Occasions -> Nat] /\ left.writes <= MaxWrites /\ left.cuts \in Nat
  BY <1>3 DEF Occasions
<1>5. SoundFiles /\ Reopened(os) = {}
  <2>1. CASE os.dir = Created
    <3>1. Manifest(1) \in os.dir.files
      BY <2>1 DEF Created
    <3> QED
      BY <1>1, <1>2, <2>1, <3>1, FirstRecordIsSound
  <2>2. CASE os.dir = EmptyDir
    <3>1. os.dir.current = 0 /\ os.dir.files = {} /\ EmptyDir # Created
      BY <2>2 DEF EmptyDir, Created
    <3> QED
      BY <1>1, <1>2, <3>1 DEF SoundFiles, Reopened
  <2> QED
    BY <1>1, <2>1, <2>2
<1>6. Counted
  <2>1. left.writes \in Nat /\ issued + left.writes <= MaxWrites
    BY <1>2, <1>4 DEF Occasions
  <2> QED
    BY <1>2, <1>4, <1>5, <2>1 DEF Counted
<1>7. /\ Down.phase = "down" /\ ~Down.bg_error /\ ~Down.has_imm /\ Down.flush = 0
      /\ Down.merge = NoMerge
  BY DEF Down
<1>8. PhaseInv
  BY <1>2, <1>7 DEF PhaseInv
<1>9. Apart
  BY <1>2, <1>7 DEF NotTogether, Apart
<1>10. Creation
  <2>1. Down.manifest = 0
    BY DEF Down
  <2>2. PICK s : s = <<FirstEdit>>
    OBVIOUS
  <2>3. Len(s) = 1
    BY <2>2, FirstVersion
  <2>4. \A f \in os.dir.files : Len(os.data[f]) = 1 /\ os.synced[f] = 1
    BY <1>1, <2>2, <2>3
  <2>6. os.dir.current = 0 => os.dir.files = {}
    BY <1>1 DEF EmptyDir, Created
  <2>7. db.manifest # 1 /\ acked = {}
    BY <1>2, <2>1
  <2>8. \A d \in os.dirs : d = os.dir
    BY <1>1
  <2>9. Manifest(1) \in os.dir.files => Len(os.data[Manifest(1)]) <= 1
    <3>1. 1 <= 1
      OBVIOUS
    <3> QED
      BY <2>4, <3>1, Zenon
  <2> QED
    BY <2>6, <2>7, <2>8, <2>9 DEF Creation
<1> QED
  BY <1>1, <1>2, <1>5, <1>6, <1>8, <1>9, <1>10, DownIsProcess DEF DBInv

\* A LogAndApply under way is that of Open or that of an open database.
LEMMA WhoApplies ==
    ASSUME DBInv, db.apply # NoApply
    PROVE  db.phase \in {"opening", "open"} /\ (db.apply.step = "current" => db.phase = "opening")
<1>1. PhaseInv
  BY DEF DBInv
<1>2. Down.apply = NoApply
  BY DEF Down
<1>3. db.phase \notin {"down", "newdb", "recover"}
  <2> SUFFICES ASSUME db.phase \in {"down", "newdb", "recover"}
               PROVE  FALSE
    OBVIOUS
  <2>1. \E p : db = [Down EXCEPT !.phase = p] \/ db = Down
    BY <1>1 DEF PhaseInv
  <2>2. db.apply = NoApply
    BY <1>2, <2>1 DEF Down
  <2> QED
    BY <1>2, <2>2
<1>4. db.phase # "replay"
  BY <1>1, <1>2 DEF PhaseInv, Replaying
<1>5. db.phase \in {"opening", "open"}
  BY <1>1, <1>3, <1>4 DEF PhaseInv
<1>6. db.phase = "open" => db.apply.step \in {"append", "sync"}
  BY <1>1, <1>2 DEF PhaseInv, Running, Applying
<1> QED
  BY <1>5, <1>6

LEMMA ApplyIsFine ==
    ASSUME DBInv, ApplyAppend \/ ApplySync \/ ApplyCurrent \/ ApplyFails
    PROVE  Fine
<1>1. CASE ApplyAppend
  <2>1. db.apply.step = "append" /\ db.apply # NoApply
    BY <1>1 DEF ApplyAppend, NoApply
  <2> QED
    BY <1>1, <2>1, WhoApplies, AppendsNewManifest, AppendsEdit
<1>2. CASE ApplySync
  <2>1. db.apply.step = "sync" /\ db.apply # NoApply
    BY <1>2 DEF ApplySync, NoApply
  <2> QED
    BY <1>2, <2>1, WhoApplies, SyncsNewManifest, SyncsEdit
<1>3. CASE ApplyCurrent
  <2>1. db.apply.step = "current" /\ db.apply # NoApply
    BY <1>3 DEF ApplyCurrent, NoApply
  <2> QED
    BY <1>3, <2>1, WhoApplies, ApplyCurrentIsFine
<1>4. CASE ApplyFails
  <2>1. db.apply # NoApply
    BY <1>4 DEF ApplyFails
  <2> QED
    BY <1>4, <2>1, WhoApplies, GivesUpOpening, GivesUpEdit
<1> QED
  BY <1>1, <1>2, <1>3, <1>4

-----------------------------------------------------------------------------
(* The creation of the database, which no step but a power cut can undo.   *)
(* What the steps say of the first MANIFEST does not depend on the types   *)
(* of the records they write.                                              *)

Shaped(o) ==
    /\ o = [dir |-> o.dir, dirs |-> o.dirs, data |-> o.data, synced |-> o.synced]
    /\ o.data = [f \in DOMAIN o.data |-> o.data[f]]
    /\ o.synced = [f \in DOMAIN o.data |-> o.synced[f]]
    /\ o.dir = [files |-> o.dir.files, current |-> o.dir.current]
    /\ o.dir \in o.dirs /\ o.dir.current # 0
    /\ Named(o.dirs, Manifest(1)) => Manifest(1) \in DOMAIN o.data

\* A directory that names the first MANIFEST, or points to it, only if one did.
Derived(d, dirs) ==
    \/ d \in dirs
    \/ /\ d.current # 0
       /\ Manifest(1) \in d.files =>
             \E e \in dirs : Manifest(1) \in e.files /\ (d.current = 1 => e.current = 1)

Descends(o, p) ==
    /\ Shaped(p) /\ \A d \in p.dirs : Derived(d, o.dirs)
    /\ Named(p.dirs, Manifest(1)) => SameFile(o, p, Manifest(1))

LEMMA DescendsOn ==
    ASSUME NEW o, NEW p, NEW q, Descends(o, p), Descends(p, q)
    PROVE  Descends(o, q)
<1>1. \A d \in q.dirs : Derived(d, o.dirs)
  <2> SUFFICES ASSUME NEW d \in q.dirs
               PROVE  Derived(d, o.dirs)
    OBVIOUS
  <2>1. Derived(d, p.dirs) /\ \A e \in p.dirs : Derived(e, o.dirs)
    BY DEF Descends
  <2>2. CASE d \in p.dirs
    BY <2>1, <2>2
  <2>3. CASE d \notin p.dirs /\ Manifest(1) \notin d.files
    BY <2>1, <2>3 DEF Derived
  <2>4. CASE d \notin p.dirs /\ Manifest(1) \in d.files
    <3>1. d.current # 0
      BY <2>1, <2>4 DEF Derived
    <3>2. PICK e \in p.dirs : Manifest(1) \in e.files /\ (d.current = 1 => e.current = 1)
      BY <2>1, <2>4 DEF Derived
    <3>3. CASE e \in o.dirs
      BY <3>1, <3>2, <3>3 DEF Derived
    <3>4. CASE e \notin o.dirs
      <4>1. PICK c \in o.dirs : Manifest(1) \in c.files /\ (e.current = 1 => c.current = 1)
        BY <2>1, <3>2, <3>4 DEF Derived
      <4> QED
        BY <3>1, <3>2, <4>1 DEF Derived
    <3> QED
      BY <3>3, <3>4
  <2> QED
    BY <2>2, <2>3, <2>4
<1>2. Named(q.dirs, Manifest(1)) => Named(p.dirs, Manifest(1))
  <2> SUFFICES ASSUME NEW d \in q.dirs, Manifest(1) \in d.files
               PROVE  Named(p.dirs, Manifest(1))
    BY DEF Named
  <2>1. Derived(d, p.dirs)
    BY DEF Descends
  <2> QED
    BY <2>1 DEF Derived, Named
<1> QED
  BY <1>1, <1>2 DEF Descends, SameFile

LEMMA PruneDescends ==
    ASSUME NEW o, Shaped(o), NEW q,
           q = [dir |-> q.dir, dirs |-> q.dirs, data |-> o.data, synced |-> o.synced],
           q.dir = [files |-> q.dir.files, current |-> q.dir.current],
           q.dir \in q.dirs, q.dir.current # 0, \A e \in q.dirs : Derived(e, o.dirs)
    PROVE  Descends(o, Prune(q))
<1> DEFINE kept == UNION {d.files : d \in q.dirs}
           data == [f \in DOMAIN o.data \cap kept |-> o.data[f]]
           synced == [f \in DOMAIN o.data \cap kept |-> o.synced[f]]
<1>1. DOMAIN o.synced = DOMAIN o.data
  BY DEF Shaped
<1>2. Prune(q) = [dir |-> q.dir, dirs |-> q.dirs, data |-> data, synced |-> synced]
  <2>1. q.data = o.data /\ q.synced = o.synced
    OBVIOUS
  <2>2. Prune(q) = [[q EXCEPT !.data = data] EXCEPT !.synced = synced]
    BY <1>1, <2>1 DEF Prune
  <2> HIDE DEF data, synced
  <2> QED
    BY <2>2
<1>3. \A f : Named(q.dirs, f) <=> f \in kept
  BY DEF Named
<1>4. Named(q.dirs, Manifest(1)) => Manifest(1) \in DOMAIN o.data
  <2> SUFFICES ASSUME NEW d \in q.dirs, Manifest(1) \in d.files
               PROVE  Manifest(1) \in DOMAIN o.data
    BY DEF Named
  <2>1. Named(o.dirs, Manifest(1))
    BY DEF Derived, Named
  <2> QED
    BY <2>1 DEF Shaped
<1> HIDE DEF kept
<1>5. /\ DOMAIN data = DOMAIN o.data \cap kept
      /\ \A f \in DOMAIN data : data[f] = o.data[f] /\ synced[f] = o.synced[f]
      /\ data = [f \in DOMAIN data |-> data[f]] /\ synced = [f \in DOMAIN data |-> synced[f]]
  OBVIOUS
<1> HIDE DEF data, synced
<1>6. /\ Prune(q).dir = q.dir /\ Prune(q).dirs = q.dirs
      /\ Prune(q).data = data /\ Prune(q).synced = synced
  BY <1>2
<1>7. Named(q.dirs, Manifest(1)) => /\ Manifest(1) \in DOMAIN data
                                    /\ SameFile(o, Prune(q), Manifest(1))
  BY <1>3, <1>4, <1>5, <1>6 DEF SameFile
<1>8. Shaped(Prune(q))
  BY <1>2, <1>5, <1>6, <1>7 DEF Shaped
<1> QED
  BY <1>6, <1>7, <1>8 DEF Descends

\* The directory changes.
LEMMA BecomeDescends ==
    ASSUME NEW o, Shaped(o), NEW d, Derived(d, o.dirs), d.current # 0,
           d = [files |-> d.files, current |-> d.current]
    PROVE  Descends(o, Become(o, d))
<1>0. PICK dirs : dirs = o.dirs \cup {d}
  OBVIOUS
<1>2. PICK q : q = [o EXCEPT !.dir = d, !.dirs = dirs]
  OBVIOUS
<1>1. q = [dir |-> d, dirs |-> dirs, data |-> o.data, synced |-> o.synced]
  <2>1. o = [dir |-> o.dir, dirs |-> o.dirs, data |-> o.data, synced |-> o.synced]
    BY DEF Shaped
  <2> QED
    BY <1>2, <2>1
<1>3. \A e \in q.dirs : Derived(e, o.dirs)
  BY <1>0, <1>1 DEF Derived
<1>4. Descends(o, Prune(q))
  BY <1>0, <1>1, <1>3, PruneDescends
<1> QED
  BY <1>0, <1>2, <1>4 DEF Become

\* What files hold changes, but not the first MANIFEST.
LEMMA DataDescends ==
    ASSUME NEW o, Shaped(o), NEW data, NEW synced, DOMAIN o.data \subseteq DOMAIN data,
           data = [f \in DOMAIN data |-> data[f]], synced = [f \in DOMAIN data |-> synced[f]],
           Manifest(1) \in DOMAIN o.data =>
              data[Manifest(1)] = o.data[Manifest(1)] /\ synced[Manifest(1)] = o.synced[Manifest(1)],
           NEW p, p = [dir |-> o.dir, dirs |-> o.dirs, data |-> data, synced |-> synced]
    PROVE  Descends(o, p)
<1>1. p.dir = o.dir /\ p.dirs = o.dirs /\ p.data = data /\ p.synced = synced
  OBVIOUS
<1>2. \A d \in p.dirs : Derived(d, o.dirs)
  BY <1>1 DEF Derived
<1>3. Named(p.dirs, Manifest(1)) => Manifest(1) \in DOMAIN o.data
  BY <1>1 DEF Shaped
<1>4. Shaped(p)
  BY <1>1, <1>3 DEF Shaped
<1> QED
  BY <1>1, <1>2, <1>3, <1>4 DEF Descends, SameFile

LEMMA SameDescends ==
    ASSUME NEW o, Shaped(o)
    PROVE  Descends(o, o)
BY DEF Descends, Derived, SameFile

LEMMA NewFileDescends ==
    ASSUME NEW o, Shaped(o), NEW f, f # Manifest(1)
    PROVE  Descends(o, NewWritableFile(o, f))
<1>1. PICK data, synced, dom : /\ dom = DOMAIN o.data \cup {f}
                          /\ data = [g \in dom |-> IF g = f THEN <<>> ELSE o.data[g]]
                          /\ synced = [g \in dom |-> IF g = f THEN 0 ELSE o.synced[g]]
  OBVIOUS
<1>0. PICK p : p = [o EXCEPT !.data = data, !.synced = synced]
  OBVIOUS
<1>2. p = [dir |-> o.dir, dirs |-> o.dirs, data |-> data, synced |-> synced]
  <2>1. o = [dir |-> o.dir, dirs |-> o.dirs, data |-> o.data, synced |-> o.synced]
    BY DEF Shaped
  <2> QED
    BY <1>0, <2>1
<1>3. DOMAIN data = dom /\ DOMAIN synced = dom /\ DOMAIN o.synced = DOMAIN o.data
  BY <1>1 DEF Shaped
<1>4. /\ data = [g \in DOMAIN data |-> data[g]] /\ synced = [g \in DOMAIN data |-> synced[g]]
      /\ Manifest(1) \in DOMAIN o.data =>
            /\ data[Manifest(1)] = o.data[Manifest(1)]
            /\ synced[Manifest(1)] = o.synced[Manifest(1)]
  BY <1>1
<1>5. Descends(o, p)
  BY <1>1, <1>2, <1>3, <1>4, DataDescends
<1>6. NewWritableFile(o, f) = Become(p, Link(o.dir, f))
  <2>2. p = [o EXCEPT !.data = [g \in DOMAIN @ \cup {f} |-> IF g = f THEN <<>> ELSE @[g]],
                      !.synced = [g \in DOMAIN @ \cup {f} |-> IF g = f THEN 0 ELSE @[g]]]
    BY <1>0, <1>1, <1>3
  <2> QED
    BY <2>2 DEF NewWritableFile
<1>7. PICK d : d = [files |-> o.dir.files \cup {f}, current |-> o.dir.current]
  OBVIOUS
<1>8. d = Link(o.dir, f)
  BY <1>7 DEF Link, Shaped
<1>9. Shaped(p) /\ p.dirs = o.dirs /\ o.dir \in o.dirs /\ o.dir.current # 0
  BY <1>2, <1>5 DEF Descends, Shaped
<1>10. Derived(d, p.dirs)
  BY <1>7, <1>9 DEF Derived
<1>11. Descends(p, Become(p, d))
  BY <1>7, <1>9, <1>10, BecomeDescends
<1> QED
  BY <1>5, <1>6, <1>8, <1>11, DescendsOn

LEMMA DeleteDescends ==
    ASSUME NEW o, Shaped(o), NEW f
    PROVE  Descends(o, DeleteFile(o, f))
<1>1. PICK d : d = [files |-> o.dir.files \ {f}, current |-> o.dir.current]
  OBVIOUS
<1>2. d = Unlink(o.dir, f)
  BY <1>1 DEF Unlink, Shaped
<1>3. o.dir \in o.dirs /\ o.dir.current # 0
  BY DEF Shaped
<1>4. Derived(d, o.dirs)
  BY <1>1, <1>3 DEF Derived
<1>5. Descends(o, Become(o, d))
  BY <1>1, <1>3, <1>4, BecomeDescends
<1> QED
  BY <1>2, <1>5 DEF DeleteFile

LEMMA AddDescends ==
    ASSUME NEW o, Shaped(o), NEW f, f # Manifest(1), NEW r
    PROVE  Descends(o, AddRecord(o, f, r))
<1>1. PICK data : data = [o.data EXCEPT ![f] = Append(@, r)]
  OBVIOUS
<1>2. AddRecord(o, f, r) = [dir |-> o.dir, dirs |-> o.dirs, data |-> data, synced |-> o.synced]
  <2>1. o = [dir |-> o.dir, dirs |-> o.dirs, data |-> o.data, synced |-> o.synced]
    BY DEF Shaped
  <2>2. AddRecord(o, f, r) = [o EXCEPT !.data = data]
    BY <1>1 DEF AddRecord
  <2> QED
    BY <2>1, <2>2
<1>3. /\ DOMAIN data = DOMAIN o.data /\ data = [g \in DOMAIN data |-> data[g]]
      /\ o.synced = [g \in DOMAIN data |-> o.synced[g]]
      /\ data[Manifest(1)] = o.data[Manifest(1)] \/ Manifest(1) \notin DOMAIN o.data
  BY <1>1 DEF Shaped
<1> QED
  BY <1>2, <1>3, DataDescends

LEMMA SyncDirDescends ==
    ASSUME NEW o, Shaped(o)
    PROVE  Descends(o, SyncDir(o))
<1>1. PICK q : q = [dir |-> o.dir, dirs |-> {o.dir}, data |-> o.data, synced |-> o.synced]
  OBVIOUS
<1>2. q = [o EXCEPT !.dirs = {o.dir}]
  BY <1>1 DEF Shaped
<1>3. q.dir \in q.dirs /\ q.dir = o.dir /\ \A e \in q.dirs : e \in o.dirs
  BY <1>1 DEF Shaped
<1>4. Descends(o, Prune(q))
  BY <1>1, <1>3, PruneDescends DEF Derived, Shaped
<1> QED
  BY <1>2, <1>4 DEF SyncDir

LEMMA SyncDescends ==
    ASSUME NEW o, Shaped(o), NEW f, f # Manifest(1)
    PROVE  Descends(o, Sync(o, f))
<1>1. PICK synced, n : n = Len(o.data[f]) /\ synced = [o.synced EXCEPT ![f] = n]
  OBVIOUS
<1>2. PICK p : p = [dir |-> o.dir, dirs |-> o.dirs, data |-> o.data, synced |-> synced]
  OBVIOUS
<1>3. p = [o EXCEPT !.synced[f] = Len(o.data[f])]
  BY <1>1, <1>2 DEF Shaped
<1>4. /\ o.data = [g \in DOMAIN o.data |-> o.data[g]]
      /\ synced = [g \in DOMAIN o.data |-> synced[g]]
      /\ Manifest(1) \in DOMAIN o.data => synced[Manifest(1)] = o.synced[Manifest(1)]
  BY <1>1 DEF Shaped
<1>5. Descends(o, p)
  BY <1>2, <1>4, DataDescends
<1>6. Descends(p, SyncDir(p))
  BY <1>5, SyncDirDescends DEF Descends
<1>7. Sync(o, f) \in {p, SyncDir(p)}
  BY <1>3 DEF Sync
<1> QED
  BY <1>5, <1>6, <1>7, DescendsOn

LEMMA CurrentDescends ==
    ASSUME NEW o, Shaped(o), NEW n, n # 0, n # 1
    PROVE  Descends(o, SetCurrentFile(o, n))
<1>1. PICK q : q = IF FsyncLinks THEN SyncDir(o) ELSE o
  OBVIOUS
<1>2. Descends(o, q)
  BY <1>1, SyncDirDescends, SameDescends
<1>3. Shaped(q) /\ q.dir = o.dir
  BY <1>1, <1>2 DEF Descends, SyncDir, Prune, Shaped
<1>4. PICK d : d = [files |-> o.dir.files, current |-> n]
  OBVIOUS
<1>5. d = Rename(o.dir, n)
  BY <1>4 DEF Rename, Shaped
<1>6. Derived(d, q.dirs)
  BY <1>3, <1>4 DEF Derived, Shaped
<1>7. Descends(q, Become(q, d))
  BY <1>3, <1>4, <1>6, BecomeDescends
<1>8. SetCurrentFile(o, n) = Become(q, d)
  BY <1>1, <1>5 DEF SetCurrentFile
<1> QED
  BY <1>2, <1>7, <1>8, DescendsOn

LEMMA Descent ==
    ASSUME Creation, Descends(os, os'), acked' = acked, db'.manifest # 1
    PROVE  Creation'
<1> SUFFICES ASSUME NEW d \in os'.dirs
             PROVE  /\ Manifest(1) \in d.files => Len(os'.data[Manifest(1)]) <= 1
                    /\ d.current = 0 => d.files \subseteq {Manifest(1)} /\ acked = {}
                    /\ d.current = 1 /\ Manifest(1) \in d.files /\ acked # {}
                          => os'.synced[Manifest(1)] = 1
  BY DEF Creation
<1>1. Derived(d, os.dirs) /\ (Manifest(1) \in d.files => SameFile(os, os', Manifest(1)))
  BY DEF Descends, Named
<1>2. CASE d \in os.dirs
  BY <1>1, <1>2 DEF Creation, SameFile
<1>3. CASE d \notin os.dirs
  <2>1. d.current # 0
    BY <1>1, <1>3 DEF Derived
  <2>2. ASSUME Manifest(1) \in d.files
        PROVE  /\ Len(os'.data[Manifest(1)]) <= 1
               /\ d.current = 1 /\ acked # {} => os'.synced[Manifest(1)] = 1
    <3>1. PICK e \in os.dirs : Manifest(1) \in e.files /\ (d.current = 1 => e.current = 1)
      BY <1>1, <1>3, <2>2 DEF Derived
    <3>2. /\ os'.data[Manifest(1)] = os.data[Manifest(1)]
          /\ os'.synced[Manifest(1)] = os.synced[Manifest(1)]
      BY <1>1, <2>2 DEF SameFile
    <3> QED
      BY <3>1, <3>2 DEF Creation
  <2> QED
    BY <2>1, <2>2
<1> QED
  BY <1>2, <1>3

LEMMA ShapedFiles ==
    ASSUME IsOS(os), os.dir.current # 0
    PROVE  Shaped(os)
<1>1. os.dir \in os.dirs /\ os.dir \in Dir
  BY DEF IsOS
<1>2. os.dir = [files |-> os.dir.files, current |-> os.dir.current]
  BY <1>1 DEF Dir
<1>3. Named(os.dirs, Manifest(1)) => Manifest(1) \in DOMAIN os.data
  BY DEF IsOS, Named
<1> QED
  BY <1>1, <1>2, <1>3 DEF IsOS, Shaped

\* Where the database is not yet created, or is there.
LEMMA WhereCurrent ==
    ASSUME DBInv
    PROVE  /\ IsOS(os) /\ db \in Process
           /\ db.phase \in {"replay", "opening", "open"} => Shaped(os)
<1>1. IsOS(os) /\ db \in Process /\ PhaseInv
  BY DEF DBInv
<1>2. db.phase \in {"replay", "opening", "open"} => os.dir.current # 0
  BY <1>1 DEF PhaseInv, Replaying, Opening, Prepared, Opens, Running
<1> QED
  BY <1>1, <1>2, ShapedFiles

\* Building and filling tables, and new files.
LEMMA OpeningKeepsCreation ==
    ASSUME DBInv, Creation, RecoverLogFile \/ OpenNewLog
    PROVE  Creation'
<1>1. db \in Process /\ acked' = acked /\ db.phase = "replay"
  BY WhereCurrent DEF RecoverLogFile, OpenNewLog, History
<1>2. Shaped(os)
  BY <1>1, WhereCurrent
<1>3. db'.manifest # 1
  <2>1. CASE RecoverLogFile
    BY <1>1, <2>1 DEF RecoverLogFile, Process, Creation
  <2>2. CASE OpenNewLog
    BY <1>1, <2>2 DEF OpenNewLog, Process, Creation
  <2> QED
    BY <2>1, <2>2
<1>4. Descends(os, os')
  <2>1. CASE OpenNewLog
    <3>1. os' = NewWritableFile(os, Log(db.next)) /\ Log(db.next) # Manifest(1)
      BY <2>1, Names DEF OpenNewLog
    <3> QED
      BY <1>2, <3>1, NewFileDescends
  <2>2. CASE RecoverLogFile
    <3>1. PICK f, r : f = Table(db.next) /\
             (os' = os \/ os' = Sync(AddRecord(NewWritableFile(os, f), f, r), f))
      BY <2>2 DEF RecoverLogFile
    <3>2. f # Manifest(1)
      BY <3>1, Names
    <3>3. PICK a, b : a = NewWritableFile(os, f) /\ b = AddRecord(a, f, r)
      OBVIOUS
    <3>4. Descends(os, a)
      BY <1>2, <3>2, <3>3, NewFileDescends
    <3>5. Descends(a, b)
      BY <3>2, <3>3, <3>4, AddDescends DEF Descends
    <3>6. Descends(b, Sync(b, f))
      BY <3>2, <3>5, SyncDescends DEF Descends
    <3>7. Descends(os, Sync(b, f))
      BY <3>4, <3>5, <3>6, DescendsOn
    <3>8. Descends(os, os)
      BY <1>2, SameDescends
    <3> QED
      BY <3>1, <3>3, <3>7, <3>8
  <2> QED
    BY <2>1, <2>2
<1> QED
  BY <1>1, <1>3, <1>4, Descent

\* A process that opens a database does so with a MANIFEST of a higher number.
LEMMA HigherManifest ==
    ASSUME IsOS(os), SoundFiles, os.dir.current # 0
    PROVE  Recovered(os).next \notin {0, 1}
<1>1. KnownHere /\ KnownDirs
  BY Here, DirFiles
<1>2. os.dir.current \in Nat /\ os.dir.current < Recovered(os).next /\ Recovered(os).next \in Nat
  BY <1>1 DEF KnownHere, KnownDirs, Version
<1> QED
  BY <1>2

LEMMA ApplyKeepsCreation ==
    ASSUME DBInv, Creation, ApplyAppend \/ ApplySync \/ ApplyCurrent \/ ApplyFails
    PROVE  Creation'
<1>1. IsOS(os) /\ db \in Process /\ acked' = acked
  BY WhereCurrent DEF ApplyAppend, ApplySync, ApplyCurrent, ApplyFails, History
<1>2. db.apply # NoApply
  BY DEF ApplyAppend, ApplySync, ApplyCurrent, ApplyFails, NoApply
<1>3. db.phase \in {"opening", "open"} /\ (db.apply.step = "current" => db.phase = "opening")
  BY <1>2, WhoApplies
<1>4. Shaped(os)
  BY <1>3, WhereCurrent
<1>5. PICK f, n : f = Manifest(n) /\ n = db.manifest
  OBVIOUS
<1>6. f # Manifest(1)
  BY <1>5, Names DEF Creation
<1>7. ASSUME NEW o, Descends(os, o), NEW r
      PROVE  Descends(os, AddRecord(o, f, r))
  <2>1. Descends(o, AddRecord(o, f, r))
    BY <1>6, <1>7, AddDescends DEF Descends
  <2> QED
    BY <1>7, <2>1, DescendsOn
<1>8. Descends(os, os) /\ Descends(os, NewWritableFile(os, f))
  BY <1>4, <1>6, SameDescends, NewFileDescends
<1>9. Installed(os', db).manifest = db.manifest
  BY <1>1 DEF Installed, Process
<1>10. CASE ApplyAppend
  <2>1. PICK r, e, o : /\ o = (IF db.apply.new THEN AddRecord(NewWritableFile(os, f), f, r) ELSE os)
                       /\ os' = AddRecord(o, f, e)
    BY <1>5, <1>10 DEF ApplyAppend
  <2>2. Descends(os, o)
    BY <1>7, <1>8, <2>1
  <2>3. Descends(os, os')
    BY <1>7, <2>1, <2>2
  <2>4. db'.manifest = db.manifest
    BY <1>1, <1>10 DEF ApplyAppend, Process
  <2> QED
    BY <1>1, <2>3, <2>4, Descent DEF Creation
<1>11. CASE ApplySync
  <2>1. os' = Sync(os, f)
    BY <1>5, <1>11 DEF ApplySync
  <2>2. Descends(os, os')
    BY <1>4, <1>6, <2>1, SyncDescends
  <2>3. db'.manifest = db.manifest
    BY <1>1, <1>9, <1>11 DEF ApplySync, Process
  <2> QED
    BY <1>1, <2>2, <2>3, Descent DEF Creation
<1>12. CASE ApplyCurrent
  <2>1. os' = SetCurrentFile(os, n) /\ db'.manifest = db.manifest /\ db.phase = "opening"
    BY <1>3, <1>5, <1>9, <1>12 DEF ApplyCurrent
  <2>2. n \notin {0, 1}
    BY <1>5, <2>1, OpeningFacts, HigherManifest DEF Opens
  <2>3. Descends(os, os')
    BY <1>4, <2>1, <2>2, CurrentDescends
  <2> QED
    BY <1>1, <2>1, <2>3, Descent DEF Creation
<1>13. CASE ApplyFails
  <2>1. CASE db.apply.new
    <3>1. PICK o : /\ o = (IF f \in os.dir.files THEN os ELSE NewWritableFile(os, f))
                   /\ os' = DeleteFile(o, f) /\ db' = Down
      BY <1>5, <1>13, <2>1 DEF ApplyFails
    <3>2. Descends(os, o)
      BY <1>8, <3>1
    <3>3. Descends(o, os')
      BY <3>1, <3>2, DeleteDescends DEF Descends
    <3>4. db'.manifest = 0
      BY <3>1 DEF Down
    <3> QED
      BY <1>1, <3>2, <3>3, <3>4, DescendsOn, Descent
  <2>2. CASE ~db.apply.new
    <3>1. PICK e : (os' = os \/ os' = AddRecord(os, f, e)) /\ db' = GivenUp
      BY <1>5, <1>13, <2>2 DEF ApplyFails
    <3>2. Descends(os, os')
      BY <1>7, <1>8, <3>1
    <3>3. db'.manifest = db.manifest
      BY <1>1, <3>1 DEF GivenUp, Process
    <3> QED
      BY <1>1, <3>2, <3>3, Descent DEF Creation
  <2> QED
    BY <2>1, <2>2
<1> QED
  BY <1>10, <1>11, <1>12, <1>13

\* What an open database does, apart from writes and LogAndApply.
LEMMA OpenKeepsCreation ==
    ASSUME DBInv, Creation, db.phase = "open",
           \/ DeleteObsoleteFile \/ SwitchMemTable \/ FlushStart \/ FlushBuilt
           \/ MergeStart \/ MergeBuilt \/ NewIterator \/ DeleteIterator
    PROVE  Creation'
<1>1. IsOS(os) /\ db \in Process /\ Shaped(os)
  BY WhereCurrent
<1>2. acked' = acked
  BY DEF DeleteObsoleteFile, SwitchMemTable, FlushStart, FlushBuilt, MergeStart, MergeBuilt,
         NewIterator, DeleteIterator, History
<1>3. db'.manifest = db.manifest
  BY <1>1 DEF DeleteObsoleteFile, SwitchMemTable, FlushStart, FlushBuilt, MergeStart, MergeBuilt,
              NewIterator, DeleteIterator, Process
<1>4. Descends(os, os')
  <2>1. CASE DeleteObsoleteFile
    <3>1. PICK f : os' = DeleteFile(os, f)
      BY <2>1 DEF DeleteObsoleteFile
    <3> QED
      BY <1>1, <3>1, DeleteDescends
  <2>2. CASE SwitchMemTable \/ FlushStart \/ MergeStart
    <3>1. PICK f \in {Log(db.next), Table(db.next)} : os' = NewWritableFile(os, f)
      BY <2>2 DEF SwitchMemTable, FlushStart, MergeStart
    <3>2. f # Manifest(1)
      BY Names
    <3> QED
      BY <1>1, <3>1, <3>2, NewFileDescends
  <2>3. CASE FlushBuilt \/ MergeBuilt
    <3>1. PICK f, r : /\ f \in {Table(db.flush), Table(db.merge.out)}
                      /\ os' = Sync(AddRecord(os, f, r), f)
      BY <2>3 DEF FlushBuilt, MergeBuilt
    <3>2. f # Manifest(1)
      BY <3>1, Names
    <3>3. Descends(os, AddRecord(os, f, r))
      BY <1>1, <3>2, AddDescends
    <3>4. Descends(AddRecord(os, f, r), os')
      BY <3>1, <3>2, <3>3, SyncDescends DEF Descends
    <3> QED
      BY <3>3, <3>4, DescendsOn
  <2>4. CASE NewIterator \/ DeleteIterator
    <3>1. os' = os
      BY <2>4 DEF NewIterator, DeleteIterator
    <3> QED
      BY <1>1, <3>1, SameDescends
  <2> QED
    BY <2>1, <2>2, <2>3, <2>4
<1> QED
  BY <1>2, <1>3, <1>4, Descent DEF Creation

\* A write that is acknowledged with sync is behind the creation.
LEMMA WriteKeepsCreation ==
    ASSUME DBInv, Creation, FsyncLinks, NEW sync \in BOOLEAN, Write(sync)
    PROVE  Creation'
<1>1. db.phase = "open" /\ db \in Process /\ Shaped(os) /\ os.dir.current = db.manifest
      /\ os.dir.current # 0
  BY WhereCurrent, OpenFacts DEF Write, Open, Running
<1>2. PICK f, r, o : /\ f = Log(db.log) /\ o = AddRecord(os, f, r)
                     /\ os' = (IF sync THEN Sync(o, f) ELSE o)
  BY DEF Write
<1>3. f # Manifest(1)
  BY <1>2, Names
<1>4. Descends(os, o)
  BY <1>1, <1>2, <1>3, AddDescends
<1>5. Descends(os, os')
  <2>1. Descends(o, Sync(o, f))
    BY <1>3, <1>4, SyncDescends DEF Descends
  <2> QED
    BY <1>2, <1>4, <2>1, DescendsOn
<1>6. db'.manifest = db.manifest
  BY <1>1 DEF Write, Process
<1>7. CASE ~sync
  <2>1. acked' = acked
    BY <1>7 DEF Write
  <2> QED
    BY <1>5, <1>6, <2>1, Descent DEF Creation
<1>8. CASE sync
  <2>1. o.dir = os.dir
    BY <1>1, <1>2, <1>4 DEF AddRecord, Shaped
  <2>2. PICK q : q = [o EXCEPT !.synced[f] = Len(o.data[f])]
    OBVIOUS
  <2>3. os' = SyncDir(q)
    BY <1>2, <1>8, <2>2 DEF Sync
  <2>4. q.dir = os.dir
    BY <2>1, <2>2, <1>4 DEF Descends, Shaped
  <2>5. os'.dirs = {os.dir}
    BY <2>3, <2>4, <1>4, <2>2 DEF SyncDir, Prune, Descends, Shaped
  <2>6. Manifest(1) \in os.dir.files => Len(os'.data[Manifest(1)]) <= 1
    <3>1. os.dir \in os.dirs
      BY <1>1 DEF Shaped
    <3>2. Manifest(1) \in os.dir.files => SameFile(os, os', Manifest(1))
      BY <1>5, <2>5 DEF Descends, Named
    <3> QED
      BY <3>1, <3>2 DEF Creation, SameFile
  <2>7. db'.manifest # 1 /\ os.dir.current \notin {0, 1}
    BY <1>1, <1>6 DEF Creation
  <2> QED
    BY <2>5, <2>6, <2>7 DEF Creation
<1> QED
  BY <1>7, <1>8

\* NewDB and the rename of its CURRENT.
LEMMA CreatingKeepsCreation ==
    ASSUME DBInv, Creation, NewDB \/ NewDBCurrent
    PROVE  Creation'
<1>1. IsOS(os) /\ db \in Process /\ SoundFiles /\ PhaseInv /\ os.dir \in os.dirs
  BY DEF DBInv, IsOS
<1>2. os.dir.current = 0 /\ acked' = acked
  BY <1>1 DEF NewDB, NewDBCurrent, PhaseInv, History
<1>3. /\ os.dir.files \subseteq {Manifest(1)} /\ acked = {}
      /\ \A d \in os.dirs : d.current = 0 /\ d.files \subseteq {Manifest(1)}
  BY <1>1, <1>2 DEF SoundFiles, Creation
<1>4. PICK M : M = Manifest(1)
  OBVIOUS
<1>5. CASE NewDB
  <2>1. os' = AddRecord(NewWritableFile(os, M), M, FirstEdit)
    BY <1>4, <1>5 DEF NewDB, FirstEdit
  <2>2. PICK o : o = NewWritableFile(os, M)
    OBVIOUS
  <2>3. M \in File /\ Fits(M, FirstEdit)
    BY <1>4, FirstEditIsEdit, Names DEF Fits
  <2>4. Begun(os, o, M)
    BY <1>1, <2>2, <2>3, Creating
  <2>5. Touched(os, o, M) /\ M \in o.dir.files /\ o.data[M] = <<>> /\ o.dirs = os.dirs \cup {o.dir}
        /\ o.dir = [files |-> os.dir.files \cup {M}, current |-> os.dir.current]
    BY <2>4 DEF Begun
  <2>6. os'.dirs = o.dirs /\ os'.data[M] = Append(o.data[M], FirstEdit)
    <3>1. os' = AddRecord(o, M, FirstEdit)
      BY <2>1, <2>2
    <3> QED
      BY <2>3, <2>5, <3>1, Adding
  <2>7. Len(os'.data[M]) = 1
    BY <2>5, <2>6, FirstRecord
  <2>8. \A d \in os'.dirs : d.current = 0 /\ d.files \subseteq {M}
    BY <1>2, <1>3, <1>4, <2>5, <2>6
  <2>9. db'.manifest # 1
    BY <1>5 DEF NewDB, Down
  <2>10. Len(os'.data[Manifest(1)]) <= 1 /\ acked' = {}
    BY <1>2, <1>3, <1>4, <2>7
  <2> QED
    BY <1>4, <2>8, <2>9, <2>10 DEF Creation
<1>6. CASE NewDBCurrent
  <2>1. os' = SetCurrentFile(os, 1)
    BY <1>6 DEF NewDBCurrent
  <2>2. /\ os'.dirs = {os'.dir} \cup IF FsyncLinks THEN {os.dir} ELSE os.dirs
        /\ os'.dir = [files |-> os.dir.files, current |-> 1]
        /\ \A g : Named(os'.dirs, g) => SameFile(os, os', g)
    BY <1>1, <2>1, SettingCurrent
  <2>3. \A d \in os'.dirs : d.current = 0 => d \in os.dirs
    BY <1>1, <2>2
  <2>4. ASSUME NEW d \in os'.dirs, M \in d.files
        PROVE  Len(os'.data[M]) <= 1
    <3>1. os'.data[M] = os.data[M]
      BY <2>2, <2>4 DEF Named, SameFile
    <3>2. \E e \in os.dirs : M \in e.files
      BY <1>1, <2>2, <2>4
    <3> QED
      BY <1>4, <3>1, <3>2 DEF Creation
  <2>5. db'.manifest # 1
    BY <1>1, <1>6 DEF NewDBCurrent, Process, Creation
  <2> QED
    BY <1>2, <1>3, <1>4, <2>3, <2>4, <2>5 DEF Creation
<1> QED
  BY <1>5, <1>6

\* A process that starts, or dies.
LEMMA StartingKeepsCreation ==
    ASSUME DBInv, Creation, FindDB \/ Recover \/ Kill
    PROVE  Creation'
<1>1. IsOS(os) /\ db \in Process /\ SoundFiles /\ PhaseInv
  BY DEF DBInv
<1>2. os' = os /\ acked' = acked
  BY DEF FindDB, Recover, Kill, History
<1>3. db'.manifest # 1
  <2>1. CASE FindDB \/ Kill
    BY <2>1 DEF FindDB, Kill, Down
  <2>2. CASE Recover
    <3>1. os.dir.current # 0
      BY <1>1, <2>2 DEF Recover, PhaseInv
    <3>2. Recovered(os).next # 1
      BY <1>1, <3>1, HigherManifest
    <3> QED
      BY <1>1, <2>2, <3>2 DEF Recover, Process, Creation
  <2> QED
    BY <2>1, <2>2
<1> QED
  BY <1>2, <1>3 DEF Creation

LEMMA CreationStays ==
    ASSUME DBInv, Creation, Next, ~PowerCut, FsyncLinks
    PROVE  Creation'
<1>1. CASE NewDB \/ NewDBCurrent
  BY <1>1, CreatingKeepsCreation
<1>2. CASE FindDB \/ Recover \/ Kill
  BY <1>2, StartingKeepsCreation
<1>3. CASE RecoverLogFile \/ OpenNewLog
  BY <1>3, OpeningKeepsCreation
<1>4. CASE ApplyAppend \/ ApplySync \/ ApplyCurrent \/ ApplyFails
  BY <1>4, ApplyKeepsCreation
<1>5. CASE \E sync \in BOOLEAN : Write(sync)
  BY <1>5, WriteKeepsCreation
<1>6. CASE \/ SwitchMemTable \/ FlushStart \/ FlushBuilt \/ MergeStart \/ MergeBuilt
           \/ NewIterator \/ DeleteIterator
  <2>1. db.phase = "open"
    BY <1>6 DEF SwitchMemTable, FlushStart, FlushBuilt, MergeStart, MergeBuilt,
                NewIterator, DeleteIterator, Open
  <2> QED
    BY <1>6, <2>1, OpenKeepsCreation
<1>7. CASE DeleteObsoleteFile
  <2>1. db.doomed # {}
    BY <1>7 DEF DeleteObsoleteFile
  <2>2. db.phase = "open"
    <3>1. PhaseInv
      BY DEF DBInv
    <3>2. Down.doomed = {}
      BY DEF Down
    <3> QED
      BY <2>1, <3>1, <3>2 DEF PhaseInv, Replaying, Opening, Prepared, Opens, Fresh, Down
  <2> QED
    BY <1>7, <2>2, OpenKeepsCreation
<1> QED
  BY <1>1, <1>2, <1>3, <1>4, <1>5, <1>6, <1>7 DEF Next

-----------------------------------------------------------------------------
(* A database whose descriptor is lost.                                    *)

\* It is found and not opened, again and again.
LEMMA LostStays ==
    ASSUME Lost, Next
    PROVE  Lost' /\ Reopened(os) = {} /\ Reopened(os') = {} /\ acked' = acked
<1>1. /\ IsOS(os) /\ os.dirs = {os.dir} /\ Manifest(1) \in os.dir.files
      /\ os.dir.current = 1 /\ os.data[Manifest(1)] = <<>> /\ acked = {}
      /\ left \in [Occasions -> Nat]
  BY DEF Lost, DescriptorLost
<1>2. PICK p \in {"down", "recover", "broken"} : db = [Down EXCEPT !.phase = p]
  BY DEF Lost
<1>3. db.phase = p /\ db.apply = NoApply /\ db.doomed = {}
  BY <1>2 DEF Down
<1>4. Records(os) = <<>>
  <2>1. Manifest(os.dir.current) = Manifest(1)
    BY <1>1
  <2> QED
    BY <1>1, <2>1 DEF Records
<1>5. Reopened(os) = {}
  BY <1>4, NothingThere
<1>6. FindDB \/ Recover \/ Kill \/ PowerCut
  <2>1. ~NewDB /\ ~NewDBCurrent /\ ~RecoverLogFile /\ ~OpenNewLog
    <3>1. ~NewDB
      BY <1>1 DEF NewDB
    <3>2. db.phase \notin {"newdb", "replay"}
      BY <1>3
    <3>3. ~NewDBCurrent /\ ~OpenNewLog
      BY <3>2 DEF NewDBCurrent, OpenNewLog
    <3>4. ~RecoverLogFile
      BY <3>2, Zenon DEF RecoverLogFile
    <3> QED
      BY <3>1, <3>3, <3>4
  <2>2. ~ApplyAppend /\ ~ApplySync /\ ~ApplyCurrent /\ ~ApplyFails /\ ~DeleteObsoleteFile
    BY <1>3 DEF ApplyAppend, ApplySync, ApplyCurrent, ApplyFails, DeleteObsoleteFile, NoApply
  <2>3. ~Open
    BY <1>3 DEF Open
  <2>4. /\ ~\E sync \in BOOLEAN : Write(sync)
        /\ ~SwitchMemTable /\ ~FlushStart /\ ~FlushBuilt /\ ~MergeStart /\ ~MergeBuilt
        /\ ~NewIterator /\ ~DeleteIterator
    BY <2>3 DEF Write, SwitchMemTable, FlushStart, FlushBuilt, MergeStart, MergeBuilt,
                NewIterator, DeleteIterator
  <2> QED
    BY <2>1, <2>2, <2>4 DEF Next
<1>7. ASSUME NEW what \in Occasions, Spend(what)
      PROVE  left' \in [Occasions -> Nat]
  <2>1. left' = [left EXCEPT ![what] = @ - 1] /\ left[what] > 0 /\ left[what] \in Nat
    BY <1>1, <1>7 DEF Spend
  <2>2. left[what] - 1 \in Nat
    BY <2>1
  <2> QED
    BY <1>1, <2>1, <2>2
<1>8. CASE PowerCut
  <2>1. db' = Down /\ acked' = acked /\ left' \in [Occasions -> Nat]
    BY <1>7, <1>8 DEF PowerCut, Occasions
  <2>2. PICK d \in os.dirs : WasCut(d)
    BY <1>1, <1>8, Cutting
  <2>3. /\ d = os.dir /\ IsOS(os') /\ os'.dir = d /\ os'.dirs = {d}
        /\ Remains(Manifest(1))
    BY <1>1, <2>2 DEF WasCut
  <2>4. os'.data[Manifest(1)] = <<>>
    <3>1. PICK s, t : s = os.data[Manifest(1)] /\ t = os'.data[Manifest(1)]
      OBVIOUS
    <3>2. Named(os.dirs, Manifest(1)) /\ Named(os'.dirs, Manifest(1))
      BY <1>1, <2>3 DEF Named
    <3>3. t \in Seq(Edit) /\ os.synced[Manifest(1)] \in 0..Len(s)
      BY <1>1, <2>3, <3>1, <3>2, FileExists, Names
    <3>4. s = <<>>
      BY <1>1, <3>1
    <3>5. Len(s) = 0
      BY <3>4
    <3>6. Len(t) \in os.synced[Manifest(1)]..Len(s)
      BY <2>3, <3>1 DEF Remains
    <3>7. Len(t) = 0
      BY <3>3, <3>5, <3>6
    <3> QED
      BY <3>1, <3>3, <3>7
  <2>5. acked' = {} /\ os'.dirs = {os'.dir} /\ os'.dir.current = 1 /\ Manifest(1) \in os'.dir.files
    BY <1>1, <2>1, <2>3
  <2>6. Lost' /\ Reopened(os') = {}
    BY <2>1, <2>3, <2>4, <2>5, LosesDescriptor
  <2> QED
    BY <1>5, <2>1, <2>6
<1>9. CASE FindDB \/ Recover \/ Kill
  <2>1. os' = os /\ acked' = acked
    BY <1>9 DEF FindDB, Recover, Kill, History
  <2>2. left' \in [Occasions -> Nat]
    BY <1>1, <1>7, <1>9 DEF FindDB, Recover, Kill, History, Occasions
  <2>3. \E r \in {"down", "recover", "broken"} : db' = [Down EXCEPT !.phase = r]
    <3>1. CASE FindDB
      BY <3>1 DEF FindDB
    <3>2. CASE Kill
      <4>1. db' = Down
        BY <3>2 DEF Kill
      <4>2. db' = [Down EXCEPT !.phase = "down"]
        BY <4>1, DownIsDown
      <4> QED
        BY <4>2
    <3>3. CASE Recover
      <4>1. PICK s : s = <<>>
        OBVIOUS
      <4>2. s \in Seq(Edit) /\ Len(s) = 0
        BY <4>1
      <4>3. Recovered(os) = Nothing
        BY <1>4, <4>1, <4>2, VersionsStepwise DEF Recovered
      <4>4. ~Readable(os)
        BY <4>3 DEF Readable, Nothing
      <4>5. db' = [db EXCEPT !.phase = "broken"]
        BY <3>3, <4>4 DEF Recover
      <4>6. db' = [Down EXCEPT !.phase = "broken"]
        BY <1>2, <4>5 DEF Down
      <4> QED
        BY <4>6
    <3> QED
      BY <1>9, <3>1, <3>2, <3>3
  <2>4. Lost'
    BY <1>1, <2>1, <2>2, <2>3 DEF Lost, DescriptorLost
  <2>5. Reopened(os') = {}
    BY <1>5, <2>1
  <2> QED
    BY <1>5, <2>1, <2>4, <2>5
<1> QED
  BY <1>6, <1>8, <1>9

-----------------------------------------------------------------------------
(* All steps, of a database that is sound or lost.                         *)

\* What a reopen finds, and what of it is safe, as the files change.
Unchanged == DBInv' /\ Reopened(os') = Reopened(os) /\ acked' = acked
Grows == /\ DBInv' /\ Reopened(os) \subseteq Reopened(os') /\ issued < MaxWrites
         /\ \A q \in Reopened(os') \ Reopened(os) : q.id = issued + 1
         /\ \E q \in Reopened(os') : q.id = issued + 1
         /\ acked \subseteq acked' /\ acked' \subseteq acked \cup {issued + 1}

LEMMA StepIsFine ==
    ASSUME DBInv, Next, ~PowerCut, FsyncLinks
    PROVE  Unchanged \/ Grows
<1>1. CASE NewDB
  BY <1>1, NewDBIsFine DEF NewDB, History, Fine, Unchanged
<1>2. CASE NewDBCurrent
  BY <1>2, NewDBCurrentIsFine DEF NewDBCurrent, History, Fine, Unchanged
<1>3. CASE FindDB
  BY <1>3, FindDBIsFine DEF FindDB, History, Fine, Unchanged
<1>4. CASE Recover
  BY <1>4, RecoverIsFine DEF Recover, History, Fine, Unchanged
<1>5. CASE RecoverLogFile
  BY <1>5, RecoverLogFileIsFine DEF RecoverLogFile, History, Fine, Unchanged
<1>6. CASE OpenNewLog
  BY <1>6, OpenNewLogIsFine DEF OpenNewLog, History, Fine, Unchanged
<1>7. CASE ApplyAppend \/ ApplySync \/ ApplyCurrent \/ ApplyFails
  <2>1. acked' = acked
    BY <1>7 DEF ApplyAppend, ApplySync, ApplyCurrent, ApplyFails, History
  <2> QED
    BY <1>7, <2>1, ApplyIsFine DEF Fine, Unchanged
<1>8. CASE DeleteObsoleteFile
  BY <1>8, DeleteObsoleteFileIsFine DEF DeleteObsoleteFile, History, Fine, Unchanged
<1>9. CASE \E sync \in BOOLEAN : Write(sync)
  BY <1>9, WriteIsFine DEF Grows
<1>10. CASE SwitchMemTable
  BY <1>10, SwitchMemTableIsFine DEF SwitchMemTable, Fine, Unchanged
<1>11. CASE FlushStart
  BY <1>11, FlushStartIsFine DEF FlushStart, History, Fine, Unchanged
<1>12. CASE FlushBuilt
  BY <1>12, FlushBuiltIsFine DEF FlushBuilt, History, Fine, Unchanged
<1>13. CASE MergeStart
  BY <1>13, MergeStartIsFine DEF MergeStart, Fine, Unchanged
<1>14. CASE MergeBuilt
  BY <1>14, MergeBuiltIsFine DEF MergeBuilt, History, Fine, Unchanged
<1>15. CASE NewIterator \/ DeleteIterator
  BY <1>15, IteratorsAreFine DEF NewIterator, DeleteIterator, History, Fine, Unchanged
<1>16. CASE Kill
  BY <1>16, KillIsFine DEF Kill, Fine, Unchanged
<1> QED
  BY <1>1, <1>2, <1>3, <1>4, <1>5, <1>6, <1>7, <1>8, <1>9, <1>10, <1>11, <1>12, <1>13, <1>14,
     <1>15, <1>16 DEF Next

\* What spends a power cut.
LEMMA CutsAreSpent ==
    ASSUME left \in [Occasions -> Nat], Next
    PROVE  IF PowerCut THEN left.cuts > 0 /\ left'.cuts = left.cuts - 1 ELSE left'.cuts = left.cuts
<1>1. ASSUME NEW what \in Occasions, Spend(what)
      PROVE  left'.cuts = (IF what = "cuts" THEN left.cuts - 1 ELSE left.cuts)
  BY <1>1 DEF Spend, Occasions
<1>2. CASE PowerCut
  BY <1>1, <1>2 DEF PowerCut, Spend, Occasions
<1>3. CASE left' = left \/ \E what \in Occasions \ {"cuts"} : Spend(what)
  BY <1>1, <1>3 DEF PowerCut, Spend, Occasions
<1>4. PowerCut \/ left' = left \/ \E what \in Occasions \ {"cuts"} : Spend(what)
  BY DEF Next, NewDB, NewDBCurrent, FindDB, Recover, RecoverLogFile, OpenNewLog,
         ApplyAppend, ApplySync, ApplyCurrent, ApplyFails, DeleteObsoleteFile, Write,
         SwitchMemTable, FlushStart, FlushBuilt, MergeStart, MergeBuilt, NewIterator,
         DeleteIterator, Kill, History, Occasions
<1> QED
  BY <1>2, <1>3, <1>4

LEMMA StepsKeepFilesInv ==
    ASSUME FilesInv, Next, FsyncLinks
    PROVE  FilesInv'
<1>1. CASE Lost
  BY <1>1, LostStays DEF FilesInv
<1>2. CASE DBInv /\ Creation /\ PowerCut
  BY <1>2, PowerCutIsSafe
<1>3. CASE DBInv /\ Creation /\ ~PowerCut
  BY <1>3, StepIsFine, CreationStays DEF Unchanged, Grows, FilesInv
<1> QED
  BY <1>1, <1>2, <1>3 DEF FilesInv

-----------------------------------------------------------------------------
(* The theorems.                                                           *)

LEMMA VarsKeepDBInv == DBInv /\ UNCHANGED vars => DBInv'
<1> SUFFICES ASSUME DBInv, UNCHANGED vars
             PROVE  DBInv'
  OBVIOUS
<1>1. os' = os /\ db' = db /\ issued' = issued /\ acked' = acked /\ left' = left
  BY DEF vars
<1>2. IsOS(os) /\ db \in Process /\ Counted /\ SoundFiles /\ PhaseInv /\ Apart
  BY DEF DBInv
<1>3. Calm("none")
  BY <1>1, <1>2, Budgeted DEF Calm
<1>4. SoundFiles' /\ IsOS(os')
  BY <1>1, <1>2, <1>3, Unmoved
<1>5. Counted'
  BY <1>1, <1>2 DEF Counted
<1>6. Apart'
  BY <1>1, <1>2 DEF Apart
<1>7. PhaseInv'
  <2>1. \A f : Kept(f)' = Kept(f)
    BY <1>1 DEF Kept, Lossy
  <2>2. Dirs' = Dirs /\ \A d : Edits(d)' = Edits(d)
    BY <1>1 DEF Dirs, Lossy, Edits
  <2>3. \A n : Whole(n)' = Whole(n) /\ DataOf(n)' = DataOf(n)
    BY <1>1 DEF Whole, Kept, Lossy, DataOf
  <2>4. Replaying => Replaying'
    BY <1>1, <2>3 DEF Replaying, Opens, Fresh, Replayed
  <2>5. Opening => Opening'
    BY <1>1, <2>1, <2>3 DEF Opening, Prepared, Opens, Fresh, Replayed, NewManifest
  <2>6. Applying => Applying'
    BY <1>1, <2>2, <2>3 DEF Applying, FlushEdit, MergeEdit
  <2>7. Running => Running'
    BY <1>1, <2>6 DEF Running, TypeOK, InUse, Empty
  <2>8. Working => Working'
    BY <1>1, <2>1, <2>2 DEF Working, Settled, Memory
  <2> QED
    BY <1>1, <1>2, <2>4, <2>5, <2>7, <2>8 DEF PhaseInv
<1> QED
  BY <1>1, <1>2, <1>4, <1>5, <1>6, <1>7 DEF DBInv

LEMMA VarsKeepFilesInv ==
    ASSUME FilesInv, UNCHANGED vars
    PROVE  FilesInv'
<1>1. os' = os /\ db' = db /\ issued' = issued /\ acked' = acked /\ left' = left
  BY DEF vars
<1>2. CASE DBInv /\ Creation
  <2>1. Creation'
    BY <1>1, <1>2 DEF Creation
  <2> QED
    BY <1>2, <2>1, VarsKeepDBInv DEF FilesInv
<1>3. CASE Lost
  BY <1>1, <1>3 DEF FilesInv, Lost, DescriptorLost
<1> QED
  BY <1>2, <1>3 DEF FilesInv

LEMMA FilesInvariant ==
    ASSUME FsyncLinks, NotTogether
    PROVE  Spec => []FilesInv
<1>1. Init => FilesInv
  BY InitIsFine DEF FilesInv
<1>2. FilesInv /\ [Next]_vars => FilesInv'
  BY StepsKeepFilesInv, VarsKeepFilesInv
<1> QED
  BY <1>1, <1>2, PTL DEF Spec

\* What was acknowledged with sync is found.
LEMMA AckedAreFound == FilesInv => acked \subseteq {r.id : r \in Reopened(os)}
<1> SUFFICES ASSUME DBInv, NEW id \in acked
             PROVE  \E r \in Reopened(os) : r.id = id
  BY DEF FilesInv, Lost
<1>1. IsOS(os) /\ SoundFiles
  BY DEF DBInv
<1>2. os.dir.current # 0
  BY <1>1 DEF SoundFiles
<1>3. KnownHere /\ KnownDirs
  BY <1>1, <1>2, Here, DirFiles
<1>4. PICK v : v = Recovered(os)
  OBVIOUS
<1>5. Keeps(os.dir, v, id) /\ Finds(os.dir, v)
  BY <1>3, <1>4 DEF KnownHere, SoundVersion
<1>6. CASE \E n \in v.tables : \E r \in DataOf(n) : r.id = id
  BY <1>5, <1>6 DEF Finds
<1>7. CASE \E n \in LogsOf(os.dir, v) : \E i \in 1..Kept(Log(n)) : os.data[Log(n)][i].id = id
  <2>1. PICK n \in LogsOf(os.dir, v) : \E i \in 1..Kept(Log(n)) : os.data[Log(n)][i].id = id
    BY <1>7
  <2>2. PICK i \in 1..Kept(Log(n)) : os.data[Log(n)][i].id = id
    BY <2>1
  <2>3. PICK s : s = os.data[Log(n)]
    OBVIOUS
  <2>4. os.dir \in Dirs /\ Log(n) \in os.dir.files
    BY <1>3 DEF KnownHere, KnownDirs, LogsOf
  <2>5. s \in Seq(Update) /\ Kept(Log(n)) \in 0..Len(s)
    BY <1>3, <2>3, <2>4 DEF KnownDirs
  <2>6. i \in 1..Len(s)
    BY <2>5
  <2>7. s[i] \in ToSet(s)
    BY <2>5, <2>6 DEF ToSet
  <2> QED
    BY <1>5, <2>2, <2>3, <2>7 DEF Finds
<1> QED
  BY <1>5, <1>6, <1>7 DEF Keeps

LEMMA OneIsNotNone == \A s : Len(s) = 1 => s # <<>>
<1> SUFFICES ASSUME NEW s, Len(s) = 1, s = <<>>
             PROVE  FALSE
  OBVIOUS
<1>1. Len(<<>>) = 0
  OBVIOUS
<1>2. Len(s) = 0
  BY <1>1, Zenon
<1> QED
  BY <1>2

\* A process that could not be started has nothing in memory.
LEMMA LostIsNotOpen == Lost => db.phase # "open" /\ \E p : db = [Down EXCEPT !.phase = p]
BY DEF Lost, Down

LEMMA InvGivesMatch == FilesInv => FilesMatchMemory
<1> SUFFICES ASSUME FilesInv
             PROVE  MemoryMatchesDisk /\ LiveFilesExist /\ InstalledIsSaved
  BY DEF FilesMatchMemory
<1>0. db.phase = "open" => DBInv
  BY LostIsNotOpen DEF FilesInv
<1>1. MemoryMatchesDisk
  <2> SUFFICES ASSUME db.phase = "open", ~db.bg_error
               PROVE  /\ Memory = Reopened(os)
                      /\ \A r \in Memory : r.seq <= db.seq /\ \A q \in Memory : q.seq = r.seq => q = r
    BY DEF MemoryMatchesDisk
  <2>1. Working /\ Counted
    BY <1>0, OpenFacts
  <2> QED
    BY <2>1 DEF Working, Counted
<1>2. LiveFilesExist
  <2> SUFFICES ASSUME db.phase = "open"
               PROVE  /\ \A n \in db.tables \cup UNION db.pinned : TableOK(os, n)
                      /\ \A n \in db.outputs : Table(n) \in os.dir.files
                      /\ Log(db.log) \in os.dir.files
    BY DEF LiveFilesExist
  <2>1. Running
    BY <1>0, OpenFacts
  <2>2. \A n \in db.tables \cup UNION db.pinned : TableOK(os, n)
    BY <2>1, OneIsNotNone DEF Running, InUse, TableOK
  <2>3. \A n \in db.outputs : Table(n) \in os.dir.files
    <3>1. db.outputs = {db.flush, db.merge.out} \ {0} /\ NoMerge.out = 0
      BY <2>1 DEF Running, TypeOK, NoMerge
    <3>2. db.flush # 0 => Table(db.flush) \in os.dir.files
      BY <2>1 DEF Running, Empty
    <3>3. db.merge.out # 0 => Table(db.merge.out) \in os.dir.files
      BY <2>1, <3>1 DEF Running
    <3> QED
      BY <3>1, <3>2, <3>3
  <2> QED
    BY <2>1, <2>2, <2>3 DEF Running
<1>3. InstalledIsSaved
  <2> SUFFICES ASSUME db.phase = "open", db.apply = NoApply
               PROVE  /\ Readable(os)
                      /\ ~db.bg_error => /\ Recovered(os).tables = db.tables
                                         /\ Recovered(os).log = db.log_number
    BY DEF InstalledIsSaved
  <2>1. KnownHere /\ (~db.bg_error => Working)
    BY <1>0, OpenFacts
  <2>2. db.apply.step # "sync"
    BY DEF NoApply
  <2> QED
    BY <2>1, <2>2 DEF KnownHere, Working, Settled
<1> QED
  BY <1>1, <1>2, <1>3

\* A death of the process or of the machine at any moment, that the database is
\* being created included, leaves files it can be opened from (db_impl.cc:180-345,
\* version_set.cc:905-1025), or, of a database no write was acknowledged to with
\* sync, the name of a first MANIFEST that is empty (db_impl.cc:196): where the
\* sync of a file makes its name durable and no run combines a failing MANIFEST, a
\* flush and a merge, DBFiles's OpenSucceeds.
THEOREM OpenSucceedsSafe ==
    ASSUME FsyncLinks, NotTogether
    PROVE  Spec => []OpenSucceeds
<1>1. FilesInv => OpenSucceeds
  BY DEF FilesInv, DBInv, PhaseInv, Lost, OpenSucceeds
<1> QED
  BY <1>1, FilesInvariant, PTL

\* An open database remembers what its files say, no file in use is deleted and
\* the version it works with is saved (db_impl.cc:225-259, version_set.h:170-175),
\* under the same hypotheses: DBFiles's FilesMatchMemory.
THEOREM FilesMatchMemorySafe ==
    ASSUME FsyncLinks, NotTogether
    PROVE  Spec => []FilesMatchMemory
BY FilesInvariant, InvGivesMatch, PTL

\* The files implement a store that loses writes in power cuts only, in as many as
\* there are, and none that was acknowledged with sync (options.h:181-200): every
\* flush, merge, deletion, recovery and death of the process leaves what a reopen
\* finds as it is. Under the same hypotheses, DBFiles's KeepsWrites.
THEOREM KeepsWritesSafe ==
    ASSUME FsyncLinks, NotTogether
    PROVE  Spec => KeepsWrites
<1> DEFINE Data == {r.id : r \in Reopened(os)}
<1>1. Init => Store!Init
  <2> SUFFICES ASSUME Init
               PROVE  Data = {} /\ acked = {} /\ left.cuts \in Nat
    BY DEF Store!Init
  <2>1. DBInv /\ issued = 0 /\ acked = {}
    BY InitIsFine DEF Init
  <2>2. Reopened(os) = {} /\ left.cuts \in Nat
    BY <2>1 DEF DBInv, Counted, Occasions
  <2> QED
    BY <2>1, <2>2
<1>2. FilesInv /\ FilesInv' /\ [Next]_vars => [Store!Next]_(Store!vars)
  <2> SUFFICES ASSUME FilesInv, FilesInv', [Next]_vars
               PROVE  Store!Next \/ (Data' = Data /\ acked' = acked /\ left'.cuts = left.cuts)
    BY DEF Store!vars
  <2>1. left \in [Occasions -> Nat] /\ left.cuts \in Nat
    BY DEF FilesInv, DBInv, Counted, Lost, Occasions
  <2>2. CASE UNCHANGED vars
    <3>1. os' = os /\ acked' = acked /\ left' = left
      BY <2>2 DEF vars
    <3>2. Reopened(os') = Reopened(os)
      BY <3>1
    <3> QED
      BY <3>1, <3>2
  <2>3. CASE Next /\ PowerCut
    <3>1. left.cuts > 0 /\ left'.cuts = left.cuts - 1
      BY <2>1, <2>3, CutsAreSpent
    <3>2. Reopened(os') \subseteq Reopened(os) /\ acked' = acked
      BY <2>3, PowerCutIsSafe, LostStays DEF FilesInv
    <3>3. acked' \subseteq Data'
      <4>1. (acked \subseteq Data)'
        BY AckedAreFound, PTL
      <4> QED
        BY <4>1
    <3>4. Data' \subseteq Data
      BY <3>2
    <3>5. Store!PowerCut
      BY <3>1, <3>2, <3>3, <3>4 DEF Store!PowerCut
    <3> QED
      BY <3>5 DEF Store!Next
  <2>4. CASE Next /\ ~PowerCut
    <3>1. left'.cuts = left.cuts
      BY <2>1, <2>4, CutsAreSpent
    <3>2. Lost \/ Unchanged \/ (DBInv /\ Grows)
      BY <2>4, StepIsFine DEF FilesInv
    <3>3. CASE Lost
      BY <2>4, <3>1, <3>3, LostStays
    <3>4. CASE Unchanged
      BY <3>1, <3>4 DEF Unchanged
    <3>5. CASE DBInv /\ Grows
      <4>1. issued \in Nat /\ \A r \in Reopened(os) : r.id \in 1..issued
        BY <3>5 DEF DBInv, Counted
      <4>2. issued + 1 \in 1..MaxWrites /\ issued + 1 \notin Data
        BY <3>5, <4>1, FilesAssumption DEF Grows
      <4>3. Data' = Data \cup {issued + 1}
        BY <3>5 DEF Grows
      <4>4. acked' \in {acked, acked \cup {issued + 1}}
        BY <3>5 DEF Grows
      <4>5. PICK w \in 1..MaxWrites : w = issued + 1
        BY <4>2
      <4>6. Store!Write(w)
        BY <3>1, <4>2, <4>3, <4>4, <4>5 DEF Store!Write
      <4> QED
        BY <4>6 DEF Store!Next
    <3> QED
      BY <3>2, <3>3, <3>4, <3>5
  <2> QED
    BY <2>2, <2>3, <2>4
<1> QED
  BY <1>1, <1>2, FilesInvariant, PTL DEF Spec, KeepsWrites, Store!Spec

\* The tables under way, for every value of the constants: DBFiles's TypeOK.
THEOREM FilesTypeOKSafe ==
    ASSUME FsyncLinks, NotTogether
    PROVE  Spec => []TypeOK
<1>1. FilesInv => TypeOK
  <2> SUFFICES ASSUME FilesInv
               PROVE  TypeOK
    OBVIOUS
  <2>1. DOMAIN os.data = DOMAIN os.synced /\ os.dir.files \subseteq DOMAIN os.data
    BY TypedOS DEF FilesInv, DBInv, Lost
  <2>2. CASE DBInv /\ db.phase = "open"
    BY <2>2 DEF DBInv, PhaseInv, Running
  <2>3. CASE db.outputs = {} /\ db.flush = 0 /\ db.merge = NoMerge
    <3>1. db.outputs = {db.flush, db.merge.out} \ {0}
      BY <2>3 DEF NoMerge
    <3>2. db.phase \in {"down", "newdb", "recover", "replay", "opening", "open", "broken"}
      BY DEF FilesInv, DBInv, PhaseInv, Lost, Down
    <3> QED
      BY <2>1, <3>1, <3>2 DEF TypeOK
  <2>4. CASE DBInv /\ db.phase # "open"
    <3>1. PhaseInv
      BY <2>4 DEF DBInv
    <3>2. CASE db.phase \in {"replay", "opening"}
      BY <2>3, <3>1, <3>2 DEF PhaseInv, Replaying, Opening, Prepared, Opens, Fresh
    <3>3. CASE db.phase \notin {"replay", "opening"}
      BY <2>3, <2>4, <3>1, <3>3 DEF PhaseInv, Down
    <3> QED
      BY <3>2, <3>3
  <2>5. CASE Lost
    BY <2>3, <2>5 DEF Lost, Down
  <2> QED
    BY <2>2, <2>4, <2>5 DEF FilesInv
<1> QED
  BY <1>1, FilesInvariant, PTL
=============================================================================
