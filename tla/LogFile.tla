------------------------------ MODULE LogFile ------------------------------
(***************************************************************************)
(* The write-ahead log of LevelDB: db/log_format.h, db/log_writer.cc and   *)
(* db/log_reader.cc. The same format holds the log of the memtable and the *)
(* MANIFEST. A file is a sequence of blocks of kBlockSize bytes; a record  *)
(* is cut into fragments, each behind a header of kHeaderSize bytes, none  *)
(* across a block boundary.                                                *)
(*                                                                         *)
(* The header has one byte per field here (checksum, length, type; seven   *)
(* in the code), so kHeaderSize is 3. A checksum byte holds what the       *)
(* checksum covers: only the bytes it was computed from match it. The      *)
(* payload of a record is a number of its own, repeated.                   *)
(***************************************************************************)
EXTENDS Integers, Sequences, SequencesExt

CONSTANTS kBlockSize, kHeaderSize,
          Sizes,           \* payload sizes of the records that are added
          InitialOffsets,  \* where a reader may be asked to start
          Garbage,         \* what a damaged byte may turn into
          MaxRecords,      \* bound: records added to the file
          MaxMishaps,      \* bound: deaths, failed appends and damaged bytes
          Reuse            \* options.reuse_logs

VARIABLES file,          \* the bytes of the file
          block_offset,  \* of the writer: where it believes it is in its block
          records,       \* history: what was acknowledged, where it lies, and whether
                         \* the writer was where it believed to be
          damaged,       \* history: the places of damaged bytes
          crashes,       \* history: how the process or the machine died
          failures,      \* appends the file system failed
          reader         \* the reader, NoReader while the file is written

vars == <<file, block_offset, records, damaged, crashes, failures, reader>>

kZeroType == 0
kFullType == 1
kFirstType == 2
kMiddleType == 3
kLastType == 4
kEof == 5
kBadRecord == 6

Num(n) == <<"num", n>>
Crc(type, fragment) == <<"crc", <<type, fragment>>>>
NoReader == [phase |-> "none"]

-----------------------------------------------------------------------------
(* The writer.                                                             *)

FragmentType(begin, end) ==
    IF begin THEN (IF end THEN kFullType ELSE kFirstType)
             ELSE (IF end THEN kLastType ELSE kMiddleType)

EmitPhysicalRecord(type, fragment) ==
    <<Crc(type, fragment), Num(Len(fragment)), Num(type)>> \o fragment

\* AddRecord's loop: the byte strings handed to the file one after the other,
\* the trailer of a block with the record that follows it.
AddRecord(data, offset) ==
    LET Emit[left \in 0..Len(data), at \in 0..kBlockSize, begin \in BOOLEAN] ==
          LET leftover == kBlockSize - at
              trailer == IF leftover < kHeaderSize
                         THEN [i \in 1..leftover |-> Num(0)] ELSE <<>>
              start == IF leftover < kHeaderSize THEN 0 ELSE at
              avail == kBlockSize - start - kHeaderSize
              n == IF left < avail THEN left ELSE avail
              done == Len(data) - left
              bytes == trailer \o EmitPhysicalRecord(
                           FragmentType(begin, left = n), SubSeq(data, done + 1, done + n))
          IN  IF left = n THEN <<bytes>>
              ELSE <<bytes>> \o Emit[left - n, start + kHeaderSize + n, FALSE]
    IN  Emit[Len(data), offset, TRUE]

\* A block_offset of kBlockSize is kept as 0: both make the next record start a
\* block and neither writes a trailer.
Advance(offset, bytes) == (offset + Len(bytes)) % kBlockSize

NewData(n) == [i \in 1..n |-> Num(100 + 10 * (Len(crashes) + failures) + Len(records))]

\* The next process goes on with the file of the last one only under reuse_logs
\* (modelled where the file ends in what that process wrote).
Writable ==
    /\ reader = NoReader /\ Len(records) < MaxRecords
    /\ crashes = <<>> \/ (Reuse /\ ToSet(crashes) = {"torn"})

\* All that has gone wrong so far.
Mishaps == Len(crashes) + failures + Len(damaged)

\* A record whose status is OK.
Add(n) ==
    /\ Writable
    /\ LET data == NewData(n)
           bytes == FlattenSeq(AddRecord(data, block_offset))
           \* the trailer, if any, is not part of the record
           skip == IF kBlockSize - block_offset < kHeaderSize
                   THEN kBlockSize - block_offset ELSE 0
       IN  /\ file' = file \o bytes
           /\ block_offset' = Advance(block_offset, bytes)
           /\ records' = Append(records, [data |-> data, start |-> Len(file) + skip,
                                          end |-> Len(file) + Len(bytes),
                                          sound |-> crashes = <<>> /\ failures = 0])
    /\ UNCHANGED <<damaged, crashes, failures, reader>>

\* dest_->Append or Flush fails in the j-th physical record after k of its bytes
\* reached the file: the record is not acknowledged, and block_offset_ is moved
\* by the whole of it.
AddFails(n) ==
    /\ Writable /\ Mishaps < MaxMishaps
    /\ LET parts == AddRecord(NewData(n), block_offset)
       IN  \E j \in DOMAIN parts : \E k \in 0..Len(parts[j]) - 1 :
             /\ file' = file \o FlattenSeq(SubSeq(parts, 1, j - 1)) \o SubSeq(parts[j], 1, k)
             /\ block_offset' = Advance(block_offset, FlattenSeq(SubSeq(parts, 1, j)))
    /\ failures' = failures + 1
    /\ UNCHANGED <<records, damaged, crashes, reader>>

-----------------------------------------------------------------------------
(* What happens to the file between a writer and a reader.                 *)

\* The process dies inside AddRecord: any part of a record no caller was told
\* of. A process that reuses the file places its writer by the file's length.
Torn ==
    /\ Writable /\ Mishaps < MaxMishaps
    /\ \E n \in Sizes :
         LET bytes == FlattenSeq(AddRecord(NewData(n), block_offset))
         IN  \E k \in 0..Len(bytes) - 1 : file' = file \o SubSeq(bytes, 1, k)
    /\ block_offset' = Len(file') % kBlockSize
    /\ crashes' = Append(crashes, "torn")
    /\ UNCHANGED <<records, damaged, failures, reader>>

\* The machine dies: the file keeps a part of what was not synced; the file
\* system may have extended it with zeros.
PowerCut ==
    /\ reader = NoReader /\ Mishaps < MaxMishaps
    /\ \E k \in 0..Len(file) - 1, zeros \in {0, kHeaderSize} :
         /\ file' = SubSeq(file, 1, k) \o [i \in 1..zeros |-> Num(0)]
         /\ records' = SelectSeq(records, LAMBDA r : r.end <= k)
         /\ crashes' = Append(crashes, IF zeros = 0 THEN "cut" ELSE "zeros")
    /\ UNCHANGED <<block_offset, damaged, failures, reader>>

\* A byte rots.
Damage ==
    /\ reader = NoReader /\ Mishaps < MaxMishaps
    /\ \E p \in DOMAIN file, g \in Garbage :
          /\ file[p] # Num(g)
          /\ file' = [file EXCEPT ![p] = Num(g)]
          /\ damaged' = Append(damaged, p)
    /\ UNCHANGED <<block_offset, records, crashes, failures, reader>>

-----------------------------------------------------------------------------
(* The reader. end is end_of_buffer_offset_, which is also the position of *)
(* the file: both start at the first block and move by what is read.       *)

\* Reader::Reader and SkipToInitialBlock, which the first ReadRecord calls.
FirstBlock(offset) ==
    LET inBlock == offset % kBlockSize
    IN  IF inBlock > kBlockSize - (kHeaderSize - 1)
        THEN offset - inBlock + kBlockSize ELSE offset - inBlock

Open(offset) ==
    /\ reader = NoReader
    /\ reader' = [phase |-> "reading", initial |-> offset, end |-> FirstBlock(offset),
                  buffer |-> <<>>, eof |-> FALSE, resyncing |-> offset > 0,
                  fragmented |-> FALSE, scratch |-> <<>>, at |-> 0,
                  out |-> <<>>, drops |-> 0]
    /\ UNCHANGED <<file, block_offset, records, damaged, crashes, failures>>

Refilled(r) ==
    IF Len(r.buffer) >= kHeaderSize \/ r.eof THEN r
    ELSE LET block == SubSeq(file, r.end + 1,
                             IF r.end + kBlockSize < Len(file) THEN r.end + kBlockSize ELSE Len(file))
         IN  [r EXCEPT !.buffer = block, !.end = @ + Len(block), !.eof = Len(block) < kBlockSize]

Cleared(r) == [r EXCEPT !.buffer = <<>>]

\* ReportDrop is silent about bytes before initial_offset_; the subtraction is
\* unsigned, so that a negative result counts as a large one.
ReportDrop(r, bytes) ==
    LET from == r.end - Len(r.buffer) - bytes
    IN  IF from < 0 \/ from >= r.initial THEN [r EXCEPT !.drops = @ + 1] ELSE r

\* What the three bytes at the head of the buffer may be read as.
Headers(b) ==
    [length : IF b[2][1] = "num" THEN {b[2][2]} ELSE 0..kBlockSize,
     type   : IF b[3][1] = "num" THEN {b[3][2]} ELSE {255}]

\* Mutant of Physical: a torn tail is reported.
PhysicalLoud(r, h) ==
    LET size == kHeaderSize + h.length
        fragment == SubSeq(r.buffer, kHeaderSize + 1, size)
        rest == [r EXCEPT !.buffer = SubSeq(@, size + 1, Len(@))]
        Result(type, bytes, next) == [type |-> type, fragment |-> bytes, r |-> next]
    IN  CASE size > Len(r.buffer) ->
               Result(kBadRecord, <<>>, ReportDrop(Cleared(r), Len(r.buffer)))
          [] size <= Len(r.buffer) /\ h.type = kZeroType /\ h.length = 0 ->
               Result(kBadRecord, <<>>, Cleared(r))
          [] size <= Len(r.buffer) /\ ~(h.type = kZeroType /\ h.length = 0)
               /\ r.buffer[1] # Crc(h.type, fragment) ->
               Result(kBadRecord, <<>>, ReportDrop(Cleared(r), Len(r.buffer)))
          [] OTHER ->
               IF rest.end - Len(rest.buffer) - size < r.initial
               THEN Result(kBadRecord, <<>>, rest)
               ELSE Result(h.type, fragment, rest)

\* ReadPhysicalRecord: the result and the reader after it.
Physical(r, h) ==
    LET size == kHeaderSize + h.length
        fragment == SubSeq(r.buffer, kHeaderSize + 1, size)
        rest == [r EXCEPT !.buffer = SubSeq(@, size + 1, Len(@))]
        Result(type, bytes, next) == [type |-> type, fragment |-> bytes, r |-> next]
    IN  CASE size > Len(r.buffer) ->
               IF r.eof THEN Result(kEof, <<>>, Cleared(r))
               ELSE Result(kBadRecord, <<>>, ReportDrop(Cleared(r), Len(r.buffer)))
          [] size <= Len(r.buffer) /\ h.type = kZeroType /\ h.length = 0 ->
               Result(kBadRecord, <<>>, Cleared(r))
          [] size <= Len(r.buffer) /\ ~(h.type = kZeroType /\ h.length = 0)
               /\ r.buffer[1] # Crc(h.type, fragment) ->
               Result(kBadRecord, <<>>, ReportDrop(Cleared(r), Len(r.buffer)))
          [] OTHER ->
               IF rest.end - Len(rest.buffer) - size < r.initial
               THEN Result(kBadRecord, <<>>, rest)
               ELSE Result(h.type, fragment, rest)

ReadPhysicalRecord(r) ==
    LET f == Refilled(r)
    IN  IF Len(f.buffer) < kHeaderSize
        THEN {[type |-> kEof, fragment |-> <<>>, r |-> Cleared(f)]}
        ELSE {Physical(f, h) : h \in Headers(f.buffer)}

Return(r, record, at) ==
    [r EXCEPT !.out = Append(@, [data |-> record, at |-> at]),
              !.fragmented = FALSE, !.scratch = <<>>]

\* Mutant of Switch: a bad record does not end the record under way.
SwitchKeeps(p) ==
    LET r == p.r
        at == r.end - Len(r.buffer) - kHeaderSize - Len(p.fragment)
        Partial == IF r.fragmented /\ r.scratch # <<>>
                   THEN ReportDrop(r, Len(r.scratch)) ELSE r
    IN  CASE p.type = kFullType -> Return(Partial, p.fragment, at)
          [] p.type = kFirstType ->
               [Partial EXCEPT !.fragmented = TRUE, !.scratch = p.fragment, !.at = at]
          [] p.type = kMiddleType ->
               IF r.fragmented THEN [r EXCEPT !.scratch = @ \o p.fragment]
               ELSE ReportDrop(r, Len(p.fragment))
          [] p.type = kLastType ->
               IF r.fragmented THEN Return(r, r.scratch \o p.fragment, r.at)
               ELSE ReportDrop(r, Len(p.fragment))
          [] p.type = kEof -> [r EXCEPT !.phase = "end", !.fragmented = FALSE, !.scratch = <<>>]
          [] p.type = kBadRecord ->
               r
          [] OTHER ->
               [ReportDrop(r, Len(p.fragment) + Len(r.scratch))
                    EXCEPT !.fragmented = FALSE, !.scratch = <<>>]

\* The switch of ReadRecord. A record that is returned ends the call; the next
\* call starts with in_fragmented_record false and scratch empty.
Switch(p) ==
    LET r == p.r
        at == r.end - Len(r.buffer) - kHeaderSize - Len(p.fragment)
        Partial == IF r.fragmented /\ r.scratch # <<>>
                   THEN ReportDrop(r, Len(r.scratch)) ELSE r
    IN  CASE p.type = kFullType -> Return(Partial, p.fragment, at)
          [] p.type = kFirstType ->
               [Partial EXCEPT !.fragmented = TRUE, !.scratch = p.fragment, !.at = at]
          [] p.type = kMiddleType ->
               IF r.fragmented THEN [r EXCEPT !.scratch = @ \o p.fragment]
               ELSE ReportDrop(r, Len(p.fragment))
          [] p.type = kLastType ->
               IF r.fragmented THEN Return(r, r.scratch \o p.fragment, r.at)
               ELSE ReportDrop(r, Len(p.fragment))
          [] p.type = kEof -> [r EXCEPT !.phase = "end", !.fragmented = FALSE, !.scratch = <<>>]
          [] p.type = kBadRecord ->
               IF r.fragmented
               THEN [ReportDrop(r, Len(r.scratch)) EXCEPT !.fragmented = FALSE, !.scratch = <<>>]
               ELSE r
          [] OTHER ->
               [ReportDrop(r, Len(p.fragment) + Len(r.scratch))
                    EXCEPT !.fragmented = FALSE, !.scratch = <<>>]

\* One turn of ReadRecord's loop.
ReadRecord ==
    /\ reader.phase = "reading"
    /\ \E p \in ReadPhysicalRecord(reader) :
         reader' = IF p.r.resyncing /\ p.type \in {kMiddleType, kLastType}
                   THEN [p.r EXCEPT !.resyncing = p.type = kMiddleType]
                   ELSE Switch([p EXCEPT !.r.resyncing = FALSE])
    /\ UNCHANGED <<file, block_offset, records, damaged, crashes, failures>>

-----------------------------------------------------------------------------
Init ==
    /\ file = <<>> /\ block_offset = 0
    /\ records = <<>> /\ damaged = <<>>
    /\ crashes = <<>> /\ failures = 0
    /\ reader = NoReader

Next ==
    \/ \E n \in Sizes : Add(n) \/ AddFails(n)
    \/ Torn
    \/ PowerCut
    \/ Damage
    \/ \E offset \in InitialOffsets : Open(offset)
    \/ ReadRecord

Spec == Init /\ [][Next]_vars

-----------------------------------------------------------------------------
(* Properties.                                                             *)

AtEnd == reader.phase = "end"

\* The places and contents of what was read.
Read == {reader.out[i] : i \in DOMAIN reader.out}

\* The records acknowledged and never cut off are known by where they start.
Entry(r) == [data |-> r.data, at |-> r.start]

Block(p) == (p - 1) \div kBlockSize

\* Whatever was torn off, filled with zeros, damaged or written behind a torn
\* record, a reader returns nothing but whole records, in the order in which they
\* were added: no fragments of two records are joined and no garbage passes for a
\* record (log_reader.cc:253-267).
OnlyWholeRecords ==
    reader # NoReader =>
        /\ Read \subseteq {Entry(records[i]) : i \in DOMAIN records}
        /\ \A i \in 2..Len(reader.out) : reader.out[i-1].at < reader.out[i].at

\* A damaged byte takes with it only records that have a byte in its block
\* (log_reader.cc:257-261): the blocks are where the reader finds its feet again.
Damaged(r) == \E d \in DOMAIN damaged : Block(damaged[d]) \in Block(r.start + 1)..Block(r.end)

\* Every record the caller was told is written, that lies wholly in what the
\* crash left of the file and starts where the reader was asked to start or later
\* (log_reader.h:41-42), is read back, and none before it.  Not so a record that
\* was added behind a torn one: see the README on reuse_logs and failed appends.
AcknowledgedIsRead ==
    (AtEnd /\ (damaged = <<>> \/ reader.initial = 0)) =>
        \A i \in DOMAIN records :
            IF records[i].start < reader.initial THEN Entry(records[i]) \notin Read
            ELSE records[i].sound => Entry(records[i]) \in Read \/ Damaged(records[i])

\* log_reader.cc:217-220 and 239-241: a writer that died, or had an append fail,
\* and whose file nobody went on with, is no corruption.
TornTailIsQuiet ==
    (AtEnd /\ reader.initial = 0 /\ reader.drops > 0) =>
        \/ damaged # <<>> \/ "zeros" \in ToSet(crashes)
        \/ \E i \in DOMAIN records : ~records[i].sound

\* log_reader.h:76-78: after a seek, what is left of the record that was cut by
\* it is skipped silently.
SeekIsQuiet == (AtEnd /\ damaged = <<>>) => reader.drops = 0
=============================================================================
