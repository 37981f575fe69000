------------------------------- MODULE DBIter -------------------------------
(***************************************************************************)
(* DBIter (db/db_iter.cc): what a user of the database iterates over. The  *)
(* internal iterator under it shows every write; DBIter shows one entry    *)
(* for each key that has a value at its sequence number.                   *)
(*                                                                         *)
(* A write is a user key and a kind, its sequence number its place in the  *)
(* log; its value is its sequence number.  The internal iterator keeps the *)
(* promise of Cursor over the internal keys that compactions left, ordered *)
(* by user key and then from the newest to the oldest.  An entry may have  *)
(* a type tag that does not parse.  Sampling for RecordReadSample is left  *)
(* out: it changes nothing here.                                           *)
(***************************************************************************)
EXTENDS Ordered, Sequences, FiniteSets

CONSTANTS Keys,           \* of the user
          MaxWrites,      \* bound: writes in the log
          Kinds           \* of the writes: value, deletion, or corrupt

VARIABLES log,            \* the writes, by sequence number
          sequence,       \* sequence_: what the iterator may see
          iter,           \* the members
          call            \* history: the last call

vars == <<log, sequence, iter, call>>

\* Internal keys as numbers, in the order of InternalKeyComparator.
Width == MaxWrites + 2
InternalKey(key, seq) == key * Width + (MaxWrites + 1 - seq)
UserKey(ikey) == ikey \div Width
SeqOf(ikey) == MaxWrites + 1 - (ikey % Width)
Kind(ikey) == log[SeqOf(ikey)].kind

Internal == {InternalKey(log[s].key, s) : s \in DOMAIN log}

-----------------------------------------------------------------------------
(* The internal iterator, iter.at.                                         *)

IterValid(it) == it.at # None
IterFirst(it) == [it EXCEPT !.at = Least(Internal)]
IterLast(it) == [it EXCEPT !.at = Greatest(Internal)]
IterSeek(it, ikey) == [it EXCEPT !.at = FirstFrom(Internal, ikey)]
IterNext(it) == [it EXCEPT !.at = After(Internal, it.at)]
IterPrev(it) == [it EXCEPT !.at = Before(Internal, it.at)]

-----------------------------------------------------------------------------
(* saved_key_ and saved_value_ are 0 when cleared.                         *)

Parses(it) == Kind(it.at) # "corrupt"

\* ParseKey: the status remembers an entry that does not parse.
ParseKey(it) == [it EXCEPT !.ok = it.ok /\ Parses(it)]

Seen(it) == Parses(it) /\ SeqOf(it.at) <= sequence

NoEntry(it) == [it EXCEPT !.valid = FALSE, !.saved_key = 0]

\* FindNextUserEntry's loop, at a valid internal iterator: skip is 0 when it
\* is not skipping.
RECURSIVE FindNextUserEntry(_, _)
FindNextUserEntry(it, skip) ==
    IF ~IterValid(it) THEN NoEntry(it)
    ELSE IF Seen(it) /\ Kind(it.at) = "value" /\ (skip = 0 \/ UserKey(it.at) > skip)
         THEN [it EXCEPT !.valid = TRUE, !.saved_key = 0]
         ELSE FindNextUserEntry(IterNext(ParseKey(it)),
                  IF Seen(it) /\ Kind(it.at) = "deletion" THEN UserKey(it.at) ELSE skip)

\* FindPrevUserEntry's loop: found is whether the entry last seen is a value.
RECURSIVE FindPrevLoop(_, _)
FindPrevLoop(it, found) ==
    IF ~IterValid(it) THEN [it |-> it, found |-> found]
    ELSE IF ~Seen(it) THEN FindPrevLoop(IterPrev(ParseKey(it)), found)
    ELSE IF found /\ UserKey(it.at) < it.saved_key THEN [it |-> it, found |-> found]
    ELSE IF Kind(it.at) = "deletion"
         THEN FindPrevLoop(IterPrev([it EXCEPT !.saved_key = 0, !.saved_value = 0]), FALSE)
         ELSE FindPrevLoop(IterPrev([it EXCEPT !.saved_key = UserKey(it.at),
                                               !.saved_value = SeqOf(it.at)]), TRUE)

FindPrevUserEntry(it) ==
    LET end == FindPrevLoop(it, FALSE) IN
    IF end.found THEN [end.it EXCEPT !.valid = TRUE]
    ELSE [NoEntry(end.it) EXCEPT !.saved_value = 0, !.forward = TRUE]

\* Prev turns round: back until the user key changes.
RECURSIVE ScanBack(_)
ScanBack(it) ==
    IF IterValid(it) /\ UserKey(it.at) >= it.saved_key THEN ScanBack(IterPrev(it)) ELSE it

Key(it) == IF it.forward THEN UserKey(it.at) ELSE it.saved_key
Value(it) == IF it.forward THEN SeqOf(it.at) ELSE it.saved_value

-----------------------------------------------------------------------------
Start == [at |-> None, forward |-> TRUE, valid |-> FALSE,
          saved_key |-> 0, saved_value |-> 0, ok |-> TRUE]

Init ==
    /\ log \in UNION {[1..n -> [key : Keys, kind : Kinds]] : n \in 0..MaxWrites}
    /\ sequence \in 0..Len(log)
    /\ iter = Start
    /\ call = <<"none">>

Move(name, it) ==
    /\ iter' = it
    /\ call' = name
    /\ UNCHANGED <<log, sequence>>

Cleared == [iter EXCEPT !.forward = TRUE, !.saved_value = 0]

\* From a valid internal iterator, the first entry to show.
FromHere(it) ==
    IF IterValid(it) THEN FindNextUserEntry(it, 0) ELSE [it EXCEPT !.valid = FALSE]

SeekToFirst == Move(<<"SeekToFirst">>, FromHere(IterFirst(Cleared)))

Seek(target) ==
    Move(<<"Seek", target>>, FromHere(IterSeek(Cleared, InternalKey(target, sequence))))

SeekToLast ==
    Move(<<"SeekToLast">>,
         FindPrevUserEntry(IterLast([Cleared EXCEPT !.forward = FALSE])))

NextForward(it) == FindNextUserEntry(it, UserKey(it.at))

\* iter_ is just before the entries of the current key; step onto them.
IntoEntries(it) == IF IterValid(it) THEN IterNext(it) ELSE IterFirst(it)

Next ==
    /\ iter.valid
    /\ Move(<<"Next">>,
            IF iter.forward THEN NextForward(iter)
            ELSE FindNextUserEntry(IntoEntries([iter EXCEPT !.forward = TRUE]), iter.saved_key))

PrevForward(it) ==
    LET back == ScanBack([it EXCEPT !.saved_key = UserKey(it.at)]) IN
    IF ~IterValid(back) THEN [NoEntry(back) EXCEPT !.saved_value = 0]
    ELSE FindPrevUserEntry([back EXCEPT !.forward = FALSE])

Prev ==
    /\ iter.valid
    /\ Move(<<"Prev">>, IF iter.forward THEN PrevForward(iter) ELSE FindPrevUserEntry(iter))

Step == SeekToFirst \/ SeekToLast \/ Next \/ Prev \/ \E target \in Keys : Seek(target)

Spec == Init /\ [][Step]_vars

-----------------------------------------------------------------------------
(* The members keep their types.                                           *)
TypeOK ==
    /\ iter.at \in Internal \cup {None}
    /\ {iter.forward, iter.valid, iter.ok} \subseteq BOOLEAN
    /\ iter.valid => (iter.forward => IterValid(iter)) /\ Key(iter) \in Keys
    /\ iter.saved_key \in Keys \cup {0} /\ iter.saved_value \in 0..Len(log)

\* The user's view at sequence_: the newest visible write of a key.
Visible(key) == {s \in 1..sequence : log[s].key = key /\ log[s].kind # "corrupt"}
Newest(key) == Greatest(Visible(key))
Shown == {k \in Keys : Visible(k) # {} /\ log[Newest(k)].kind = "value"}

Yields == INSTANCE Cursor WITH
    Targets <- Keys, contents <- Shown, at <- IF iter.valid THEN Key(iter) ELSE None

\* Whatever lies between - overwritten and deleted entries, later writes,
\* entries that do not parse - the iterator moves over the keys with a value,
\* one at a time, in both directions and round every turn (db_iter.cc).
IsCursor == Yields!Spec

\* The value shown is the newest one the snapshot holds, also on the way back.
ValueIsNewest == iter.valid => Value(iter) = Newest(Key(iter))

\* An entry of the snapshot that does not parse is passed over, but status()
\* tells of it before the iterator shows what lies behind it.
Past(p, i) == p = None \/ p < i
Short(i, p) == p = None \/ i < p
Passed(i) ==
    CASE call'[1] = "SeekToFirst" -> Short(i, iter'.at)
      [] call'[1] = "SeekToLast" -> Past(iter'.at, i)
      [] call'[1] = "Seek" -> InternalKey(call'[2], sequence) <= i /\ Short(i, iter'.at)
      [] call'[1] = "Next" -> Past(iter.at, i) /\ Short(i, iter'.at)
      [] call'[1] = "Prev" -> iter.at # None /\ i < iter.at /\ Past(iter'.at, i)
      [] call'[1] = "none" -> FALSE
CorruptionTold ==
    [][\A i \in Internal :
         Kind(i) = "corrupt" /\ SeqOf(i) <= sequence /\ Passed(i) => ~iter'.ok]_vars
=============================================================================
