------------------------------- MODULE Cursor -------------------------------
(***************************************************************************)
(* What an iterator promises (the comments of include/leveldb/iterator.h): *)
(* it stands at a key of its source or nowhere, and each call moves it to  *)
(* the one key the call names.  The iterators of LevelDB are built on each *)
(* other; each is shown to implement this specification.                   *)
(***************************************************************************)
EXTENDS Ordered

CONSTANT Targets       \* what Seek is called with

VARIABLES contents,    \* the keys of the source
          at,          \* the key the iterator is at, or None
          call         \* what its user called last, by name, and Seek's target

vars == <<contents, at, call>>

Init == at = None /\ call = <<"none">>

Valid == at # None

SeekToFirst == call' = <<"SeekToFirst">> /\ at' = Least(contents)

SeekToLast == call' = <<"SeekToLast">> /\ at' = Greatest(contents)

Seek(target) == call' = <<"Seek", target>> /\ at' = FirstFrom(contents, target)

Next == call' = <<"Next">> /\ Valid /\ at' = After(contents, at)

Prev == call' = <<"Prev">> /\ Valid /\ at' = Before(contents, at)

Move ==
    /\ \/ SeekToFirst \/ SeekToLast \/ Next \/ Prev
       \/ \E target \in Targets : Seek(target)
    /\ UNCHANGED contents

Spec == Init /\ [][Move]_vars
=============================================================================
