---------------------------- MODULE UserDefaults ----------------------------
(***************************************************************************)
(* UserDefaults.standard, as ViewController and ShopController use it.     *)
(* The class is Foundation's, not this repository's; what is kept of it is *)
(* what the app relies on:                                                 *)
(*                                                                         *)
(*   - set(_:forKey:) changes the process's own view at once, so that the  *)
(*     integer(forKey:) that follows it reads the value just written;      *)
(*   - the change reaches the property list on disk later, in the order of *)
(*     the writes.  The app never calls synchronize().                     *)
(*                                                                         *)
(* A write is recorded as the whole store it leads to, so the queue of     *)
(* writes on their way to the disk is a sequence of stores.                *)
(***************************************************************************)
EXTENDS Integers, Sequences

CONSTANT MaxUnsaved   \* Bound: the app waits while more writes are queued.

ASSUME MaxUnsavedAssumption == MaxUnsaved \in Nat

VARIABLES
  defaults,   \* what the running process reads
  unsaved,    \* the stores the queued writes lead to, oldest first
  disk        \* the property list that survives the process

storeVars == <<defaults, unsaved, disk>>

\* The five keys the app uses.  integer(forKey:) reads an absent key as 0
\* and bool(forKey:) as false, so an absent key needs no value of its own.
Store == [bool : BOOLEAN, acorn : Int, green : Int, ice : Int, best : Int]

\* The store of an app that was never opened.
FreshInstall ==
  [bool |-> FALSE, acorn |-> 0, green |-> 0, ice |-> 0, best |-> 0]

Opened(store) ==
  /\ defaults = store
  /\ unsaved  = <<>>
  /\ disk     = store

\* One handler's writes, in the order in which it makes them.
Save(stores) ==
  /\ defaults' = stores[Len(stores)]
  /\ unsaved'  = unsaved \o stores
  /\ UNCHANGED disk

\* The preferences daemon puts the oldest queued write on disk.
Synchronize ==
  /\ unsaved # <<>>
  /\ disk'    = Head(unsaved)
  /\ unsaved' = Tail(unsaved)
  /\ UNCHANGED defaults

\* The process is gone and a new one starts: what was queued is lost.
Reopen ==
  /\ defaults' = disk
  /\ unsaved'  = <<>>
  /\ UNCHANGED disk

CaughtUp == Len(unsaved) <= MaxUnsaved

StoreTypeOK ==
  /\ defaults \in Store
  /\ unsaved  \in Seq(Store)
  /\ disk     \in Store

=============================================================================
