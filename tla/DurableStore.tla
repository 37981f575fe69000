---------------------------- MODULE DurableStore ----------------------------
(***************************************************************************)
(* What a database that logs its writes promises about crashes             *)
(* (include/leveldb/options.h:181-200): a write is never undone by the     *)
(* death of the process, and the machine's takes none that was             *)
(* acknowledged with sync.                                                 *)
(***************************************************************************)
EXTENDS Naturals

CONSTANT Writes

VARIABLES data,     \* the writes a process started now would find
          durable,  \* those that no crash may take away
          cuts      \* how often the power may still be cut

vars == <<data, durable, cuts>>

Init == data = {} /\ durable = {} /\ cuts \in Nat

\* A write reaches the store; it is durable if it was acknowledged with sync.
Write(w) ==
    /\ w \notin data
    /\ data' = data \cup {w}
    /\ durable' \in {durable, durable \cup {w}}
    /\ UNCHANGED cuts

\* The one step that may lose writes.
PowerCut ==
    /\ cuts > 0 /\ cuts' = cuts - 1
    /\ data' \subseteq data /\ durable \subseteq data'
    /\ UNCHANGED durable

Next == (\E w \in Writes : Write(w)) \/ PowerCut

Spec == Init /\ [][Next]_vars
=============================================================================
