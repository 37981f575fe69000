------------------------------ MODULE Commits ------------------------------
(***************************************************************************)
(* What DB::Write promises the threads that call it: each call takes       *)
(* effect at one moment between its start and its return, whole or not at  *)
(* all, in the order in which the calls started, and its status says       *)
(* whether it did (include/leveldb/db.h:63-84, write_batch.h:5-20).        *)
(***************************************************************************)
EXTENDS Integers, Sequences

CONSTANTS Threads, Batches, NoWrite

VARIABLES queue,      \* <<thread, batch or NoWrite>> not yet in effect, oldest first
          outcome,    \* thread -> "none", "pending", "ok" or "error"
          committed   \* the writes in effect, in order

vars == <<queue, outcome, committed>>

Init ==
    /\ queue = <<>> /\ committed = <<>>
    /\ outcome = [t \in Threads |-> "none"]

Call(t) ==
    /\ outcome[t] = "none"
    /\ \E b \in Batches \cup {NoWrite} : queue' = Append(queue, <<t, b>>)
    /\ outcome' = [outcome EXCEPT ![t] = "pending"]
    /\ UNCHANGED committed

First(n) == {queue[i][1] : i \in 1..n}

\* The writes in effect when the oldest n calls are. A call without a batch adds
\* nothing.
Taken(n) ==
    LET With[i \in 0..n] ==
            IF i = 0 THEN committed
            ELSE IF queue[i][2] = NoWrite THEN With[i-1] ELSE Append(With[i-1], queue[i][2])
    IN  With[n]

\* The oldest calls take effect together, or fail together.
Resolve(n, status) ==
    /\ queue' = SubSeq(queue, n + 1, Len(queue))
    /\ outcome' = [t \in Threads |-> IF t \in First(n) THEN status ELSE outcome[t]]
    /\ committed' = IF status = "ok" THEN Taken(n) ELSE committed

Return(t) ==
    /\ outcome[t] \in {"ok", "error"}
    /\ outcome' = [outcome EXCEPT ![t] = "none"]
    /\ UNCHANGED <<queue, committed>>

Next ==
    \/ \E t \in Threads : Call(t) \/ Return(t)
    \/ \E n \in 1..Len(queue), status \in {"ok", "error"} : Resolve(n, status)

Spec == Init /\ [][Next]_vars
=============================================================================
