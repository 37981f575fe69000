-------------------------- MODULE MCViewController --------------------------
(***************************************************************************)
(* Small instances of ViewController for TLC.                              *)
(***************************************************************************)
EXTENDS ViewController

\* One of each instead of 20 acorns and 5 power-ups of each kind.
SmallGift == [acorn |-> 1, green |-> 1, ice |-> 1]

\* A first launch, a first launch cut short after its first write, and a
\* later one that finds a best score.
SomeStores ==
  { FreshInstall,
    [FreshInstall EXCEPT !.ice = 1],
    [bool |-> TRUE, acorn |-> 1, green |-> 0, ice |-> 1, best |-> 1] }

OneStore == {[bool |-> TRUE, acorn |-> 0, green |-> 1, ice |-> 1, best |-> 0]}

=============================================================================
