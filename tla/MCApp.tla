------------------------------- MODULE MCApp --------------------------------
(***************************************************************************)
(* Small instances of App for TLC.                                         *)
(***************************************************************************)
EXTENDS App

\* One of each instead of 20 acorns and 5 power-ups of each kind.
SmallGift == [acorn |-> 1, green |-> 1, ice |-> 1]

\* A first launch, one cut short after its first write, and a later one.
SomeStores ==
  { FreshInstall,
    [FreshInstall EXCEPT !.ice = 1],
    [bool |-> TRUE, acorn |-> 1, green |-> 0, ice |-> 1, best |-> 0] }

\* One row for each kind of power-up.
TwoPowerUps == << [key |-> "a", tier |-> 1], [key |-> "b", tier |-> 2] >>

=============================================================================
