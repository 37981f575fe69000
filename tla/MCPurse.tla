------------------------------ MODULE MCPurse -------------------------------
(***************************************************************************)
(* What holds the player's acorns, seen from two sides: ShopController, as *)
(* it is opened by itself, and Wallet, which the whole app implements (see *)
(* App).  A behaviour is one of the one or one of the other, while the     *)
(* other rests in an initial state.                                        *)
(***************************************************************************)
EXTENDS ShopController, Wallet

VARIABLE subject

\* Three children with a tier, the second of which should have been first,
\* one without in between, and another at the end.
MixedCatalog ==
  << [key |-> "a", tier |-> 2], [key |-> "b", tier |-> 1],
     [key |-> "c", tier |-> NoTier], [key |-> "d", tier |-> 3],
     [key |-> "e", tier |-> NoTier] >>

\* From nothing to two purchases and an acorn short of a third.
SomePurses ==
  { [bool |-> TRUE, acorn |-> a, green |-> g, ice |-> 0, best |-> 0] :
      a \in {0, 5, 14}, g \in {0, 1} }

SmallGift == [acorn |-> 2, green |-> 1, ice |-> 1]

\* A new player, one whose gift was cut short, and an old one.
SomeAccounts ==
  { [gifted |-> FALSE, acorn |-> 0, green |-> 0, ice |-> 0],
    [gifted |-> FALSE, acorn |-> 0, green |-> 0, ice |-> 1],
    [gifted |-> TRUE,  acorn |-> 3, green |-> 0, ice |-> 2] }

PurseInit ==
  /\ subject \in {"shop", "wallet"}
  /\ Init /\ WalletInit
  /\ subject = "shop" => owned.gifted
  /\ subject = "wallet" => disk.acorn = 5 /\ disk.green = 0

\* Bound: how much is ever earned, and how far the disk falls behind.
WalletBound == income' <= 9 /\ Len(trail') <= 5

PurseNext ==
  /\ UNCHANGED subject
  /\ \/ subject = "shop" /\ Next /\ UNCHANGED walletState
     \/ /\ subject = "wallet" /\ WalletNext /\ WalletBound
        /\ UNCHANGED <<shopVars, storeVars>>

PurseSpec == PurseInit /\ [][PurseNext]_<<subject, shopVars, storeVars, walletState>>

=============================================================================
