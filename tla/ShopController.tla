--------------------------- MODULE ShopController ---------------------------
(***************************************************************************)
(* The shop (ShopController.swift): the list of power-ups Firebase sends   *)
(* it one by one (APIService.observePowerUps), and the purchases, which it *)
(* makes on its own copies of the counters.  The copies are handed over by *)
(* prepare(for:sender:) of the game screen and never read from the store   *)
(* again.                                                                  *)
(*                                                                         *)
(* A power-up is what the shop's logic looks at: the key of its Firebase   *)
(* child and its tier, if it has one.                                      *)
(***************************************************************************)
EXTENDS UserDefaults

LOCAL INSTANCE SequencesExt

CONSTANTS
  Price,        \* acorns a power-up costs, whatever it says (5 in the source)
  Catalog,      \* the children of "power-ups", in Firebase's order
  NoTier,       \* the tier of a power-up that has none
  OpeningStores,\* what the store may hold when the shop is opened by itself
  MaxPowerUps   \* Bound: the player owns no more of a kind.

ASSUME ShopControllerAssumption ==
  /\ Price \in Nat
  /\ MaxPowerUps \in Nat
  /\ Len(Catalog) \in Nat
  /\ \A i \in DOMAIN Catalog : Catalog[i].tier \in Nat \cup {NoTier}
  /\ OpeningStores \subseteq Store
  /\ \A store \in OpeningStores :
       /\ store.acorn >= 0 /\ store.green >= 0 /\ store.ice >= 0
       /\ store.best >= 0

VARIABLES
  acornNumber, greenNumber, iceNumber,  \* its copies of the counters
  delivered,                            \* children Firebase has sent so far
  powerUps                              \* the rows of the collection view

purseVars == <<acornNumber, greenNumber, iceNumber>>
shopVars  == <<purseVars, delivered, powerUps>>

-----------------------------------------------------------------------------
(* The rows.                                                               *)

\* The comparison given to sorted(by:).  It reads the tier of its first
\* argument twice and that of its second never, so that it orders nothing: the
\* rows are in order of arrival, but for a child without a tier, which goes in
\* front of them all.
Precedes(p1, p2) == p1.tier = NoTier \/ p1.tier < p1.tier

\* sorted(by:) of fewer than twenty elements: each element moves up past
\* those it precedes.
InsertPowerUp(rows, powerUp) ==
  LET staysBelow == {i \in DOMAIN rows : ~Precedes(powerUp, rows[i])}
  IN  InsertAt(rows, Max(staysBelow \cup {0}) + 1, powerUp)

Sorted(rows) == FoldLeft(InsertPowerUp, <<>>, rows)

\* A .childAdded event: the callback of observePowerUps.
PowerUpAdded ==
  /\ delivered < Len(Catalog)
  /\ delivered' = delivered + 1
  /\ powerUps'  = Sorted(Append(powerUps, Catalog[delivered + 1]))
  /\ UNCHANGED <<purseVars, storeVars>>

-----------------------------------------------------------------------------
(* The purchase.                                                           *)

\* The first row is the green power-up and every other one is the ice.
BoughtAt(row) == IF row = 1 THEN "green" ELSE "ice"

\* Mutant of Receipt: the power-up is written before the acorns are.
ReceiptGoodsFirst(kind, number) ==
  LET goods == [defaults EXCEPT ![kind] = number]
  IN  <<goods, [goods EXCEPT !.acorn = acornNumber - Price]>>

\* Two writes: the acorns, and then the power-up.
Receipt(kind, number) ==
  LET paid == [defaults EXCEPT !.acorn = acornNumber - Price]
  IN  <<paid, [paid EXCEPT ![kind] = number]>>

\* Mutant of BuyGreen: the store's own counter is raised, not the copy.
BuyGreenBlind ==
  /\ greenNumber < MaxPowerUps
  /\ Save(Receipt("green", defaults.green + 1))
  /\ UNCHANGED <<greenNumber, iceNumber>>

BuyGreen ==
  /\ greenNumber < MaxPowerUps
  /\ greenNumber' = greenNumber + 1
  /\ Save(Receipt("green", greenNumber + 1))
  /\ UNCHANGED iceNumber

BuyIce ==
  /\ iceNumber < MaxPowerUps
  /\ iceNumber' = iceNumber + 1
  /\ Save(Receipt("ice", iceNumber + 1))
  /\ UNCHANGED greenNumber

\* Mutant of CanAfford: any acorn will do.
CanAffordAny == acornNumber > 0

CanAfford == acornNumber >= Price

\* didSelectItemAt.  Too few acorns, and nothing happens.
DidSelect(row) ==
  /\ row \in DOMAIN powerUps
  /\ CaughtUp
  /\ CanAfford
  /\ acornNumber' = acornNumber - Price
  /\ \/ BoughtAt(row) = "green" /\ BuyGreen
     \/ BoughtAt(row) = "ice"   /\ BuyIce
  /\ UNCHANGED <<delivered, powerUps>>

-----------------------------------------------------------------------------
(* The shop by itself, from the moment it is opened.                       *)

\* A ShopController over the counters it is handed; its list is still empty.
Init ==
  \E store \in OpeningStores :
    /\ Opened(store)
    /\ acornNumber = store.acorn
    /\ greenNumber = store.green
    /\ iceNumber   = store.ice
    /\ delivered = 0
    /\ powerUps  = <<>>

\* The same as a step of the app that opens the shop.
Handed(acorn, green, ice) ==
  /\ acornNumber' = acorn
  /\ greenNumber' = green
  /\ iceNumber'   = ice
  /\ delivered' = 0
  /\ powerUps'  = <<>>

Next ==
  \/ PowerUpAdded
  \/ \E row \in DOMAIN powerUps : DidSelect(row)
  \/ Synchronize /\ UNCHANGED shopVars

Spec == Init /\ [][Next]_<<shopVars, storeVars>>

-----------------------------------------------------------------------------
(* Properties.                                                             *)

\* Every variable keeps its type; in particular the shop sells nothing on
\* credit, also when its cells are tapped faster than the store is saved (150).
ShopTypeOK ==
  /\ StoreTypeOK
  /\ acornNumber \in Nat /\ greenNumber \in Nat /\ iceNumber \in Nat
  /\ delivered \in 0..Len(Catalog)

\* The shop never reads the store, and what it knows of it is right all the
\* same: its copies are the counters the process would read (24-26, 151-162).
CopiesInStep ==
  /\ acornNumber = defaults.acorn
  /\ greenNumber = defaults.green
  /\ iceNumber   = defaults.ice

\* What a store is worth, in acorns.
Worth(store) == store.acorn + Price * (store.green + store.ice)

\* The process may die between any two writes of a purchase.  Whatever is on
\* disk by then, the player has no more than what is in memory (151-159): an
\* interrupted purchase may lose the acorns, it never gives a power-up away.
NothingForFree ==
  \A store \in {disk} \cup {unsaved[i] : i \in 1..Len(unsaved)} :
    Worth(store) <= Worth(defaults)

=============================================================================
