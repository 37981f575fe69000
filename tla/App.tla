-------------------------------- MODULE App ---------------------------------
(***************************************************************************)
(* The app: the game screen and the shop over one UserDefaults, and the    *)
(* process they live in.  The shop's purchases replace the environment     *)
(* ViewController.tla assumes, and the process may be killed at any moment *)
(* and launched again on whatever had reached the disk.                    *)
(***************************************************************************)
EXTENDS ViewController

CONSTANTS
  Price, Catalog, NoTier, MaxPowerUps,   \* see ShopController
  PrepareFirst,   \* does the segue of the shop button run before its action?
  MaxIncome       \* Bound: what the player is given and earns, in acorns.

ASSUME AppAssumption ==
  /\ PrepareFirst \in BOOLEAN
  /\ MaxIncome \in Nat
  /\ Price \in Nat
  /\ MaxPowerUps \in 0..MaxCounter

VARIABLES
  shopAcorn, shopGreen, shopIce,   \* the shop's copies of the counters
  delivered, powerUps,             \* the shop's rows
  income                           \* history: see Wallet

shopVars == <<shopAcorn, shopGreen, shopIce, delivered, powerUps>>
appVars  == <<vars, shopVars, income>>

Shop == INSTANCE ShopController
          WITH acornNumber <- shopAcorn, greenNumber <- shopGreen,
               iceNumber <- shopIce, OpeningStores <- InitialStores

-----------------------------------------------------------------------------
(* The counters as one account.                                            *)

AccountOf(store) ==
  [gifted |-> store.bool, acorn |-> store.acorn, green |-> store.green,
   ice |-> store.ice]

Trail ==
  LET stores == <<disk>> \o unsaved
  IN  [i \in 1..Len(stores) |-> AccountOf(stores[i])]

Purse == INSTANCE Wallet
           WITH Cost <- Price, owned <- AccountOf(defaults), trail <- Trail,
                Openings <- {AccountOf(store) : store \in InitialStores}

\* The history variable is what Purse calls the income.
Bookkeeping ==
  \/ score' > score  /\ income < MaxIncome /\ income' = income + 1
  \/ score' <= score /\ UNCHANGED income

-----------------------------------------------------------------------------
(* Into the shop.                                                          *)

\* Mutant of HandOver: the power-ups change places.
HandOverSwapped(acorn) == Shop!Handed(acorn, iceNumber, greenNumber)

\* prepare(for:sender:) of the segue.
HandOver(acorn) == Shop!Handed(acorn, greenNumber, iceNumber)

OpenShop == ShopTapped /\ HandOver(acornNumber)

\* A round that ends on the way to the shop may earn an acorn.
OpenShopInRound ==
  /\ ShopTappedInRound
  /\ \E acorn \in {IF PrepareFirst THEN acornNumber ELSE acornNumber'} :
       HandOver(acorn)

\* The shop in front of the game.
InShop ==
  /\ screen = "shop"
  /\ \/ Shop!PowerUpAdded
     \/ \E row \in DOMAIN powerUps : Shop!DidSelect(row)
  /\ UNCHANGED <<gameVars, touchVars, boardVars>>

-----------------------------------------------------------------------------
(* The process.                                                            *)

\* Killed and launched again: Launched of ViewController, as a step.  What was
\* queued for the disk is lost; what was sent to Game Center may still arrive.
Relaunch ==
  /\ Reopen
  /\ milliseconds' = 0 /\ seconds' = 0 /\ suffix' = 0 /\ count' = 1
  /\ timer' = "none" /\ runLoop' = [kind \in Timers |-> 0]
  /\ isTimerRunning' = FALSE /\ checkerCirlceProgress' = TRUE
  /\ score' = 0 /\ best' = 0 /\ greenActiveted' = FALSE
  /\ acornNumber' = disk.acorn
  /\ greenNumber' = disk.green
  /\ iceNumber'   = disk.ice
  /\ boolCheckUserDefault' = disk.bool
  /\ iceEnabled' = TRUE /\ greenEnabled' = TRUE
  /\ circle' = "idle" /\ trackColor' = "initial"
  /\ wood' = "still" /\ durationRotate' = "fast"
  /\ overlayHidden' = FALSE /\ confetti' = FALSE
  /\ held' = {} /\ screen' = "loading"
  /\ Shop!Handed(0, 0, 0)
  /\ UNCHANGED boardVars

\* Everything ViewController does but opening the shop.
InGame ==
  /\ \/ \E button \in Buttons : TouchDown(button) \/ TouchCancelled(button)
     \/ \E kind \in Timers : Tick(kind)
     \/ StartTapped \/ StopTapped
     \/ IceTapped \/ GreenTapped \/ GameCenterTapped
     \/ AuthenticateHandler \/ CoverDismissed \/ ViewDidLoad \/ ViewDidAppear
     \/ StoreStep \/ BoardStep
  /\ UNCHANGED shopVars

AppInit ==
  /\ Init
  /\ shopAcorn = 0 /\ shopGreen = 0 /\ shopIce = 0
  /\ delivered = 0 /\ powerUps = <<>>
  /\ income = Purse!Value(Purse!Endowed(AccountOf(defaults)))

AppNext ==
  /\ InGame \/ OpenShop \/ OpenShopInRound \/ InShop \/ Relaunch
  /\ Bookkeeping

AppSpec == AppInit /\ [][AppNext]_appVars

-----------------------------------------------------------------------------
(* Properties.                                                             *)

\* The two controllers, each writing the store from copies of its own, and a
\* process that may die between any two of their writes, keep the counters as
\* one account: no write of one takes back a write of the other, and a launch
\* finds a state the account has been in (72-92, 149-159; the shop 151-159).
KeepsOneWallet == Purse!WalletSpec

\* No sequence of rounds, taps, purchases and deaths leaves more on disk, or
\* on its way there, than the player was given and earned.
NothingMinted == Purse!NothingMinted

\* What ViewController.tla assumes of a shop is all that the shop does.
ShopKeepsItsPart ==
  [][screen = "shop" /\ screen' = "shop" /\ unsaved # unsaved'
       => ShopWrites \/ StoreStep]_vars

\* While the shop is in front its copies are the counters of the store, so a
\* purchase takes back nothing the round that led there earned (149-156).
ShopMirrorsStore == screen = "shop" => Shop!CopiesInStep

=============================================================================
