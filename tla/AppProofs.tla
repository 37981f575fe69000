------------------------------ MODULE AppProofs ------------------------------
(***************************************************************************)
(* Proofs about the game screen, by itself and as a part of the app.       *)
(*                                                                         *)
(* The game screen comes first, for every length of a second, every gift,  *)
(* every store found at launch, every bound, and both values of            *)
(* LateTouches; its theorems are about Spec, that of ViewController.       *)
(*                                                                         *)
(* Then the app as a whole, AppSpec: the game screen and the shop keep one *)
(* account between them, through every death of the process.  The steps of *)
(* the app are steps of ViewController, the shop's purchases being the     *)
(* ShopWrites it assumes, or a relaunch, after which the game is as fresh  *)
(* as after its first launch.  So the inductive invariants of the screen   *)
(* carry over; what is added is about the shop.                            *)
(***************************************************************************)
EXTENDS App, TLAPS

-----------------------------------------------------------------------------
(* The store, whatever the app writes to it.                               *)

\* The stores whose counters and best score are in a set of numbers: Int for
\* types, Nat where no counter may be overdrawn.
StoreOf(Numbers) ==
  [bool : BOOLEAN, acorn : Numbers, green : Numbers, ice : Numbers,
   best : Numbers]

StoresOf(Numbers) ==
  /\ defaults \in StoreOf(Numbers)
  /\ unsaved  \in Seq(StoreOf(Numbers))
  /\ disk     \in StoreOf(Numbers)

\* StoresOf(Int) is the type invariant of the store, before and after a step.
LEMMA StoresOfInt == StoresOf(Int) <=> StoreTypeOK
  BY DEF StoresOf, StoreOf, StoreTypeOK, Store

LEMMA StoresOfIntNext == StoresOf(Int)' <=> StoreTypeOK'
  BY DEF StoresOf, StoreOf, StoreTypeOK, Store

\* Changing one counter leads from such a store to such a store.
LEMMA WriteCounter ==
  ASSUME NEW Numbers, NEW store \in StoreOf(Numbers), NEW number \in Numbers
  PROVE  /\ [store EXCEPT !.acorn = number] \in StoreOf(Numbers)
         /\ [store EXCEPT !.green = number] \in StoreOf(Numbers)
         /\ [store EXCEPT !.ice = number] \in StoreOf(Numbers)
  BY DEF StoreOf

\* So does writing the best score, alone or after the acorns ...
LEMMA WriteBest ==
  ASSUME NEW Numbers, NEW store \in StoreOf(Numbers), NEW points \in Numbers,
         NEW number \in Numbers
  PROVE  /\ [store EXCEPT !.best = points] \in StoreOf(Numbers)
         /\ [store EXCEPT !.acorn = number, !.best = points]
              \in StoreOf(Numbers)
  BY DEF StoreOf

\* ... and marking the gift as given.
LEMMA WriteBool ==
  ASSUME NEW Numbers, NEW store \in StoreOf(Numbers)
  PROVE  [store EXCEPT !.bool = TRUE] \in StoreOf(Numbers)
  BY DEF StoreOf

\* A handler that makes one write leaves the process with it, and queues it
\* last.
LEMMA SaveOne ==
  ASSUME NEW Numbers, StoresOf(Numbers), NEW store \in StoreOf(Numbers),
         Save(<<store>>)
  PROVE  defaults' = store /\ StoresOf(Numbers)'
  BY DEF Save, StoresOf

\* The same of a handler that makes two writes ...
LEMMA SaveTwo ==
  ASSUME NEW Numbers, StoresOf(Numbers),
         NEW s1 \in StoreOf(Numbers), NEW s2 \in StoreOf(Numbers),
         Save(<<s1, s2>>)
  PROVE  defaults' = s2 /\ StoresOf(Numbers)'
  BY DEF Save, StoresOf

\* ... and of the four writes of a first launch.
LEMMA SaveFour ==
  ASSUME NEW Numbers, StoresOf(Numbers),
         NEW s1 \in StoreOf(Numbers), NEW s2 \in StoreOf(Numbers),
         NEW s3 \in StoreOf(Numbers), NEW s4 \in StoreOf(Numbers),
         Save(<<s1, s2, s3, s4>>)
  PROVE  defaults' = s4 /\ StoresOf(Numbers)'
  BY DEF Save, StoresOf

\* The disk only ever takes a store that was queued, and the process reads
\* what it read before.
LEMMA SynchronizeOne ==
  ASSUME NEW Numbers, StoresOf(Numbers), Synchronize
  PROVE  defaults' = defaults /\ StoresOf(Numbers)'
  BY DEF Synchronize, StoresOf

\* A handler that writes nothing leaves the store as it is.
LEMMA StoreUnchanged ==
  ASSUME NEW Numbers, StoresOf(Numbers), UNCHANGED storeVars
  PROVE  defaults' = defaults /\ StoresOf(Numbers)'
  BY DEF StoresOf, storeVars

-----------------------------------------------------------------------------
(* The constants.                                                          *)

\* A second has at least one tick.
LEMMA SecondIsPositive == Second \in Nat /\ Second >= 1
  BY ViewControllerAssumption

\* The gift takes nothing away.
LEMMA GiftIsCounted ==
  Gift.acorn \in Nat /\ Gift.green \in Nat /\ Gift.ice \in Nat
  BY ViewControllerAssumption

\* A store found at launch owes nothing.
LEMMA FoundStore ==
  ASSUME NEW store \in InitialStores
  PROVE  store \in StoreOf(Nat) /\ store \in StoreOf(Int) /\ store.best >= 0
  BY ViewControllerAssumption DEF Store, StoreOf

\* display(miliseconds:) splits a time into whole seconds and a rest.
LEMMA DisplaySplits ==
  ASSUME NEW elapsed \in Nat
  PROVE  /\ elapsed \div Second \in Nat
         /\ elapsed - Second * (elapsed \div Second) \in 0..(Second - 1)
  BY ViewControllerAssumption

-----------------------------------------------------------------------------
(* What a handler leaves in the store.  The set of numbers is Int for the  *)
(* types and Nat where no counter may be overdrawn.                        *)

\* A stop writes an acorn, a new best score, or nothing.
LEMMA TimerStopsStores ==
  ASSUME NEW Numbers \in {Int, Nat}, StoresOf(Numbers), CounterTypeOK,
         acornNumber \in Numbers, best \in Numbers, TimerStops
  PROVE  /\ StoresOf(Numbers)'
         /\ defaults'.best = IF OnTheSecond THEN best
                             ELSE IF ~greenActiveted /\ NewBest THEN score
                             ELSE defaults.best
         /\ defaults'.acorn = IF OnTheSecond THEN acornNumber + 1
                              ELSE defaults.acorn
         /\ defaults'.green = defaults.green
         /\ defaults'.ice = defaults.ice
<1>0. /\ defaults \in StoreOf(Numbers) /\ acornNumber + 1 \in Numbers
      /\ best \in Numbers /\ score \in Numbers
  BY DEF StoresOf, CounterTypeOK
<1>1. CASE Hit
  <2> DEFINE written ==
        [defaults EXCEPT !.acorn = acornNumber + 1, !.best = best]
  <2>1. written \in StoreOf(Numbers) /\ Save(<<written>>)
    BY <1>0, <1>1, WriteBest DEF Hit
  <2>2. defaults' = written /\ StoresOf(Numbers)'
    BY <2>1, SaveOne
  <2> QED
    BY <1>0, <1>1, <2>2 DEF Hit, StoreOf
<1>2. CASE MissShielded
  BY <1>2, StoreUnchanged DEF MissShielded, Miss
<1>3. CASE MissEndsStreak /\ NewBest
  <2> DEFINE written == [defaults EXCEPT !.best = score]
  <2>1. written \in StoreOf(Numbers) /\ Save(<<written>>)
    BY <1>0, <1>3, WriteBest DEF MissEndsStreak
  <2>2. defaults' = written /\ StoresOf(Numbers)'
    BY <2>1, SaveOne
  <2> QED
    BY <1>0, <1>3, <2>2 DEF MissEndsStreak, Miss, StoreOf
<1>4. CASE MissEndsStreak /\ ~NewBest
  BY <1>4, StoreUnchanged DEF MissEndsStreak, Miss
<1> QED
  BY <1>1, <1>2, <1>3, <1>4 DEF TimerStops

\* A first launch writes the gift where it has nothing, and then its flag.
LEMMA GiveGiftStores ==
  ASSUME NEW Numbers \in {Int, Nat}, StoresOf(Numbers), GiveGift
  PROVE  /\ StoresOf(Numbers)'
         /\ defaults'.best = defaults.best
         /\ defaults'.ice =
              IF iceNumber = 0 THEN iceNumber' ELSE defaults.ice
         /\ defaults'.green =
              IF greenNumber = 0 THEN greenNumber' ELSE defaults.green
         /\ defaults'.acorn =
              IF acornNumber = 0 THEN acornNumber' ELSE defaults.acorn
<1> DEFINE iced    == IF iceNumber = 0
                      THEN [defaults EXCEPT !.ice = Gift.ice] ELSE defaults
           greened == IF greenNumber = 0
                      THEN [iced EXCEPT !.green = Gift.green] ELSE iced
           paid    == IF acornNumber = 0
                      THEN [greened EXCEPT !.acorn = Gift.acorn] ELSE greened
           given   == [paid EXCEPT !.bool = TRUE]
<1>1. /\ Gift.ice \in Numbers /\ Gift.green \in Numbers
      /\ Gift.acorn \in Numbers /\ defaults \in StoreOf(Numbers)
  BY GiftIsCounted DEF StoresOf
<1>2. iced \in StoreOf(Numbers)
  BY <1>1, WriteCounter
<1>3. greened \in StoreOf(Numbers)
  BY <1>1, <1>2, WriteCounter
<1>4. paid \in StoreOf(Numbers)
  BY <1>1, <1>3, WriteCounter
<1>5. given \in StoreOf(Numbers)
  BY <1>4, WriteBool
<1>6. Save(<<iced, greened, paid, given>>)
  BY DEF GiveGift
<1>7. defaults' = given /\ StoresOf(Numbers)'
  <2> HIDE DEF iced, greened, paid, given
  <2> QED
    BY <1>2, <1>3, <1>4, <1>5, <1>6, SaveFour
<1>8. given.best = defaults.best
  BY <1>1 DEF StoreOf
<1>9. given.ice = IF iceNumber = 0 THEN Gift.ice ELSE defaults.ice
  BY <1>1 DEF StoreOf
<1>10. given.green = IF greenNumber = 0 THEN Gift.green ELSE defaults.green
  BY <1>1 DEF StoreOf
<1>11. given.acorn = IF acornNumber = 0 THEN Gift.acorn ELSE defaults.acorn
  BY <1>1 DEF StoreOf
<1> HIDE DEF given
<1> QED
  BY <1>7, <1>8, <1>9, <1>10, <1>11 DEF GiveGift

\* A power-up that is used is one less in the store.
LEMMA IceTappedStores ==
  ASSUME NEW Numbers, StoresOf(Numbers), iceNumber - 1 \in Numbers, IceTapped
  PROVE  /\ StoresOf(Numbers)'
         /\ defaults' = [defaults EXCEPT !.ice = iceNumber - 1]
<1> DEFINE written == [defaults EXCEPT !.ice = iceNumber - 1]
<1>1. written \in StoreOf(Numbers) /\ Save(<<written>>)
  BY WriteCounter DEF StoresOf, IceTapped
<1> QED
  BY <1>1, SaveOne

\* The same of the green power-up.
LEMMA GreenTappedStores ==
  ASSUME NEW Numbers, StoresOf(Numbers), greenNumber - 1 \in Numbers,
         GreenTapped
  PROVE  /\ StoresOf(Numbers)'
         /\ defaults' = [defaults EXCEPT !.green = greenNumber - 1]
<1> DEFINE written == [defaults EXCEPT !.green = greenNumber - 1]
<1>1. written \in StoreOf(Numbers) /\ Save(<<written>>)
  BY WriteCounter DEF StoresOf, GreenTapped
<1> QED
  BY <1>1, SaveOne

\* The shop writes counters, and never the best score.
LEMMA ShopWritesStores ==
  ASSUME NEW Numbers \in {Int, Nat}, StoresOf(Numbers), ShopWrites
  PROVE  StoresOf(Numbers)' /\ defaults'.best = defaults.best
<1>1. PICK key \in {"green", "ice"}, acorns \in 0..defaults.acorn,
           number \in 0..MaxCounter :
        Save(<<[defaults EXCEPT !.acorn = acorns],
               [defaults EXCEPT !.acorn = acorns, ![key] = number]>>)
  BY DEF ShopWrites
<1>2. /\ acorns \in Numbers /\ number \in Numbers
      /\ defaults \in StoreOf(Numbers)
  <2>1. defaults \in StoreOf(Numbers) /\ defaults.acorn \in Int
    BY DEF StoresOf, StoreOf
  <2>2. acorns \in Nat /\ number \in Nat
    BY <2>1, ViewControllerAssumption
  <2> QED
    BY <2>1, <2>2
<1> DEFINE paid   == [defaults EXCEPT !.acorn = acorns]
           bought == [defaults EXCEPT !.acorn = acorns, ![key] = number]
<1>3. paid \in StoreOf(Numbers) /\ bought \in StoreOf(Numbers)
  BY <1>2 DEF StoreOf
<1>4. bought.best = defaults.best
  BY <1>2 DEF StoreOf
<1> QED
  BY <1>1, <1>3, <1>4, SaveTwo

\* The shop leaves the game, its screen and the board alone.
LEMMA ShopWritesOnlyStores ==
  ShopWrites => UNCHANGED <<gameVars, touchVars, boardVars>>
  BY Zenon DEF ShopWrites

\* Loading the screen writes nothing but a gift.
LEMMA SetupStores ==
  ASSUME NEW Numbers \in {Int, Nat}, StoresOf(Numbers),
         SetupUserDefaultSetLabel
  PROVE  StoresOf(Numbers)' /\ defaults'.best = defaults.best
<1>1. CASE ReloadCounters
  BY <1>1, StoreUnchanged DEF ReloadCounters
<1>2. CASE GiveGift
  BY <1>2, GiveGiftStores
<1> QED
  BY <1>1, <1>2 DEF SetupUserDefaultSetLabel

-----------------------------------------------------------------------------
(* Types.                                                                  *)

\* A process that has just been launched on a store in which nothing is owed:
\* at first, and in App whenever the process has been killed.
Fresh ==
  \E store \in StoreOf(Nat) : Opened(store) /\ Launched(store)

LEMMA InitIsFresh == Init => Fresh /\ BoardTypeOK
<1> SUFFICES ASSUME NEW store \in InitialStores,
                    Opened(store), Launched(store),
                    inFlight = {}, leaderboard \in 0..store.best
             PROVE  Fresh /\ BoardTypeOK
  BY DEF Init
<1>1. store \in StoreOf(Nat) /\ store.best \in Int /\ store.best >= 0
  BY FoundStore DEF StoreOf
<1> QED
  BY <1>1 DEF Fresh, BoardTypeOK

\* The types hold at launch.
LEMMA TypeFresh == Fresh /\ BoardTypeOK => TypeOK
<1> SUFFICES ASSUME NEW store \in StoreOf(Nat),
                    Opened(store), Launched(store), BoardTypeOK
             PROVE  TypeOK
  BY DEF Fresh
<1>1. store \in StoreOf(Int)
  BY DEF StoreOf
<1>2. StoreTypeOK
  BY <1>1, StoresOfInt DEF StoresOf, Opened
<1>3. BoardTypeOK
  OBVIOUS
<1>4. ClockTypeOK
  BY SecondIsPositive DEF ClockTypeOK, Launched
<1>5. TimerTypeOK
  BY DEF TimerTypeOK, Launched, Timers
<1>6. FlagTypeOK
  <2>1. boolCheckUserDefault \in BOOLEAN
    BY <1>1 DEF Launched, StoreOf
  <2> QED
    BY <2>1, Zenon DEF FlagTypeOK, Launched
<1>7. CounterTypeOK
  BY <1>1 DEF CounterTypeOK, Launched, StoreOf
<1>8. ViewTypeOK /\ TouchTypeOK
  BY DEF ViewTypeOK, TouchTypeOK, Launched
<1> QED
  BY <1>2, <1>3, <1>4, <1>5, <1>6, <1>7, <1>8 DEF TypeOK

\* A handler that does not touch a group of variables keeps their types.
LEMMA TypesUnchanged ==
  ASSUME TypeOK
  PROVE  /\ UNCHANGED clockVars => ClockTypeOK'
         /\ UNCHANGED <<timer, runLoop>> => TimerTypeOK'
         /\ UNCHANGED <<score, best, acornNumber, greenNumber, iceNumber>>
              => CounterTypeOK'
         /\ UNCHANGED <<circle, trackColor, wood, durationRotate>>
              => ViewTypeOK'
         /\ UNCHANGED storeVars => StoreTypeOK'
         /\ UNCHANGED boardVars => BoardTypeOK'
<1>1. UNCHANGED clockVars => ClockTypeOK'
  BY DEF TypeOK, ClockTypeOK, clockVars
<1>2. UNCHANGED <<timer, runLoop>> => TimerTypeOK'
  BY DEF TypeOK, TimerTypeOK
<1>3. UNCHANGED <<score, best, acornNumber, greenNumber, iceNumber>>
        => CounterTypeOK'
  BY DEF TypeOK, CounterTypeOK
<1>4. UNCHANGED <<circle, trackColor, wood, durationRotate>> => ViewTypeOK'
  BY DEF TypeOK, ViewTypeOK
<1>5. UNCHANGED storeVars => StoreTypeOK'
  BY DEF TypeOK, StoreTypeOK, storeVars
<1>6. UNCHANGED boardVars => BoardTypeOK'
  BY DEF TypeOK, BoardTypeOK, boardVars
<1> QED
  BY <1>1, <1>2, <1>3, <1>4, <1>5, <1>6

\* A tick counts laps of exactly one second.
LEMMA TickType ==
  ASSUME TypeOK, NEW kind \in Timers, Tick(kind)
  PROVE  TypeOK'
<1>1. ClockTypeOK'
  <2>1. /\ milliseconds + 1 \in Nat
        /\ milliseconds' = milliseconds + 1
        /\ seconds' = (milliseconds + 1) \div Second
        /\ suffix' = (milliseconds + 1)
                       - Second * ((milliseconds + 1) \div Second)
    BY DEF TypeOK, ClockTypeOK, Tick, Display
  <2>2. milliseconds' \in Nat /\ seconds' \in Nat /\ suffix' \in Nat
    BY <2>1, DisplaySplits, SecondIsPositive
  <2>3. count' \in 0..Second
    BY SecondIsPositive DEF TypeOK, ClockTypeOK, Tick, LapDone
  <2> QED
    BY <2>2, <2>3 DEF ClockTypeOK
<1>2. ViewTypeOK'
  BY DEF TypeOK, ViewTypeOK, Tick
<1>3. FlagTypeOK'
  BY DEF TypeOK, FlagTypeOK, Tick, timerVars, streakVars, walletVars
<1>4. TouchTypeOK'
  BY DEF TypeOK, TouchTypeOK, Tick, touchVars
<1> QED
  BY <1>1, <1>2, <1>3, <1>4, TypesUnchanged
     DEF TypeOK, Tick, timerVars, streakVars, walletVars

\* The end of a round, for whichever handler ends it.
LEMMA TimerStopsType ==
  ASSUME TypeOK, TimerStops, checkerCirlceProgress' = ~checkerCirlceProgress
  PROVE  /\ ClockTypeOK' /\ TimerTypeOK' /\ FlagTypeOK' /\ CounterTypeOK'
         /\ ViewTypeOK' /\ StoreTypeOK'
<1>1. ClockTypeOK'
  BY SecondIsPositive
     DEF TypeOK, ClockTypeOK, TimerStops, Hit, AfterHit, Miss, Rewind,
         MissShielded, MissEndsStreak
<1>2. TimerTypeOK'
  BY DEF TypeOK, TimerTypeOK, TimerStops, Invalidated, Timers
<1>3. FlagTypeOK'
  BY DEF TypeOK, FlagTypeOK, TimerStops, SetUpTimer, Hit, MissShielded,
         MissEndsStreak
<1>4. CounterTypeOK'
  BY DEF TypeOK, CounterTypeOK, TimerStops, Hit, Miss, MissShielded,
         MissEndsStreak
<1>5. ViewTypeOK'
  BY DEF TypeOK, ViewTypeOK, TimerStops, SetUpTimer, Hit, MissShielded,
         MissEndsStreak
<1>6. StoreTypeOK'
  <2>1. StoresOf(Int)'
    BY TimerStopsStores, StoresOfInt DEF TypeOK, CounterTypeOK
  <2> QED
    BY <2>1, StoresOfIntNext
<1> QED
  BY <1>1, <1>2, <1>3, <1>4, <1>5, <1>6

\* A finger that is lifted, or cancelled, leaves a subset of those down.
LEMMA StillHeldType ==
  ASSUME TouchTypeOK, NEW button, held' = StillHeld(button),
         screen' \in {"game", "shop", "gameCenter"}
  PROVE  TouchTypeOK'
  BY DEF TouchTypeOK, StillHeld

\* The buttons.
LEMMA StartType == ASSUME TypeOK, StartTapped PROVE TypeOK'
<1>1. ClockTypeOK'
  BY SecondIsPositive DEF TypeOK, ClockTypeOK, StartTapped
<1>2. TimerTypeOK'
  BY DEF TypeOK, TimerTypeOK, StartTapped, Schedule, Invalidated, Timers
<1>3. FlagTypeOK'
  BY DEF TypeOK, FlagTypeOK, StartTapped, RenewShield, OfferPowerUps,
         walletVars
<1>4. ViewTypeOK'
  BY DEF TypeOK, ViewTypeOK, StartTapped, RenewShield
<1>5. TouchTypeOK'
  BY DEF TypeOK, TouchTypeOK, StartTapped, StillHeld
<1>6. BoardTypeOK'
  BY DEF TypeOK, CounterTypeOK, BoardTypeOK, StartTapped, CheckBestScore,
         Report
<1> QED
  BY <1>1, <1>2, <1>3, <1>4, <1>5, <1>6, TypesUnchanged
     DEF TypeOK, StartTapped, walletVars

\* The ice power-up.
LEMMA IceType == ASSUME TypeOK, IceTapped PROVE TypeOK'
<1>1. TimerTypeOK'
  BY DEF TypeOK, TimerTypeOK, IceTapped, Schedule, Invalidated, Timers
<1>2. FlagTypeOK'
  BY DEF TypeOK, FlagTypeOK, IceTapped, SetUpTimer, streakVars
<1>3. CounterTypeOK'
  BY DEF TypeOK, CounterTypeOK, IceTapped, streakVars
<1>4. ViewTypeOK'
  BY DEF TypeOK, ViewTypeOK, IceTapped, SetUpTimer
<1>5. TouchTypeOK'
  BY DEF TypeOK, TouchTypeOK, IceTapped, StillHeld
<1>6. StoreTypeOK'
  BY IceTappedStores, StoresOfInt, StoresOfIntNext DEF TypeOK, CounterTypeOK
<1> QED
  BY <1>1, <1>2, <1>3, <1>4, <1>5, <1>6, TypesUnchanged
     DEF TypeOK, IceTapped

\* The green power-up.
LEMMA GreenType == ASSUME TypeOK, GreenTapped PROVE TypeOK'
<1>1. FlagTypeOK'
  BY DEF TypeOK, FlagTypeOK, GreenTapped, timerVars
<1>2. CounterTypeOK'
  BY DEF TypeOK, CounterTypeOK, GreenTapped
<1>3. ViewTypeOK'
  BY DEF TypeOK, ViewTypeOK, GreenTapped
<1>4. TouchTypeOK'
  BY DEF TypeOK, TouchTypeOK, GreenTapped, StillHeld
<1>5. StoreTypeOK'
  BY GreenTappedStores, StoresOfInt, StoresOfIntNext DEF TypeOK, CounterTypeOK
<1> QED
  BY <1>1, <1>2, <1>3, <1>4, <1>5, TypesUnchanged
     DEF TypeOK, GreenTapped, timerVars

\* Both ways to end a round.
LEMMA StopType == ASSUME TypeOK, StopTapped \/ ShopTappedInRound PROVE TypeOK'
<1>1. TimerStops /\ checkerCirlceProgress' = ~checkerCirlceProgress
  BY DEF StopTapped, ShopTappedInRound, ShopStopsRound
<1>2. TouchTypeOK'
  BY DEF TypeOK, TouchTypeOK, StopTapped, ShopTappedInRound, StillHeld
<1>3. BoardTypeOK'
  <2>1. best' \in Int
    BY <1>1, TimerStopsType DEF CounterTypeOK
  <2> QED
    BY <2>1 DEF TypeOK, BoardTypeOK, boardVars, StopTapped, ShopTappedInRound,
       ShopStopsRound, CheckBestScore, Report
<1> QED
  BY <1>1, <1>2, <1>3, TimerStopsType DEF TypeOK

\* Both ways to read the store.
LEMMA SetupType == ASSUME TypeOK, ViewDidLoad \/ ViewDidAppear PROVE TypeOK'
<1>1. StoreTypeOK' /\ SetupUserDefaultSetLabel
  BY SetupStores, StoresOfInt, StoresOfIntNext
     DEF TypeOK, ViewDidLoad, ViewDidAppear
<1>2. FlagTypeOK'
  <2>1. boolCheckUserDefault' \in BOOLEAN
    BY <1>1, Zenon
       DEF TypeOK, FlagTypeOK, SetupUserDefaultSetLabel, ReloadCounters,
           GiveGift
  <2>2. overlayHidden' \in BOOLEAN
    BY Zenon DEF TypeOK, FlagTypeOK, ViewDidLoad, ViewDidAppear, viewVars
  <2>3. UNCHANGED <<timerVars, greenActiveted, confetti, iceEnabled,
                    greenEnabled>>
    BY DEF ViewDidLoad, ViewDidAppear, viewVars
  <2> QED
    BY <2>1, <2>2, <2>3 DEF TypeOK, FlagTypeOK, timerVars
<1>3. CounterTypeOK'
  <2>1. score' = score
    BY DEF ViewDidLoad, ViewDidAppear
  <2>2. /\ defaults.best \in Int /\ defaults.acorn \in Int
        /\ defaults.green \in Int /\ defaults.ice \in Int
    BY DEF TypeOK, StoreTypeOK, Store
  <2>3. best' \in Int
    BY <1>1, <2>2 DEF SetupUserDefaultSetLabel
  <2>4. acornNumber' \in Int /\ greenNumber' \in Int /\ iceNumber' \in Int
    BY <1>1, <2>2, GiftIsCounted
       DEF TypeOK, CounterTypeOK, SetupUserDefaultSetLabel, ReloadCounters,
           GiveGift
  <2> QED
    BY <2>1, <2>3, <2>4 DEF TypeOK, CounterTypeOK
<1>4. TouchTypeOK'
  BY DEF TypeOK, TouchTypeOK, ViewDidLoad, ViewDidAppear
<1> QED
  BY <1>1, <1>2, <1>3, <1>4, TypesUnchanged
     DEF TypeOK, ViewDidLoad, ViewDidAppear, timerVars, viewVars

\* Steps that concern the store, the board or the touches only.
LEMMA GameUnchangedType ==
  ASSUME TypeOK, UNCHANGED gameVars, TouchTypeOK', StoreTypeOK', BoardTypeOK'
  PROVE  TypeOK'
<1>1. FlagTypeOK'
  BY DEF TypeOK, FlagTypeOK, gameVars, timerVars, streakVars, walletVars,
     viewVars
<1> QED
  BY <1>1, TypesUnchanged
     DEF TypeOK, gameVars, timerVars, streakVars, walletVars, viewVars

\* The remaining steps: touches, screens, the shop, the store and the board.
LEMMA OtherType ==
  ASSUME TypeOK,
         \/ \E button \in Buttons :
              TouchDown(button) \/ TouchCancelled(button)
         \/ ShopTapped \/ GameCenterTapped
         \/ AuthenticateHandler \/ CoverDismissed
         \/ ShopWrites \/ StoreStep \/ BoardStep \/ UNCHANGED vars
  PROVE  TypeOK'
<1>1. UNCHANGED gameVars
  BY ShopWritesOnlyStores
     DEF TouchDown, TouchCancelled, ShopTapped, GameCenterTapped,
         AuthenticateHandler, CoverDismissed, StoreStep, BoardStep, vars
<1>2. TouchTypeOK'
  BY ShopWritesOnlyStores
     DEF TypeOK, TouchTypeOK, touchVars, TouchDown, TouchCancelled,
         ShopTapped, GameCenterTapped, AuthenticateHandler, CoverDismissed,
         StoreStep, BoardStep, vars, StillHeld
<1>3. StoreTypeOK'
  BY SynchronizeOne, ShopWritesStores, TypesUnchanged, StoresOfInt,
     StoresOfIntNext
     DEF TypeOK, TouchDown, TouchCancelled, ShopTapped, GameCenterTapped,
         AuthenticateHandler, CoverDismissed, StoreStep, BoardStep, vars
<1>4. BoardTypeOK'
  BY ShopWritesOnlyStores
     DEF TypeOK, BoardTypeOK, boardVars, TouchDown, TouchCancelled,
         ShopTapped, GameCenterTapped, AuthenticateHandler, CoverDismissed,
         StoreStep, BoardStep, vars, ReportAccepted, ReportFailed
<1> QED
  BY <1>1, <1>2, <1>3, <1>4, GameUnchangedType

\* Every step keeps the types.
LEMMA TypeStep == TypeOK /\ [Next]_vars => TypeOK'
<1> SUFFICES ASSUME TypeOK, [Next]_vars PROVE TypeOK'
  OBVIOUS
<1>1. ASSUME NEW kind \in Timers, Tick(kind) PROVE TypeOK'
  BY <1>1, TickType
<1>2. CASE StartTapped
  BY <1>2, StartType
<1>3. CASE StopTapped \/ ShopTappedInRound
  BY <1>3, StopType
<1>4. CASE IceTapped
  BY <1>4, IceType
<1>5. CASE GreenTapped
  BY <1>5, GreenType
<1>6. CASE ViewDidLoad \/ ViewDidAppear
  BY <1>6, SetupType
<1>7. CASE \/ \E button \in Buttons :
                TouchDown(button) \/ TouchCancelled(button)
           \/ ShopTapped \/ GameCenterTapped
           \/ AuthenticateHandler \/ CoverDismissed
           \/ ShopWrites \/ StoreStep \/ BoardStep \/ UNCHANGED vars
  BY <1>7, OtherType
<1> QED
  BY <1>1, <1>2, <1>3, <1>4, <1>5, <1>6, <1>7 DEF Next

\* Type correctness of the game screen, for every value of the constants.
THEOREM TypeCorrect == Spec => []TypeOK
<1>1. Init => TypeOK
  BY InitIsFresh, TypeFresh
<1>2. TypeOK /\ [Next]_vars => TypeOK'
  BY TypeStep
<1> QED
  BY <1>1, <1>2, PTL DEF Spec

-----------------------------------------------------------------------------
(* The timers.                                                             *)

\* An invalidated timer leaves the run loop empty, whichever it was.
LEMMA InvalidatedIsEmpty ==
  ASSUME TimerTypeOK, OneTimer
  PROVE  Invalidated = [kind \in Timers |-> 0]
<1>1. CASE timer = "none"
  BY <1>1 DEF OneTimer, Invalidated, Timers
<1>2. CASE timer \in Timers
  <2>1. Invalidated = [runLoop EXCEPT ![timer] = @ - 1]
    BY <1>2 DEF Invalidated, Timers
  <2>2. \A kind \in Timers : Invalidated[kind] = 0
    BY <1>2, <2>1 DEF OneTimer
  <2> QED BY <1>2, <2>1, <2>2 DEF OneTimer
<1> QED
  BY <1>1, <1>2 DEF TimerTypeOK

\* A timer that is scheduled replaces the one there was.
LEMMA Scheduled ==
  ASSUME TimerTypeOK, OneTimer, NEW kind \in Timers, Schedule(kind)
  PROVE  OneTimer'
<1>1. runLoop' = [[other \in Timers |-> 0] EXCEPT ![kind] = @ + 1]
  BY InvalidatedIsEmpty, Zenon DEF Schedule
<1>2. runLoop' = [other \in Timers |-> IF other = kind THEN 1 ELSE 0]
  BY <1>1
<1> QED
  BY <1>2, Zenon DEF Schedule, OneTimer
\* A timer that is stopped leaves none.
LEMMA Unscheduled ==
  ASSUME TimerTypeOK, OneTimer, timer' = "none", runLoop' = Invalidated
  PROVE  OneTimer'
  BY InvalidatedIsEmpty DEF OneTimer, Timers

-----------------------------------------------------------------------------
(* The round.  The five invariants of the game hold together: a start only *)
(* sets the circle going because the flag that is toggled is in step, and  *)
(* a tick only does because the timer that fires is the one referred to.   *)
(* They need to know that no finger is down on a screen that is covered,   *)
(* so that no handler runs there, and that nothing runs before the screen  *)
(* is loaded, since viewDidLoad hides the overlay.                         *)

\* No finger is down on a covered screen.
FingersOnGame == held # {} => screen = "game"

\* No timer runs before the screen has loaded.
NotYetPlayed == screen = "loading" => timer = "none"

RoundInv ==
  /\ OneTimer /\ HitsAreReal /\ CheckerInStep
  /\ ViewsFollowTimer /\ ShieldIsVisible
  /\ FingersOnGame /\ NotYetPlayed

\* Before the first round.
LEMMA RoundFresh == Fresh => RoundInv
<1> SUFFICES ASSUME NEW store, Launched(store)
             PROVE  RoundInv
  BY DEF Fresh
<1>1. OneTimer /\ NotYetPlayed /\ FingersOnGame
  BY DEF Launched, OneTimer, NotYetPlayed, FingersOnGame, Timers
<1>2. HitsAreReal
  BY DEF Launched, HitsAreReal, OnTheSecond
<1>3. CheckerInStep /\ ShieldIsVisible
  BY Zenon DEF Launched, CheckerInStep, ShieldIsVisible
<1>4. ViewsFollowTimer
  BY DEF Launched, ViewsFollowTimer
<1> QED
  BY <1>1, <1>2, <1>3, <1>4 DEF RoundInv

\* A tick: the label is right, and the circle restarts for its own timer.
LEMMA RoundTick ==
  ASSUME TypeOK, RoundInv, NEW kind \in Timers, Tick(kind)
  PROVE  RoundInv'
<1>1. UNCHANGED <<timerVars, streakVars, trackColor, wood, overlayHidden,
                  confetti, touchVars>>
  BY DEF Tick
<1>2. /\ OneTimer' /\ CheckerInStep' /\ ShieldIsVisible'
      /\ NotYetPlayed' /\ FingersOnGame'
  BY <1>1 DEF RoundInv, OneTimer, CheckerInStep, ShieldIsVisible,
     NotYetPlayed, FingersOnGame, timerVars, streakVars, touchVars
<1>3. HitsAreReal'
  <2>1. /\ milliseconds + 1 \in Nat
        /\ milliseconds' = milliseconds + 1
        /\ seconds' = (milliseconds + 1) \div Second
        /\ suffix' = (milliseconds + 1) - Second * seconds'
    BY DEF TypeOK, ClockTypeOK, Tick, Display
  <2>2. Second * seconds' \in Nat
    BY <2>1, DisplaySplits, SecondIsPositive
  <2> QED
    BY <2>1, <2>2 DEF HitsAreReal, OnTheSecond
<1>4. ViewsFollowTimer'
  <2>1. timer = kind
    BY DEF RoundInv, OneTimer, Tick
  <2>2. circle' = "running" <=> circle = "running"
    BY <2>1 DEF RoundInv, ViewsFollowTimer, Tick
  <2> QED
    BY <1>1, <2>2 DEF RoundInv, ViewsFollowTimer, timerVars
<1> QED
  BY <1>2, <1>3, <1>4 DEF RoundInv

\* A start sets the circle going, since the toggled flag is in step.
LEMMA RoundStart ==
  ASSUME TypeOK, RoundInv, StartTapped
  PROVE  RoundInv'
<1>1. OneTimer'
  BY Scheduled DEF RoundInv, StartTapped, TypeOK, Timers
<1>2. HitsAreReal'
  BY DEF RoundInv, HitsAreReal, OnTheSecond, StartTapped
<1>3. CheckerInStep'
  BY Zenon DEF RoundInv, CheckerInStep, StartTapped, TypeOK, FlagTypeOK
<1>4. ViewsFollowTimer'
  <2>1. checkerCirlceProgress = TRUE /\ durationRotate # "still"
    BY DEF RoundInv, CheckerInStep, StartTapped, TypeOK, ViewTypeOK
  <2> QED
    BY <2>1 DEF ViewsFollowTimer, StartTapped, Schedule
<1>5. ShieldIsVisible'
  BY DEF ShieldIsVisible, StartTapped, RenewShield
<1>6. NotYetPlayed' /\ FingersOnGame'
  BY DEF RoundInv, NotYetPlayed, FingersOnGame, StartTapped, Lifted
<1> QED
  BY <1>1, <1>2, <1>3, <1>4, <1>5, <1>6 DEF RoundInv

\* A stop, by either button.
LEMMA RoundStops ==
  ASSUME TypeOK, RoundInv, StopTapped \/ ShopTappedInRound
  PROVE  RoundInv'
<1>1. /\ TimerStops /\ checkerCirlceProgress' = ~checkerCirlceProgress
      /\ isTimerRunning
  BY DEF StopTapped, ShopTappedInRound, ShopStopsRound
<1>2. OneTimer'
  BY <1>1, Unscheduled DEF RoundInv, TimerStops, TypeOK
<1>3. HitsAreReal'
  BY <1>1 DEF RoundInv, HitsAreReal, OnTheSecond, TimerStops, Hit, AfterHit,
     MissShielded, MissEndsStreak, Miss
<1>4. CheckerInStep'
  BY <1>1, Zenon DEF RoundInv, CheckerInStep, TimerStops, TypeOK, FlagTypeOK
<1>5. ViewsFollowTimer' /\ ShieldIsVisible'
  BY <1>1 DEF ViewsFollowTimer, ShieldIsVisible, TimerStops, SetUpTimer
<1>6. NotYetPlayed' /\ FingersOnGame'
  BY <1>1 DEF NotYetPlayed, FingersOnGame, TimerStops, StopTapped,
     ShopTappedInRound, StillHeld
<1> QED
  BY <1>2, <1>3, <1>4, <1>5, <1>6 DEF RoundInv

\* The ice power-up.
LEMMA RoundFreezes ==
  ASSUME TypeOK, RoundInv, IceTapped
  PROVE  RoundInv'
<1>1. OneTimer'
  BY Scheduled DEF RoundInv, IceTapped, TypeOK, Timers
<1>2. HitsAreReal' /\ CheckerInStep' /\ ShieldIsVisible'
  BY DEF RoundInv, HitsAreReal, OnTheSecond, CheckerInStep, ShieldIsVisible,
     IceTapped, clockVars, streakVars
<1>3. ViewsFollowTimer'
  BY DEF RoundInv, ViewsFollowTimer, IceTapped, SetUpTimer, Schedule
<1>4. NotYetPlayed' /\ FingersOnGame'
  BY DEF RoundInv, NotYetPlayed, FingersOnGame, IceTapped, Lifted
<1> QED
  BY <1>1, <1>2, <1>3, <1>4 DEF RoundInv

\* The green power-up.
LEMMA RoundShield ==
  ASSUME TypeOK, RoundInv, GreenTapped
  PROVE  RoundInv'
<1>1. /\ OneTimer' /\ HitsAreReal' /\ CheckerInStep' /\ ViewsFollowTimer'
  BY DEF RoundInv, OneTimer, HitsAreReal, OnTheSecond, CheckerInStep,
     ViewsFollowTimer, GreenTapped, clockVars, timerVars
<1>2. ShieldIsVisible'
  BY DEF ShieldIsVisible, GreenTapped
<1>3. NotYetPlayed' /\ FingersOnGame'
  BY DEF RoundInv, NotYetPlayed, FingersOnGame, GreenTapped, Lifted
<1> QED
  BY <1>1, <1>2, <1>3 DEF RoundInv

\* Whatever leaves the stopwatch, the streak and the views alone.
LEMMA RoundCovered ==
  ASSUME TypeOK, RoundInv,
         UNCHANGED <<clockVars, timerVars, greenActiveted, circle, trackColor,
                     wood, confetti>>,
         overlayHidden' = overlayHidden \/ screen = "loading",
         FingersOnGame', screen' = "loading" => screen = "loading"
  PROVE  RoundInv'
<1>1. OneTimer' /\ HitsAreReal' /\ CheckerInStep' /\ ShieldIsVisible'
  BY DEF RoundInv, OneTimer, HitsAreReal, OnTheSecond, CheckerInStep,
     ShieldIsVisible, clockVars, timerVars
<1>2. ViewsFollowTimer' /\ NotYetPlayed'
  BY DEF RoundInv, ViewsFollowTimer, NotYetPlayed, timerVars
<1> QED
  BY <1>1, <1>2 DEF RoundInv

\* Every step keeps the invariants of the round.
LEMMA RoundStep == TypeOK /\ RoundInv /\ [Next]_vars => RoundInv'
<1> SUFFICES ASSUME TypeOK, RoundInv, [Next]_vars PROVE RoundInv'
  OBVIOUS
<1>1. ASSUME NEW kind \in Timers, Tick(kind) PROVE RoundInv'
  BY <1>1, RoundTick
<1>2. CASE StartTapped
  BY <1>2, RoundStart
<1>3. CASE StopTapped \/ ShopTappedInRound
  BY <1>3, RoundStops
<1>4. CASE IceTapped
  BY <1>4, RoundFreezes
<1>5. CASE GreenTapped
  BY <1>5, RoundShield
<1>6. CASE ViewDidLoad \/ ViewDidAppear
  BY <1>6, RoundCovered
     DEF RoundInv, FingersOnGame, ViewDidLoad, ViewDidAppear, viewVars
<1>7. CASE \E button \in Buttons : TouchDown(button) \/ TouchCancelled(button)
  BY <1>7, RoundCovered
     DEF RoundInv, FingersOnGame, TouchDown, TouchCancelled, Hittable,
         gameVars, streakVars, viewVars
<1>8. CASE \/ ShopTapped \/ GameCenterTapped
           \/ AuthenticateHandler \/ CoverDismissed
  BY <1>8, RoundCovered
     DEF RoundInv, FingersOnGame, ShopTapped, GameCenterTapped,
         AuthenticateHandler, CoverDismissed, StillHeld, gameVars, streakVars,
         viewVars
<1>9. CASE ShopWrites \/ StoreStep \/ BoardStep \/ UNCHANGED vars
  BY <1>9, RoundCovered, ShopWritesOnlyStores
     DEF RoundInv, FingersOnGame, StoreStep, BoardStep, vars, touchVars,
         gameVars, streakVars, viewVars
<1> QED
  BY <1>1, <1>2, <1>3, <1>4, <1>5, <1>6, <1>7, <1>8, <1>9 DEF Next

\* The inductive invariant of the round.
LEMMA RoundSafe == Spec => []RoundInv
<1>1. Init => RoundInv
  BY InitIsFresh, RoundFresh
<1>2. TypeOK /\ RoundInv /\ [Next]_vars => RoundInv'
  BY RoundStep
<1> QED
  BY <1>1, <1>2, TypeCorrect, PTL DEF Spec

\* No timer runs that the controller cannot stop, whatever the order of the
\* buttons and even if a finger's release reaches a button that was hidden.
THEOREM OneTimerSafe == Spec => []OneTimer
<1>1. RoundInv => OneTimer
  BY DEF RoundInv
<1> QED
  BY <1>1, RoundSafe, PTL

\* A label that scores tells the true time, after any number of rounds.
THEOREM HitsAreRealSafe == Spec => []HitsAreReal
<1>1. RoundInv => HitsAreReal
  BY DEF RoundInv
<1> QED
  BY <1>1, RoundSafe, PTL

\* The toggled flag is in step with the timer, whichever button ends a round.
THEOREM CheckerInStepSafe == Spec => []CheckerInStep
<1>1. RoundInv => CheckerInStep
  BY DEF RoundInv
<1> QED
  BY <1>1, RoundSafe, PTL

\* The circle, the log, the overlay and the confetti show what the timer does.
THEOREM ViewsFollowTimerSafe == Spec => []ViewsFollowTimer
<1>1. RoundInv => ViewsFollowTimer
  BY DEF RoundInv
<1> QED
  BY <1>1, RoundSafe, PTL

\* During a round the track is green exactly when a miss would be forgiven.
THEOREM ShieldIsVisibleSafe == Spec => []ShieldIsVisible
<1>1. RoundInv => ShieldIsVisible
  BY DEF RoundInv
<1> QED
  BY <1>1, RoundSafe, PTL

-----------------------------------------------------------------------------
(* The counters.  A button only spends what the player has because what is *)
(* offered in a round is owned when it starts, and nothing but that button *)
(* takes it away while the round lasts: the copies are those of the store, *)
(* and the shop is not open.                                               *)

CountersInStep ==
  /\ acornNumber = defaults.acorn
  /\ greenNumber = defaults.green
  /\ iceNumber   = defaults.ice

\* In memory and in every store the disk has or will have.
Solvent ==
  /\ StoresOf(Nat)
  /\ acornNumber \in Nat /\ greenNumber \in Nat /\ iceNumber \in Nat

\* Only the shop, and the moment until the screen it left reads the store
\* again, lets the copies fall behind; no round goes on there.
CopiesInStep ==
  /\ isTimerRunning => screen \in {"game", "gameCenter", "appearing"}
  /\ isTimerRunning \/ screen \in {"loading", "game", "gameCenter"}
       => CountersInStep

BestInStep ==
  IF screen = "loading" THEN best = 0 /\ defaults.best >= 0
  ELSE best = defaults.best /\ boolCheckUserDefault

\* A power-up that is offered in a round, or that a finger is down on, is
\* one the player has.
OfferedIsOwned ==
  /\ isTimerRunning /\ iceEnabled   => iceNumber >= 1
  /\ isTimerRunning /\ greenEnabled => greenNumber >= 1

TouchedIsOwned ==
  /\ "ice"   \in held => iceNumber >= 1
  /\ "green" \in held => greenNumber >= 1

WalletInv ==
  /\ Solvent /\ CopiesInStep /\ BestInStep
  /\ OfferedIsOwned /\ TouchedIsOwned

\* At launch the controller has just read the store.
LEMMA WalletFresh == Fresh => WalletInv
<1> SUFFICES ASSUME NEW store \in StoreOf(Nat),
                    Opened(store), Launched(store)
             PROVE  WalletInv
  BY DEF Fresh
<1>1. store.best \in Nat
  BY DEF StoreOf
<1>2. Solvent
  BY <1>1 DEF Solvent, StoresOf, StoreOf, Opened, Launched
<1>3. CopiesInStep /\ BestInStep
  BY <1>1 DEF CopiesInStep, CountersInStep, BestInStep, Opened, Launched
<1>4. OfferedIsOwned /\ TouchedIsOwned
  BY DEF OfferedIsOwned, TouchedIsOwned, Launched
<1> QED
  BY <1>2, <1>3, <1>4 DEF WalletInv

\* A start offers what the player has.
LEMMA WalletStart ==
  ASSUME TypeOK, FingersOnGame, WalletInv, StartTapped
  PROVE  WalletInv'
<1>1. UNCHANGED <<walletVars, best, screen, storeVars>> /\ screen = "game"
  BY DEF StartTapped, FingersOnGame, Lifted
<1>2. Solvent' /\ CopiesInStep' /\ BestInStep'
  BY <1>1, StoreUnchanged DEF WalletInv, Solvent, CopiesInStep,
     CountersInStep, BestInStep, walletVars, storeVars
<1>3. OfferedIsOwned'
  <2>1. (iceEnabled' => iceNumber # 0) /\ (greenEnabled' => greenNumber # 0)
    BY Zenon DEF StartTapped, OfferPowerUps
  <2>2. /\ iceNumber' = iceNumber /\ greenNumber' = greenNumber
        /\ iceNumber \in Nat /\ greenNumber \in Nat
    BY <1>1 DEF WalletInv, Solvent, walletVars
  <2> QED
    BY <2>1, <2>2 DEF OfferedIsOwned
<1>4. TouchedIsOwned'
  BY <1>1 DEF WalletInv, TouchedIsOwned, StartTapped, StillHeld, walletVars
<1> QED
  BY <1>2, <1>3, <1>4 DEF WalletInv

\* A stop: the acorn, or the best score, is in both copies.
LEMMA WalletStops ==
  ASSUME TypeOK, FingersOnGame, WalletInv, StopTapped \/ ShopTappedInRound
  PROVE  WalletInv'
<1>1. /\ TimerStops /\ screen = "game" /\ screen' \in {"game", "shop"}
      /\ UNCHANGED <<greenNumber, iceNumber, boolCheckUserDefault>>
      /\ ~isTimerRunning'
  BY DEF StopTapped, ShopTappedInRound, ShopStopsRound, FingersOnGame, Lifted,
     TimerStops
<1>2. /\ CounterTypeOK /\ StoresOf(Nat) /\ acornNumber \in Nat
      /\ CountersInStep /\ best = defaults.best /\ best \in Nat
      /\ boolCheckUserDefault
  BY <1>1 DEF WalletInv, Solvent, CopiesInStep, BestInStep, TypeOK, StoresOf,
     StoreOf
<1>3. /\ StoresOf(Nat)'
      /\ defaults'.best = IF OnTheSecond THEN best
                          ELSE IF ~greenActiveted /\ NewBest THEN score
                          ELSE defaults.best
      /\ defaults'.acorn = IF OnTheSecond THEN acornNumber + 1
                           ELSE defaults.acorn
      /\ defaults'.green = defaults.green
      /\ defaults'.ice = defaults.ice
  BY <1>1, <1>2, TimerStopsStores
<1>4. acornNumber' \in Nat /\ acornNumber' = defaults'.acorn
  <2>1. acornNumber' = IF OnTheSecond THEN acornNumber + 1 ELSE acornNumber
    BY <1>1 DEF TimerStops, Hit, MissShielded, MissEndsStreak, Miss
  <2> QED
    BY <1>2, <1>3, <2>1 DEF CountersInStep
<1>5. best' = defaults'.best
  <2>1. best' = IF ~OnTheSecond /\ ~greenActiveted /\ NewBest THEN score
                ELSE best
    BY <1>1 DEF TimerStops, Hit, MissShielded, MissEndsStreak, Miss
  <2> QED
    BY <1>2, <1>3, <2>1
<1>6. Solvent' /\ CopiesInStep' /\ BestInStep'
  BY <1>1, <1>2, <1>3, <1>4, <1>5
     DEF WalletInv, Solvent, CopiesInStep, CountersInStep, BestInStep
<1>7. OfferedIsOwned' /\ TouchedIsOwned'
  BY <1>1 DEF WalletInv, OfferedIsOwned, TouchedIsOwned, StopTapped,
     ShopTappedInRound, StillHeld
<1> QED
  BY <1>6, <1>7 DEF WalletInv

\* The ice power-up: the finger was on one the player had.
LEMMA WalletFreezes ==
  ASSUME TypeOK, FingersOnGame, WalletInv, IceTapped
  PROVE  WalletInv'
<1>1. /\ iceNumber - 1 \in Nat /\ iceNumber' = iceNumber - 1
      /\ screen = "game" /\ screen' = "game"
      /\ UNCHANGED <<acornNumber, greenNumber, boolCheckUserDefault, best>>
  BY DEF WalletInv, Solvent, TouchedIsOwned, IceTapped, Lifted, FingersOnGame,
     streakVars
<1>2. StoresOf(Nat)' /\ defaults' = [defaults EXCEPT !.ice = iceNumber - 1]
  BY <1>1, IceTappedStores DEF WalletInv, Solvent
<1>3. Solvent' /\ CopiesInStep' /\ BestInStep'
  BY <1>1, <1>2 DEF WalletInv, Solvent, StoresOf, StoreOf, CopiesInStep,
     CountersInStep, BestInStep
<1>4. OfferedIsOwned' /\ TouchedIsOwned'
  BY <1>1 DEF WalletInv, OfferedIsOwned, TouchedIsOwned, IceTapped,
     SetUpTimer, StillHeld
<1> QED
  BY <1>3, <1>4 DEF WalletInv

\* The green power-up, likewise.
LEMMA WalletShield ==
  ASSUME TypeOK, FingersOnGame, WalletInv, GreenTapped
  PROVE  WalletInv'
<1>1. /\ greenNumber - 1 \in Nat /\ greenNumber' = greenNumber - 1
      /\ screen = "game" /\ screen' = "game"
      /\ UNCHANGED <<acornNumber, iceNumber, boolCheckUserDefault, best>>
  BY DEF WalletInv, Solvent, TouchedIsOwned, GreenTapped, Lifted, FingersOnGame
<1>2. StoresOf(Nat)' /\ defaults' = [defaults EXCEPT !.green = greenNumber - 1]
  BY <1>1, GreenTappedStores DEF WalletInv, Solvent
<1>3. Solvent' /\ CopiesInStep' /\ BestInStep'
  BY <1>1, <1>2 DEF WalletInv, Solvent, StoresOf, StoreOf, CopiesInStep,
     CountersInStep, BestInStep
<1>4. OfferedIsOwned' /\ TouchedIsOwned'
  BY <1>1 DEF WalletInv, OfferedIsOwned, TouchedIsOwned, GreenTapped,
     timerVars, StillHeld
<1> QED
  BY <1>3, <1>4 DEF WalletInv

\* Reading the store again: during a round it has nothing new to tell.
LEMMA WalletSetup ==
  ASSUME TypeOK, FingersOnGame, WalletInv, ViewDidLoad \/ ViewDidAppear
  PROVE  WalletInv'
<1>1. /\ SetupUserDefaultSetLabel
      /\ screen \in {"loading", "appearing"}
      /\ screen' \in {"appearing", "game"}
      /\ UNCHANGED <<isTimerRunning, iceEnabled, greenEnabled, held>>
      /\ held = {}
  BY DEF ViewDidLoad, ViewDidAppear, timerVars, viewVars, FingersOnGame
<1>2. StoresOf(Nat) /\ StoresOf(Nat)' /\ defaults'.best = defaults.best
  BY <1>1, SetupStores DEF WalletInv, Solvent
<1>3. BestInStep'
  BY <1>1, <1>2 DEF BestInStep, SetupUserDefaultSetLabel, ReloadCounters,
     GiveGift
<1>4. CountersInStep'
  <2>1. CASE ReloadCounters
    BY <2>1 DEF ReloadCounters, CountersInStep, storeVars
  <2>2. CASE GiveGift
    <3>1. CountersInStep
      BY <1>1, <2>2 DEF GiveGift, WalletInv, BestInStep, CopiesInStep
    <3> QED
      BY <1>2, <2>2, <3>1, GiveGiftStores DEF GiveGift, CountersInStep
  <2> QED
    BY <1>1, <2>1, <2>2 DEF SetupUserDefaultSetLabel
<1>5. Solvent'
  BY <1>2, <1>4 DEF Solvent, StoresOf, StoreOf, CountersInStep
<1>6. CopiesInStep'
  BY <1>1, <1>4 DEF WalletInv, CopiesInStep
<1>7. OfferedIsOwned' /\ TouchedIsOwned'
  <2>1. isTimerRunning => UNCHANGED <<iceNumber, greenNumber>>
    BY <1>1 DEF WalletInv, CopiesInStep, BestInStep, CountersInStep,
       SetupUserDefaultSetLabel, ReloadCounters, GiveGift
  <2> QED
    BY <1>1, <2>1 DEF WalletInv, OfferedIsOwned, TouchedIsOwned
<1> QED
  BY <1>3, <1>5, <1>6, <1>7 DEF WalletInv

\* The shop is only open between rounds.
LEMMA WalletShopWrites ==
  ASSUME TypeOK, FingersOnGame, WalletInv, ShopWrites
  PROVE  WalletInv'
<1>1. UNCHANGED <<gameVars, touchVars>> /\ screen = "shop"
  BY ShopWritesOnlyStores DEF ShopWrites
<1>2. StoresOf(Nat)' /\ defaults'.best = defaults.best
  BY ShopWritesStores DEF WalletInv, Solvent
<1> QED
  BY <1>1, <1>2 DEF WalletInv, Solvent, CopiesInStep, BestInStep,
     OfferedIsOwned, TouchedIsOwned, gameVars, timerVars, streakVars,
     walletVars, viewVars, touchVars

\* A screen that is covered, or about to come back.
ScreenMoves ==
  \/ screen' = screen
  \/ screen # "loading" /\ screen' = "appearing"
  \/ screen = "game" /\ screen' = "gameCenter"
  \/ screen = "game" /\ screen' = "shop" /\ ~isTimerRunning

\* Whatever leaves the counters and what is offered alone, and lets no finger
\* down on what is not offered.
LEMMA WalletKept ==
  ASSUME TypeOK, WalletInv, ScreenMoves,
         UNCHANGED <<walletVars, best, isTimerRunning, iceEnabled,
                     greenEnabled>>,
         StoresOf(Nat)', defaults' = defaults,
         \A button \in held' : button \in held \/ Hittable(button)
  PROVE  WalletInv'
<1>1. Solvent' /\ OfferedIsOwned'
  BY DEF WalletInv, Solvent, OfferedIsOwned, walletVars
<1>2. CopiesInStep'
  BY DEF WalletInv, CopiesInStep, CountersInStep, walletVars, ScreenMoves
<1>3. BestInStep'
  BY DEF WalletInv, BestInStep, walletVars, ScreenMoves
<1>4. TouchedIsOwned'
  BY DEF WalletInv, OfferedIsOwned, TouchedIsOwned, Hittable, walletVars
<1> QED
  BY <1>1, <1>2, <1>3, <1>4 DEF WalletInv

\* Every step keeps the counters in order.
LEMMA WalletStep ==
  TypeOK /\ FingersOnGame /\ WalletInv /\ [Next]_vars => WalletInv'
<1> SUFFICES ASSUME TypeOK, FingersOnGame, WalletInv, [Next]_vars
             PROVE  WalletInv'
  OBVIOUS
<1>1. ASSUME NEW kind \in Timers, Tick(kind) PROVE WalletInv'
  <2>1. /\ UNCHANGED <<walletVars, best, isTimerRunning, iceEnabled,
                       greenEnabled>>
        /\ UNCHANGED <<storeVars, touchVars>>
    BY <1>1 DEF Tick, timerVars, streakVars
  <2>2. StoresOf(Nat)' /\ defaults' = defaults
    BY <2>1, StoreUnchanged DEF WalletInv, Solvent
  <2>3. ScreenMoves /\ \A button \in held' : button \in held
    BY <2>1 DEF ScreenMoves, touchVars
  <2> QED
    BY <2>1, <2>2, <2>3, WalletKept
<1>2. CASE StartTapped
  BY <1>2, WalletStart
<1>3. CASE StopTapped \/ ShopTappedInRound
  BY <1>3, WalletStops
<1>4. CASE IceTapped
  BY <1>4, WalletFreezes
<1>5. CASE GreenTapped
  BY <1>5, WalletShield
<1>6. CASE ViewDidLoad \/ ViewDidAppear
  BY <1>6, WalletSetup
<1>7. CASE ShopWrites
  BY <1>7, WalletShopWrites
<1>8. CASE \/ \E button \in Buttons :
                TouchDown(button) \/ TouchCancelled(button)
           \/ ShopTapped \/ GameCenterTapped
           \/ AuthenticateHandler \/ CoverDismissed
           \/ StoreStep \/ BoardStep \/ UNCHANGED vars
  <2>1. /\ UNCHANGED gameVars
        /\ UNCHANGED storeVars \/ Synchronize
    BY <1>8 DEF TouchDown, TouchCancelled, ShopTapped, GameCenterTapped,
       AuthenticateHandler, CoverDismissed, StoreStep, BoardStep, vars
  <2>2. UNCHANGED <<walletVars, best, isTimerRunning, iceEnabled,
                    greenEnabled>>
    BY <2>1 DEF gameVars, timerVars, streakVars, viewVars
  <2>3. StoresOf(Nat)' /\ defaults' = defaults
    BY <2>1, StoreUnchanged, SynchronizeOne DEF WalletInv, Solvent
  <2>4. ScreenMoves
    BY <1>8 DEF ScreenMoves, FingersOnGame, Lifted, TouchDown,
       TouchCancelled, ShopTapped, GameCenterTapped, AuthenticateHandler,
       CoverDismissed, StoreStep, BoardStep, vars, touchVars
  <2>5. \A button \in held' : button \in held \/ Hittable(button)
    BY <1>8 DEF StillHeld, TouchDown, TouchCancelled, ShopTapped,
       GameCenterTapped, AuthenticateHandler, CoverDismissed, StoreStep,
       BoardStep, vars, touchVars
  <2> QED
    BY <2>2, <2>3, <2>4, <2>5, WalletKept
<1> QED
  BY <1>1, <1>2, <1>3, <1>4, <1>5, <1>6, <1>7, <1>8 DEF Next

\* The inductive invariant of the counters.
LEMMA WalletSafe == Spec => [](TypeOK /\ FingersOnGame /\ WalletInv)
<1>1. Init => WalletInv
  BY InitIsFresh, WalletFresh
<1>2. TypeOK /\ FingersOnGame /\ WalletInv /\ [Next]_vars => WalletInv'
  BY WalletStep
<1>3. RoundInv => FingersOnGame
  BY DEF RoundInv
<1> QED
  BY <1>1, <1>2, <1>3, TypeCorrect, RoundSafe, PTL DEF Spec

LEMMA NothingOverdrawn == WalletInv => NoOverdraft
<1> SUFFICES ASSUME WalletInv PROVE NoOverdraft
  OBVIOUS
<1>1. acornNumber >= 0 /\ greenNumber >= 0 /\ iceNumber >= 0
  BY DEF WalletInv, Solvent
<1>2. {defaults, disk} \cup {unsaved[i] : i \in 1..Len(unsaved)}
        \subseteq StoreOf(Nat)
  BY DEF WalletInv, Solvent, StoresOf
<1>3. \A store \in StoreOf(Nat) :
        store.acorn >= 0 /\ store.green >= 0 /\ store.ice >= 0
  BY DEF StoreOf
<1> QED
  BY <1>1, <1>2, <1>3 DEF NoOverdraft

LEMMA NothingBehind == WalletInv => CountersMirrored
  BY DEF WalletInv, CopiesInStep, CountersInStep, BestInStep, CountersMirrored

\* No counter is overdrawn, in memory, in the store or on its way to disk.
THEOREM NoOverdraftSafe == Spec => []NoOverdraft
  BY NothingOverdrawn, WalletSafe, PTL

\* While the game is in front it has what the store has.
THEOREM CountersMirroredSafe == Spec => []CountersMirrored
  BY NothingBehind, WalletSafe, PTL

\* Neither copy of the best score ever drops.
LEMMA BestGrows ==
  ASSUME TypeOK, FingersOnGame, WalletInv, [Next]_vars
  PROVE  best' >= best /\ defaults'.best >= defaults.best
<1>1. best \in Int /\ defaults.best \in Int /\ score \in Int
  BY DEF TypeOK, CounterTypeOK, StoreTypeOK, Store
<1>2. StoresOf(Nat) /\ CounterTypeOK /\ acornNumber \in Nat
  BY DEF WalletInv, Solvent, TypeOK
<1>3. CASE StopTapped \/ ShopTappedInRound
  <2>1. TimerStops /\ best = defaults.best
    BY <1>3 DEF StopTapped, ShopTappedInRound, ShopStopsRound, Lifted,
       FingersOnGame, WalletInv, BestInStep
  <2>2. defaults'.best = IF OnTheSecond THEN best
                         ELSE IF ~greenActiveted /\ NewBest THEN score
                         ELSE defaults.best
    BY <1>2, <2>1, TimerStopsStores DEF StoresOf, StoreOf
  <2>3. best' = best \/ (NewBest /\ best' = score)
    BY <2>1 DEF TimerStops, Hit, MissShielded, MissEndsStreak, Miss
  <2> QED
    BY <1>1, <2>1, <2>2, <2>3 DEF NewBest
<1>4. CASE ViewDidLoad \/ ViewDidAppear
  <2>1. SetupUserDefaultSetLabel /\ best <= defaults.best
    BY <1>1, <1>4 DEF ViewDidLoad, ViewDidAppear, WalletInv, BestInStep
  <2> QED
    BY <1>1, <1>2, <2>1, SetupStores DEF SetupUserDefaultSetLabel
<1>5. CASE ShopWrites
  <2>1. best' = best
    BY <1>5, ShopWritesOnlyStores
       DEF gameVars, streakVars
  <2>2. defaults'.best = defaults.best
    BY <1>2, <1>5, ShopWritesStores
  <2> QED
    BY <1>1, <2>1, <2>2
<1>6. CASE IceTapped \/ GreenTapped
  <2>1. \/ defaults' = [defaults EXCEPT !.ice = iceNumber - 1]
        \/ defaults' = [defaults EXCEPT !.green = greenNumber - 1]
    BY <1>6 DEF IceTapped, GreenTapped, Save
  <2> QED
    BY <1>1, <1>6, <2>1
       DEF TypeOK, StoreTypeOK, Store, IceTapped, GreenTapped, streakVars
<1>7. CASE UNCHANGED best /\ UNCHANGED defaults
  BY <1>1, <1>7
<1> QED
  BY <1>3, <1>4, <1>5, <1>6, <1>7
     DEF Next, Tick, StartTapped, TouchDown, TouchCancelled, ShopTapped,
         GameCenterTapped, AuthenticateHandler, CoverDismissed, StoreStep,
         Synchronize, BoardStep, vars, gameVars, streakVars, storeVars

\* No step loses a streak that beat the best score.
LEMMA StreakStep ==
  ASSUME TypeOK, FingersOnGame, WalletInv, [Next]_vars, score' < score
  PROVE  best' >= score /\ defaults'.best >= score
<1>1. StopTapped \/ ShopTappedInRound
  BY ShopWritesOnlyStores
     DEF Next, Tick, StartTapped, IceTapped, GreenTapped, TouchDown,
         TouchCancelled, ShopTapped, GameCenterTapped, AuthenticateHandler,
         CoverDismissed, ViewDidLoad, ViewDidAppear, StoreStep, BoardStep,
         vars, gameVars, streakVars, TypeOK, CounterTypeOK
<1>2. /\ TimerStops /\ best = defaults.best /\ StoresOf(Nat)
      /\ CounterTypeOK /\ acornNumber \in Nat /\ best \in Nat
  BY <1>1 DEF StopTapped, ShopTappedInRound, ShopStopsRound, Lifted,
     FingersOnGame, WalletInv, BestInStep, Solvent, TypeOK, StoresOf, StoreOf
<1>3. MissEndsStreak
  BY <1>2 DEF TimerStops, Hit, MissShielded, CounterTypeOK
<1> QED
  BY <1>2, <1>3, TimerStopsStores
     DEF MissEndsStreak, Miss, NewBest, CounterTypeOK

\* A streak that ends is in the store by then, if it was the best.
THEOREM StreakIsRecordedSafe == Spec => StreakIsRecorded
<1>1. TypeOK /\ FingersOnGame /\ WalletInv /\ [Next]_vars
        => [/\ score' < score => best' >= score /\ defaults'.best >= score
            /\ best' >= best]_vars
  BY StreakStep, BestGrows
<1> QED
  BY <1>1, WalletSafe, PTL DEF Spec, StreakIsRecorded

\* The leaderboard is sent best scores that the store has, and none other.
LEMMA BoardStepKeeps ==
  ASSUME TypeOK, FingersOnGame, WalletInv, WalletInv', TypeOK', BoardIsEarned,
         [Next]_vars
  PROVE  BoardIsEarned'
<1>1. /\ defaults.best \in Int /\ defaults'.best \in Int
      /\ inFlight \subseteq Int /\ leaderboard \in Int
  BY DEF TypeOK, BoardTypeOK, StoreTypeOK, Store
<1>2. defaults'.best >= defaults.best
  BY BestGrows
<1>3. CASE UNCHANGED boardVars
  BY <1>1, <1>2, <1>3 DEF BoardIsEarned, boardVars
<1>4. CASE BoardStep
  <2>1. PICK points \in inFlight :
          ReportAccepted(points) \/ ReportFailed(points)
    BY <1>4 DEF BoardStep
  <2>2. leaderboard' \in {leaderboard, points} /\ inFlight' \subseteq inFlight
    BY <2>1 DEF ReportAccepted, ReportFailed
  <2> QED
    BY <1>1, <1>2, <2>2 DEF BoardIsEarned
<1>5. CASE StartTapped \/ ShopTappedInRound
  <2>1. Report(best') /\ screen' # "loading"
    BY <1>5 DEF StartTapped, ShopTappedInRound, ShopStopsRound,
       CheckBestScore, FingersOnGame, Lifted
  <2>2. best' = defaults'.best
    BY <2>1 DEF WalletInv, BestInStep
  <2> QED
    BY <1>1, <1>2, <2>1, <2>2 DEF BoardIsEarned, Report
<1> QED
  BY <1>3, <1>4, <1>5, ShopWritesOnlyStores
     DEF Next, Tick, StopTapped, IceTapped, GreenTapped, TouchDown,
         TouchCancelled, ShopTapped, GameCenterTapped, AuthenticateHandler,
         CoverDismissed, ViewDidLoad, ViewDidAppear, StoreStep, vars

\* No report, sent or accepted, exceeds the best score in the store.
THEOREM BoardIsEarnedSafe == Spec => []BoardIsEarned
<1>1. Init => BoardIsEarned
  BY FoundStore DEF Init, Opened, BoardIsEarned, StoreOf
<1>2. TypeOK /\ FingersOnGame /\ WalletInv /\ TypeOK' /\ WalletInv'
        /\ BoardIsEarned /\ [Next]_vars => BoardIsEarned'
  <2> SUFFICES ASSUME TypeOK, FingersOnGame, WalletInv, TypeOK', WalletInv',
                      BoardIsEarned, [Next]_vars
               PROVE  BoardIsEarned'
    OBVIOUS
  <2> QED
    BY BoardStepKeeps
<1> QED
  BY <1>1, <1>2, WalletSafe, PTL DEF Spec

-----------------------------------------------------------------------------
(* Where a button that is hidden or disabled loses its finger.             *)

\* What is left of a time once its whole seconds are taken away.
LEMMA Remainder ==
  ASSUME NEW q \in Nat, NEW r \in 0..(Second - 1)
  PROVE  (Second * q + r) % Second = r
  BY SecondIsPositive

\* The part of a second that has passed, one tick later.
LEMMA NextRemainder ==
  ASSUME NEW m \in Nat
  PROVE  (m + 1) % Second =
           IF (m % Second) = Second - 1 THEN 0 ELSE (m % Second) + 1
<1> DEFINE q == m \div Second
           r == m % Second
<1>1. m = Second * q + r /\ r \in 0..(Second - 1) /\ q \in Nat
  BY SecondIsPositive
<1> HIDE DEF q
<1>2. CASE r = Second - 1
  <2>1. /\ m + 1 = Second * (q + 1) + 0
        /\ q + 1 \in Nat /\ 0 \in 0..(Second - 1)
    BY <1>1, <1>2, SecondIsPositive
  <2> QED
    BY <1>2, <2>1, Remainder
<1>3. CASE r # Second - 1
  <2>1. m + 1 = Second * q + (r + 1) /\ r + 1 \in 0..(Second - 1)
    BY <1>1, <1>3, SecondIsPositive
  <2> QED
    BY <1>1, <1>3, <2>1, Remainder
<1> QED
  BY <1>2, <1>3

\* Two counts that agree up to whole seconds go on to agree.
LEMMA LapsGoOn ==
  ASSUME NEW m \in Nat, NEW n \in Nat, m % Second = n % Second
  PROVE  (m + 1) % Second = (n + 1) % Second
  BY NextRemainder

\* A lap is a second ...
LEMMA LapIsASecond == (Second + 1) % Second = 1 % Second
  BY SecondIsPositive

\* ... and whole seconds are no part of one.
LEMMA WholeSeconds ==
  ASSUME NEW n \in Nat
  PROVE  (Second * n) % Second = 0 /\ 0 % Second = 0
  BY SecondIsPositive

\* With a strict UIKit a finger is only down on a button that can be hit.
TouchedIsHittable == \A button \in held : Hittable(button)

\* A round ends on a whole second: what a hit leaves on the stopwatch, or 0.
WholeWhenStopped == timer = "none" => milliseconds % Second = 0

StrictInv ==
  /\ TouchedIsHittable /\ TimerOnlyInRound
  /\ LapsMatchClock /\ WholeWhenStopped

\* Before the first round.
LEMMA StrictFresh == Fresh => StrictInv
<1> SUFFICES ASSUME NEW store, Launched(store)
             PROVE  StrictInv
  BY DEF Fresh
<1>1. TouchedIsHittable /\ TimerOnlyInRound
  BY DEF Launched, TouchedIsHittable, TimerOnlyInRound
<1>2. LapsMatchClock /\ WholeWhenStopped
  BY WholeSeconds DEF Launched, LapsMatchClock, WholeWhenStopped
<1> QED
  BY <1>1, <1>2 DEF StrictInv

\* A tick of the round and a lap of its circle go together.
LEMMA StrictTick ==
  ASSUME TypeOK, RoundInv, StrictInv, NEW kind \in Timers, Tick(kind)
  PROVE  StrictInv'
<1>1. UNCHANGED <<timer, isTimerRunning, iceEnabled, greenEnabled, held,
                  screen>>
  BY DEF Tick, timerVars, touchVars
<1>2. TouchedIsHittable' /\ TimerOnlyInRound'
  BY <1>1 DEF StrictInv, TouchedIsHittable, Hittable, TimerOnlyInRound
<1>3. timer = kind /\ milliseconds' = milliseconds + 1 /\ kind # "none"
  BY DEF RoundInv, OneTimer, Tick, Timers
<1>4. WholeWhenStopped'
  BY <1>1, <1>3 DEF WholeWhenStopped
<1>5. LapsMatchClock'
  <2>1. milliseconds \in Nat /\ count \in Nat
    BY SecondIsPositive DEF TypeOK, ClockTypeOK
  <2>2. CASE kind = "round" /\ LapDone
    <3>1. count' = 1 /\ count = Second
      BY <2>1, <2>2, SecondIsPositive DEF Tick, LapDone
    <3>2. (milliseconds + 1) % Second = (Second + 1) % Second
      BY <1>3, <2>1, <2>2, <3>1, LapsGoOn, SecondIsPositive
         DEF StrictInv, LapsMatchClock
    <3> QED
      BY <1>3, <3>1, <3>2, LapIsASecond DEF LapsMatchClock
  <2>3. CASE kind = "round" /\ ~LapDone
    <3>1. count' = count + 1
      BY <2>3 DEF Tick
    <3> QED
      BY <1>3, <2>1, <2>3, <3>1, LapsGoOn DEF StrictInv, LapsMatchClock
  <2>4. CASE kind = "ice"
    BY <1>1, <1>3, <2>4 DEF LapsMatchClock
  <2> QED
    BY <2>2, <2>3, <2>4 DEF Timers
<1> QED
  BY <1>2, <1>4, <1>5 DEF StrictInv

\* A start finds whole seconds on the stopwatch and restarts the laps.
LEMMA StrictStart ==
  ASSUME ~LateTouches, TypeOK, RoundInv, StrictInv, StartTapped
  PROVE  StrictInv'
<1>1. /\ timer' = "round" /\ isTimerRunning'
      /\ count' = 0 /\ milliseconds' = milliseconds
  BY DEF StartTapped, Schedule
<1>2. TimerOnlyInRound' /\ WholeWhenStopped'
  BY <1>1 DEF TimerOnlyInRound, WholeWhenStopped
<1>3. LapsMatchClock'
  BY <1>1, WholeSeconds DEF StrictInv, TimerOnlyInRound, WholeWhenStopped,
     LapsMatchClock, StartTapped
<1>4. TouchedIsHittable'
  BY DEF TouchedIsHittable, StartTapped, StillHeld
<1> QED
  BY <1>2, <1>3, <1>4 DEF StrictInv

\* A stop leaves the whole seconds of a hit, or none.
LEMMA StrictStops ==
  ASSUME ~LateTouches, TypeOK, RoundInv, StrictInv,
         StopTapped \/ ShopTappedInRound
  PROVE  StrictInv'
<1>1. TimerStops
  BY DEF StopTapped, ShopTappedInRound, ShopStopsRound
<1>2. TimerOnlyInRound' /\ LapsMatchClock'
  BY <1>1 DEF TimerOnlyInRound, LapsMatchClock, TimerStops
<1>3. WholeWhenStopped'
  <2>1. CASE Hit
    BY <2>1, WholeSeconds DEF Hit, AfterHit, RoundInv, HitsAreReal,
       WholeWhenStopped, TypeOK, ClockTypeOK
  <2>2. CASE Miss
    BY <2>2, WholeSeconds DEF Miss, Rewind, WholeWhenStopped
  <2> QED
    BY <1>1, <2>1, <2>2 DEF TimerStops, MissShielded, MissEndsStreak
<1>4. TouchedIsHittable'
  BY DEF TouchedIsHittable, StopTapped, ShopTappedInRound, StillHeld
<1> QED
  BY <1>2, <1>3, <1>4 DEF StrictInv

\* The ice power-up is only used in a round.
LEMMA StrictFreezes ==
  ASSUME ~LateTouches, TypeOK, RoundInv, StrictInv, IceTapped
  PROVE  StrictInv'
<1>1. isTimerRunning /\ timer' = "ice" /\ isTimerRunning' = isTimerRunning
  BY DEF StrictInv, TouchedIsHittable, Hittable, IceTapped, Lifted, Schedule
<1>2. TimerOnlyInRound' /\ LapsMatchClock' /\ WholeWhenStopped'
  BY <1>1 DEF TimerOnlyInRound, LapsMatchClock, WholeWhenStopped
<1>3. TouchedIsHittable'
  BY DEF TouchedIsHittable, IceTapped, StillHeld
<1> QED
  BY <1>2, <1>3 DEF StrictInv

\* Whatever leaves the stopwatch alone.
LEMMA StrictElse ==
  ASSUME TypeOK, RoundInv, StrictInv, TouchedIsHittable',
         UNCHANGED <<clockVars, timer, isTimerRunning>>
  PROVE  StrictInv'
  BY DEF StrictInv, TimerOnlyInRound, LapsMatchClock, WholeWhenStopped,
     clockVars

\* Every step keeps a strict game in time.
LEMMA StrictStep ==
  ASSUME ~LateTouches
  PROVE  TypeOK /\ RoundInv /\ StrictInv /\ [Next]_vars => StrictInv'
<1> SUFFICES ASSUME TypeOK, RoundInv, StrictInv, [Next]_vars PROVE StrictInv'
  OBVIOUS
<1>1. ASSUME NEW kind \in Timers, Tick(kind) PROVE StrictInv'
  BY <1>1, StrictTick
<1>2. CASE StartTapped
  BY <1>2, StrictStart
<1>3. CASE StopTapped \/ ShopTappedInRound
  BY <1>3, StrictStops
<1>4. CASE IceTapped
  BY <1>4, StrictFreezes
<1>5. CASE GreenTapped \/ ShopTapped \/ GameCenterTapped
  BY <1>5, StrictElse DEF TouchedIsHittable, StillHeld, GreenTapped,
     ShopTapped, GameCenterTapped, gameVars, timerVars
<1>6. CASE \/ AuthenticateHandler \/ CoverDismissed
           \/ ViewDidLoad \/ ViewDidAppear
  BY <1>6, StrictElse DEF RoundInv, FingersOnGame, TouchedIsHittable,
     AuthenticateHandler, CoverDismissed, ViewDidLoad, ViewDidAppear,
     gameVars, timerVars
<1>7. CASE \/ \E button \in Buttons :
                TouchDown(button) \/ TouchCancelled(button)
           \/ ShopWrites \/ StoreStep \/ BoardStep \/ UNCHANGED vars
  BY <1>7, StrictElse, ShopWritesOnlyStores
     DEF StrictInv, TouchedIsHittable, Hittable, TouchDown, TouchCancelled,
         StoreStep, BoardStep, vars, gameVars, timerVars, viewVars, touchVars
<1> QED
  BY <1>1, <1>2, <1>3, <1>4, <1>5, <1>6, <1>7 DEF Next

\* The inductive invariant of a strict game.
LEMMA StrictSafe ==
  ASSUME ~LateTouches
  PROVE  Spec => []StrictInv
<1>1. Init => StrictInv
  BY InitIsFresh, StrictFresh
<1>2. TypeOK /\ RoundInv /\ StrictInv /\ [Next]_vars => StrictInv'
  BY StrictStep
<1> QED
  BY <1>1, <1>2, TypeCorrect, RoundSafe, PTL DEF Spec

\* No timer runs outside a round.
THEOREM TimerOnlyInRoundSafe ==
  ASSUME ~LateTouches
  PROVE  Spec => []TimerOnlyInRound
<1>1. StrictInv => TimerOnlyInRound
  BY DEF StrictInv
<1> QED
  BY <1>1, StrictSafe, PTL

\* The circle restarts on the clock, through any number of rounds, laps and
\* hits, for any length of a second.
THEOREM LapsMatchClockSafe ==
  ASSUME ~LateTouches
  PROVE  Spec => []LapsMatchClock
<1>1. StrictInv => LapsMatchClock
  BY DEF StrictInv
<1> QED
  BY <1>1, StrictSafe, PTL

-----------------------------------------------------------------------------
(* The app.                                                                *)

\* What the segue runs first matters only if a round can end on the way to
\* the shop, and it cannot if a hidden button gets no late touch.
OrderlyShop == PrepareFirst => ~LateTouches

-----------------------------------------------------------------------------
(* The inductive invariant.                                                *)

\* The controller knows whether this installation had its gift.
GiftKnown == boolCheckUserDefault = defaults.bool

\* The shop opens on the counters of the store, and only after the gift.
ShopInv == screen = "shop" => Shop!CopiesInStep /\ defaults.bool

\* What ViewController keeps by itself.
GameInv ==
  /\ TypeOK /\ RoundInv /\ WalletInv
  /\ ~LateTouches => StrictInv

AppInv == GameInv /\ GiftKnown /\ ShopInv

-----------------------------------------------------------------------------
(* A purchase is what ViewController assumes of a shop.                    *)

\* The facts about the constants that the purchases need.
LEMMA PriceIsFixed ==
  Price \in Nat /\ MaxCounter \in Nat /\ MaxPowerUps \in 0..MaxCounter
  BY AppAssumption, ViewControllerAssumption

\* What a purchase writes, in terms of the store.
LEMMA PurchaseWrites ==
  ASSUME StoresOf(Nat), Shop!CopiesInStep, NEW row, Shop!DidSelect(row)
  PROVE  \E kind \in {"green", "ice"} :
           /\ defaults.acorn >= Price
           /\ defaults[kind] < MaxPowerUps
           /\ Save(<<[defaults EXCEPT !.acorn = @ - Price],
                     [defaults EXCEPT !.acorn = @ - Price,
                                      ![kind] = @ + 1]>>)
<1>1. defaults \in StoreOf(Nat)
  BY DEF StoresOf
<1>2. /\ shopAcorn = defaults.acorn /\ shopGreen = defaults.green
      /\ shopIce = defaults.ice /\ defaults.acorn >= Price
  BY DEF Shop!CopiesInStep, Shop!DidSelect, Shop!CanAfford
<1>3. Shop!BuyGreen \/ Shop!BuyIce
  BY DEF Shop!DidSelect
<1>4. CASE Shop!BuyGreen
  <2>1. defaults.green < MaxPowerUps
    BY <1>2, <1>4 DEF Shop!BuyGreen
  <2>2. Save(<<[defaults EXCEPT !.acorn = @ - Price],
               [defaults EXCEPT !.acorn = @ - Price, !["green"] = @ + 1]>>)
    BY <1>1, <1>2, <1>4
       DEF Shop!BuyGreen, Shop!Receipt, Shop!Save, Save, StoreOf
  <2> QED
    BY <1>2, <2>1, <2>2
<1>5. CASE Shop!BuyIce
  <2>1. defaults.ice < MaxPowerUps
    BY <1>2, <1>5 DEF Shop!BuyIce
  <2>2. Save(<<[defaults EXCEPT !.acorn = @ - Price],
               [defaults EXCEPT !.acorn = @ - Price, !["ice"] = @ + 1]>>)
    BY <1>1, <1>2, <1>5
       DEF Shop!BuyIce, Shop!Receipt, Shop!Save, Save, StoreOf
  <2> QED
    BY <1>2, <2>1, <2>2
<1> QED
  BY <1>3, <1>4, <1>5

\* So it is a step of that shop.
LEMMA PurchaseIsShopWrites ==
  ASSUME StoresOf(Nat), Shop!CopiesInStep, screen = "shop", NEW row,
         Shop!DidSelect(row), UNCHANGED <<gameVars, touchVars, boardVars>>
  PROVE  ShopWrites
<1>1. PICK kind \in {"green", "ice"} :
        /\ defaults.acorn >= Price
        /\ defaults[kind] < MaxPowerUps
        /\ Save(<<[defaults EXCEPT !.acorn = @ - Price],
                  [defaults EXCEPT !.acorn = @ - Price, ![kind] = @ + 1]>>)
  BY PurchaseWrites
<1>2. defaults \in StoreOf(Nat)
  BY DEF StoresOf
<1>3. /\ defaults.acorn - Price \in 0..defaults.acorn
      /\ defaults[kind] + 1 \in 0..MaxCounter
  BY <1>1, <1>2, PriceIsFixed DEF StoreOf
<1>4. CaughtUp
  BY DEF Shop!DidSelect, Shop!CaughtUp, CaughtUp
<1> QED
  BY <1>1, <1>2, <1>3, <1>4 DEF ShopWrites, StoreOf

-----------------------------------------------------------------------------
(* The steps of the app, as steps of the game screen.                      *)

Restarted == Fresh' /\ UNCHANGED boardVars

LEMMA RelaunchRestarts ==
  ASSUME StoresOf(Nat), Relaunch
  PROVE  Restarted
<1>1. PICK store \in StoreOf(Nat) : store = disk
  BY DEF StoresOf
<1>2. (Opened(store) /\ Launched(store))'
  BY <1>1 DEF Relaunch, Reopen, Opened, Launched
<1> QED
  BY <1>2 DEF Relaunch, Fresh, Restarted

\* Of the steps of the shop, those that write the store are ShopWrites.
LEMMA InShopIsAllowed ==
  ASSUME AppInv, InShop
  PROVE  [Next]_vars
<1>1. StoresOf(Nat) /\ screen = "shop" /\ Shop!CopiesInStep
      /\ UNCHANGED <<gameVars, touchVars, boardVars>>
  BY DEF AppInv, GameInv, WalletInv, Solvent, ShopInv, InShop
<1>2. CASE Shop!PowerUpAdded
  BY <1>1, <1>2 DEF Shop!PowerUpAdded, Shop!storeVars, storeVars, vars
<1>3. CASE \E row \in DOMAIN powerUps : Shop!DidSelect(row)
  BY <1>1, <1>3, PurchaseIsShopWrites DEF Next
<1> QED
  BY <1>2, <1>3 DEF InShop

\* Every step is one the game screen allows, or starts it anew.
LEMMA GameSteps ==
  ASSUME AppInv, [AppNext]_appVars
  PROVE  [Next]_vars \/ Restarted
<1>1. CASE InGame
  BY <1>1 DEF InGame, Next
<1>2. CASE OpenShop \/ OpenShopInRound
  BY <1>2 DEF OpenShop, OpenShopInRound, Next
<1>3. CASE InShop
  BY <1>3, InShopIsAllowed
<1>4. CASE Relaunch
  BY <1>4, RelaunchRestarts DEF AppInv, GameInv, WalletInv, Solvent
<1>5. CASE UNCHANGED appVars
  BY <1>5 DEF appVars, vars
<1> QED
  BY <1>1, <1>2, <1>3, <1>4, <1>5 DEF AppNext

LEMMA BoardTypeKept ==
  ASSUME BoardTypeOK, UNCHANGED boardVars
  PROVE  BoardTypeOK'
  BY DEF BoardTypeOK, boardVars

LEMMA GameInvStep ==
  GameInv /\ ([Next]_vars \/ Restarted) => GameInv'
<1>1. GameInv /\ [Next]_vars => GameInv'
  BY TypeStep, RoundStep, WalletStep, StrictStep DEF GameInv, RoundInv
<1>2. Fresh' /\ BoardTypeOK' => TypeOK'
  BY TypeFresh, PTL
<1>3. Fresh' => RoundInv'
  BY RoundFresh, PTL
<1>4. Fresh' => WalletInv'
  BY WalletFresh, PTL
<1>5. Fresh' => StrictInv'
  BY StrictFresh, PTL
<1>6. GameInv /\ Restarted => GameInv'
  BY <1>2, <1>3, <1>4, <1>5, BoardTypeKept DEF GameInv, TypeOK, Restarted
<1> QED
  BY <1>1, <1>6

-----------------------------------------------------------------------------
(* What each handler writes.                                               *)

\* In a round the controller's copies are the counters of the store, and the
\* gift was given.
LEMMA InRound ==
  ASSUME AppInv, NEW button, Lifted(button)
  PROVE  /\ screen = "game" /\ CountersInStep
         /\ best = defaults.best /\ boolCheckUserDefault /\ defaults.bool
         /\ defaults \in StoreOf(Nat) /\ score \in Nat
         /\ defaults.acorn \in Nat /\ defaults.green \in Nat
         /\ defaults.ice \in Nat
<1>1. screen = "game"
  BY DEF AppInv, GameInv, RoundInv, FingersOnGame, Lifted
<1>2. /\ CountersInStep /\ best = defaults.best /\ boolCheckUserDefault
      /\ defaults.bool /\ defaults \in StoreOf(Nat) /\ score \in Nat
  BY <1>1 DEF AppInv, GameInv, WalletInv, CopiesInStep, BestInStep, GiftKnown,
     Solvent, StoresOf, TypeOK, CounterTypeOK
<1> QED
  BY <1>1, <1>2 DEF StoreOf

\* A round that ends writes an acorn, a best score or nothing.
LEMMA EndOfRound ==
  ASSUME AppInv, NEW button, Lifted(button), TimerStops
  PROVE  \/ /\ score' = score + 1
            /\ acornNumber' = defaults.acorn + 1
            /\ Save(<<[defaults EXCEPT !.acorn = @ + 1]>>)
         \/ /\ score' <= score
            /\ UNCHANGED acornNumber
            /\ \/ Save(<<[defaults EXCEPT !.best = score]>>)
               \/ UNCHANGED storeVars
<1>1. /\ acornNumber = defaults.acorn /\ best = defaults.best
      /\ defaults \in StoreOf(Nat) /\ score \in Nat
  BY InRound DEF CountersInStep
<1>2. CASE Hit
  <2>1. [defaults EXCEPT !.acorn = acornNumber + 1, !.best = best]
          = [defaults EXCEPT !.acorn = @ + 1]
    BY <1>1 DEF StoreOf
  <2> QED
    BY <1>1, <1>2, <2>1 DEF Hit
<1>3. CASE MissShielded
  BY <1>1, <1>3 DEF MissShielded, Miss
<1>4. CASE MissEndsStreak
  BY <1>1, <1>4 DEF MissEndsStreak, Miss
<1> QED
  BY <1>2, <1>3, <1>4 DEF TimerStops

LEMMA IceIsTaken ==
  ASSUME AppInv, IceTapped
  PROVE  /\ defaults.ice > 0 /\ score' = score
         /\ Save(<<[defaults EXCEPT !.ice = @ - 1]>>)
<1>1. Lifted("ice") /\ "ice" \in held
  BY DEF IceTapped, Lifted
<1>2. iceNumber = defaults.ice /\ defaults.ice \in Nat
  BY <1>1, InRound DEF CountersInStep
<1>3. iceNumber >= 1
  BY <1>1 DEF AppInv, GameInv, WalletInv, TouchedIsOwned
<1> QED
  BY <1>2, <1>3 DEF IceTapped, streakVars

LEMMA GreenIsTaken ==
  ASSUME AppInv, GreenTapped
  PROVE  /\ defaults.green > 0 /\ score' = score
         /\ Save(<<[defaults EXCEPT !.green = @ - 1]>>)
<1>1. Lifted("green") /\ "green" \in held
  BY DEF GreenTapped, Lifted
<1>2. greenNumber = defaults.green /\ defaults.green \in Nat
  BY <1>1, InRound DEF CountersInStep
<1>3. greenNumber >= 1
  BY <1>1 DEF AppInv, GameInv, WalletInv, TouchedIsOwned
<1> QED
  BY <1>2, <1>3 DEF GreenTapped

\* The gift is given to a controller that has just loaded, so what it has
\* nothing of is what the store has nothing of.
LEMMA GiftIsFirst ==
  ASSUME AppInv, ViewDidLoad \/ ViewDidAppear, GiveGift
  PROVE  CountersInStep /\ ~defaults.bool
  BY DEF AppInv, GameInv, WalletInv, BestInStep, CopiesInStep, GiftKnown,
     GiveGift, ViewDidLoad, ViewDidAppear

-----------------------------------------------------------------------------
(* The inductive invariant holds.                                          *)

\* Writing anything but the flag leaves the flag as it was.
LEMMA FlagIsKept ==
  ASSUME NEW store \in StoreOf(Nat), NEW key \in {"acorn", "green", "ice", "best"},
         NEW number
  PROVE  [store EXCEPT ![key] = number].bool = store.bool
  BY DEF StoreOf

\* Only a gift changes whether a gift was given.
LEMMA GiftKnownStep ==
  ASSUME AppInv, [AppNext]_appVars
  PROVE  GiftKnown'
<1>1. GiftKnown /\ defaults \in StoreOf(Nat) /\ StoresOf(Nat)
  BY DEF AppInv, GameInv, WalletInv, Solvent, StoresOf
<1>2. CASE Relaunch
  BY <1>2 DEF Relaunch, Reopen, GiftKnown
<1>3. CASE StopTapped \/ ShopTappedInRound
  <2>1. /\ TimerStops /\ boolCheckUserDefault' = boolCheckUserDefault
        /\ Lifted("startStop") \/ Lifted("shop")
    BY <1>3 DEF StopTapped, ShopTappedInRound, ShopStopsRound, TimerStops
  <2>2. defaults' = [defaults EXCEPT !.acorn = @ + 1]
        \/ defaults' = [defaults EXCEPT !.best = score]
        \/ defaults' = defaults
    BY <2>1, EndOfRound DEF Save, storeVars
  <2> QED
    BY <1>1, <2>1, <2>2 DEF GiftKnown, StoreOf
<1>4. CASE IceTapped
  <2>1. defaults' = [defaults EXCEPT !.ice = @ - 1]
    BY <1>4, IceIsTaken DEF Save
  <2> QED
    BY <1>1, <1>4, <2>1 DEF GiftKnown, StoreOf, IceTapped
<1>5. CASE GreenTapped
  <2>1. defaults' = [defaults EXCEPT !.green = @ - 1]
    BY <1>5, GreenIsTaken DEF Save
  <2> QED
    BY <1>1, <1>5, <2>1 DEF GiftKnown, StoreOf, GreenTapped
<1>6. CASE ViewDidLoad \/ ViewDidAppear
  <2>1. ReloadCounters \/ GiveGift
    BY <1>6 DEF ViewDidLoad, ViewDidAppear, SetupUserDefaultSetLabel
  <2>2. CASE ReloadCounters
    BY <1>1, <2>2 DEF GiftKnown, ReloadCounters, storeVars
  <2>3. CASE GiveGift
    <3>1. PICK store \in StoreOf(Nat) : defaults' = [store EXCEPT !.bool = TRUE]
      BY <1>1, <2>3, WriteCounter, GiftIsCounted DEF GiveGift, Save
    <3> QED
      BY <2>3, <3>1 DEF GiftKnown, GiveGift, StoreOf
  <2> QED
    BY <2>1, <2>2, <2>3
<1>7. CASE InShop
  <2>1. boolCheckUserDefault' = boolCheckUserDefault
    BY <1>7 DEF InShop, gameVars, walletVars
  <2>2. CASE Shop!PowerUpAdded
    BY <1>1, <2>1, <2>2 DEF GiftKnown, Shop!PowerUpAdded, Shop!storeVars
  <2>3. CASE \E row \in DOMAIN powerUps : Shop!DidSelect(row)
    <3>1. PICK kind \in {"green", "ice"} :
            defaults' = [defaults EXCEPT !.acorn = @ - Price, ![kind] = @ + 1]
      BY <1>1, <1>7, <2>3, PurchaseWrites DEF AppInv, ShopInv, InShop, Save
    <3> QED
      BY <1>1, <2>1, <3>1 DEF GiftKnown, StoreOf
  <2> QED
    BY <1>7, <2>2, <2>3 DEF InShop
<1>8. CASE OpenShop \/ GameCenterTapped \/ AuthenticateHandler \/ CoverDismissed
           \/ (\E button \in Buttons :
                 TouchDown(button) \/ TouchCancelled(button))
           \/ StoreStep \/ BoardStep \/ UNCHANGED appVars \/ StartTapped
           \/ \E kind \in Timers : Tick(kind)
  BY <1>1, <1>8
     DEF OpenShop, ShopTapped, GameCenterTapped, AuthenticateHandler,
         CoverDismissed, TouchDown, TouchCancelled, StoreStep, Synchronize,
         BoardStep, StartTapped, Tick, appVars, vars, gameVars, walletVars,
         storeVars, GiftKnown
<1> QED
  BY <1>2, <1>3, <1>4, <1>5, <1>6, <1>7, <1>8
     DEF AppNext, InGame, OpenShopInRound

\* The shop is handed the counters of the store, and keeps up with it.
LEMMA ShopInvStep ==
  ASSUME OrderlyShop, AppInv, [AppNext]_appVars
  PROVE  ShopInv'
<1>1. ShopInv /\ StoresOf(Nat) /\ defaults \in StoreOf(Nat) /\ TypeOK
  BY DEF AppInv, GameInv, WalletInv, Solvent, StoresOf
<1>2. CASE OpenShop
  <2>1. Lifted("shop") /\ UNCHANGED <<gameVars, storeVars>>
    BY <1>2 DEF OpenShop, ShopTapped
  <2>2. CountersInStep /\ defaults.bool
    BY <2>1, InRound
  <2> QED
    BY <1>2, <2>1, <2>2
       DEF OpenShop, HandOver, Shop!Handed, ShopInv, Shop!CopiesInStep,
           CountersInStep, storeVars
<1>3. CASE OpenShopInRound
  <2>1. /\ isTimerRunning /\ Lifted("shop") /\ TimerStops
        /\ UNCHANGED <<greenNumber, iceNumber>>
    BY <1>3 DEF OpenShopInRound, ShopTappedInRound, ShopStopsRound, TimerStops
  <2>2. LateTouches
    BY <2>1 DEF AppInv, GameInv, StrictInv, TouchedIsHittable, Hittable, Lifted
  <2>3. Shop!Handed(acornNumber', greenNumber, iceNumber)
    BY <1>3, <2>2 DEF OpenShopInRound, HandOver, OrderlyShop
  <2>4. CountersInStep /\ defaults.bool
    BY <2>1, InRound
  <2>5. \/ /\ acornNumber' = defaults.acorn + 1
           /\ defaults' = [defaults EXCEPT !.acorn = @ + 1]
        \/ /\ acornNumber' = acornNumber
           /\ \/ defaults' = [defaults EXCEPT !.best = score]
              \/ defaults' = defaults
    BY <2>1, EndOfRound DEF Save, storeVars
  <2> QED
    BY <1>1, <2>3, <2>4, <2>5
       DEF Shop!Handed, ShopInv, Shop!CopiesInStep, CountersInStep, StoreOf
<1>4. CASE InShop
  <2>1. screen = "shop" /\ screen' = "shop"
    BY <1>4 DEF InShop, touchVars
  <2>2. Shop!CopiesInStep /\ defaults.bool
    BY <1>1, <2>1 DEF ShopInv
  <2>3. CASE Shop!PowerUpAdded
    BY <2>2, <2>3
       DEF Shop!PowerUpAdded, Shop!purseVars, Shop!storeVars, ShopInv,
           Shop!CopiesInStep
  <2>4. ASSUME NEW row, Shop!DidSelect(row)
        PROVE  ShopInv'
    <3>1. shopAcorn = defaults.acorn /\ shopGreen = defaults.green
          /\ shopIce = defaults.ice
      BY <2>2 DEF Shop!CopiesInStep
    <3>2. CASE Shop!BuyGreen
      <4>1. defaults' = [[defaults EXCEPT !.acorn = defaults.acorn - Price]
                           EXCEPT !["green"] = defaults.green + 1]
        BY <3>1, <3>2 DEF Shop!BuyGreen, Shop!Receipt, Shop!Save
      <4> QED
        BY <1>1, <2>2, <2>4, <3>1, <3>2, <4>1
           DEF Shop!DidSelect, Shop!BuyGreen, ShopInv, Shop!CopiesInStep,
               StoreOf
    <3>3. CASE Shop!BuyIce
      <4>1. defaults' = [[defaults EXCEPT !.acorn = defaults.acorn - Price]
                           EXCEPT !["ice"] = defaults.ice + 1]
        BY <3>1, <3>3 DEF Shop!BuyIce, Shop!Receipt, Shop!Save
      <4> QED
        BY <1>1, <2>2, <2>4, <3>1, <3>3, <4>1
           DEF Shop!DidSelect, Shop!BuyIce, ShopInv, Shop!CopiesInStep,
               StoreOf
    <3> QED
      BY <2>4, <3>2, <3>3 DEF Shop!DidSelect
  <2> QED
    BY <1>4, <2>3, <2>4 DEF InShop
<1>5. CASE Relaunch
  BY <1>5 DEF Relaunch, ShopInv
<1>6. CASE InGame /\ StoreStep
  BY <1>1, <1>6
     DEF InGame, StoreStep, Synchronize, touchVars, shopVars, ShopInv,
         Shop!CopiesInStep
<1>7. CASE \/ InGame /\ ((\E button \in Buttons :
                           TouchDown(button) \/ TouchCancelled(button))
                         \/ (\E kind \in Timers : Tick(kind)) \/ BoardStep)
           \/ UNCHANGED appVars
  BY <1>1, <1>7
     DEF InGame, TouchDown, TouchCancelled, Tick, BoardStep, appVars, vars,
         touchVars, storeVars, shopVars, ShopInv, Shop!CopiesInStep
<1>8. CASE \/ StartTapped \/ StopTapped \/ IceTapped \/ GreenTapped
           \/ GameCenterTapped \/ AuthenticateHandler \/ CoverDismissed
           \/ ViewDidLoad \/ ViewDidAppear
  <2>1. screen' # "shop"
    <3>1. ASSUME NEW button, Lifted(button) PROVE screen = "game"
      BY <3>1, InRound
    <3> QED
      BY <1>8, <3>1
         DEF StartTapped, StopTapped, IceTapped, GreenTapped,
             GameCenterTapped, AuthenticateHandler, CoverDismissed,
             ViewDidLoad, ViewDidAppear
  <2> QED
    BY <2>1 DEF ShopInv
<1> QED
  BY <1>2, <1>3, <1>4, <1>5, <1>6, <1>7, <1>8 DEF AppNext, InGame

LEMMA AppInitially == AppInit => AppInv
<1> SUFFICES ASSUME AppInit PROVE AppInv
  OBVIOUS
<1>1. Init /\ Fresh /\ BoardTypeOK
  BY InitIsFresh DEF AppInit
<1>2. GameInv
  BY <1>1, TypeFresh, RoundFresh, WalletFresh, StrictFresh DEF GameInv
<1>3. screen = "loading" /\ GiftKnown
  BY <1>1 DEF Fresh, Launched, Opened, GiftKnown
<1> QED
  BY <1>2, <1>3 DEF AppInv, ShopInv

LEMMA AppStep ==
  ASSUME OrderlyShop
  PROVE  AppInv /\ [AppNext]_appVars => AppInv'
<1> SUFFICES ASSUME AppInv, [AppNext]_appVars PROVE AppInv'
  OBVIOUS
<1>1. GameInv'
  BY GameSteps, GameInvStep DEF AppInv
<1> QED
  BY <1>1, GiftKnownStep, ShopInvStep DEF AppInv

LEMMA AppSafe ==
  ASSUME OrderlyShop
  PROVE  AppSpec => []AppInv
<1>1. AppInv /\ [AppNext]_appVars => AppInv'
  BY AppStep
<1> QED
  BY <1>1, AppInitially, PTL DEF AppSpec

\* While the shop is in front its copies are the counters of the store, after
\* any number of rounds, purchases and deaths.
THEOREM ShopMirrorsStoreSafe ==
  ASSUME OrderlyShop
  PROVE  AppSpec => []ShopMirrorsStore
<1>1. AppInv => ShopMirrorsStore
  BY DEF AppInv, ShopInv, ShopMirrorsStore
<1> QED
  BY <1>1, AppSafe, PTL

-----------------------------------------------------------------------------
(* The game and the shop keep what each assumes of the other.              *)

\* A purchase is all the shop does to the store while it is in front.
LEMMA ShopPartStep ==
  ASSUME AppInv, [AppNext]_appVars,
         screen = "shop", screen' = "shop", unsaved # unsaved'
  PROVE  ShopWrites \/ StoreStep
<1>1. ASSUME NEW button, Lifted(button) PROVE FALSE
  BY <1>1, InRound
<1>2. CASE InShop
  <2>1. ~Shop!PowerUpAdded
    BY DEF Shop!PowerUpAdded, Shop!storeVars
  <2> QED
    BY <1>2, <2>1, PurchaseIsShopWrites
       DEF InShop, AppInv, GameInv, WalletInv, Solvent, ShopInv
<1> QED
  BY <1>1, <1>2
     DEF AppNext, InGame, OpenShop, ShopTapped, OpenShopInRound,
         ShopTappedInRound, Relaunch, TouchDown, TouchCancelled, Tick,
         StartTapped, StopTapped, IceTapped, GreenTapped, GameCenterTapped,
         AuthenticateHandler, CoverDismissed, ViewDidLoad, ViewDidAppear,
         BoardStep, storeVars, appVars, vars

\* What ViewController assumes of a shop is all that the shop does.
THEOREM ShopKeepsItsPartSafe ==
  ASSUME OrderlyShop
  PROVE  AppSpec => ShopKeepsItsPart
<1>1. AppInv /\ [AppNext]_appVars
        => [screen = "shop" /\ screen' = "shop" /\ unsaved # unsaved'
              => ShopWrites \/ StoreStep]_vars
  BY ShopPartStep
<1> QED
  BY <1>1, AppSafe, PTL DEF AppSpec, ShopKeepsItsPart

\* What ViewController keeps over the stores its specification begins with it
\* keeps over what any death leaves on disk, and with the real shop in the
\* place of the one it assumes.
THEOREM GameIsSafeInApp ==
  ASSUME OrderlyShop
  PROVE  AppSpec => [](/\ TypeOK /\ OneTimer /\ HitsAreReal /\ CheckerInStep
                       /\ ViewsFollowTimer /\ ShieldIsVisible
                       /\ NoOverdraft /\ CountersMirrored)
<1>1. AppInv => /\ TypeOK /\ OneTimer /\ HitsAreReal /\ CheckerInStep
                /\ ViewsFollowTimer /\ ShieldIsVisible
                /\ NoOverdraft /\ CountersMirrored
  BY NothingOverdrawn, NothingBehind DEF AppInv, GameInv, RoundInv
<1> QED
  BY <1>1, AppSafe, PTL

-----------------------------------------------------------------------------
(* The counters of the store are one account.                              *)

LEMMA AccountType ==
  ASSUME NEW store \in StoreOf(Nat)
  PROVE  AccountOf(store) \in Purse!Account
  BY DEF AccountOf, StoreOf, Purse!Account

\* What a write does to the store it does to the account; the best score is
\* no part of it.
LEMMA AccountWrites ==
  ASSUME NEW store \in StoreOf(Nat), NEW number
  PROVE  /\ AccountOf([store EXCEPT !.acorn = number])
              = [AccountOf(store) EXCEPT !.acorn = number]
         /\ AccountOf([store EXCEPT !.green = number])
              = [AccountOf(store) EXCEPT !.green = number]
         /\ AccountOf([store EXCEPT !.ice = number])
              = [AccountOf(store) EXCEPT !.ice = number]
         /\ AccountOf([store EXCEPT !.bool = number])
              = [AccountOf(store) EXCEPT !.gifted = number]
         /\ AccountOf([store EXCEPT !.best = number]) = AccountOf(store)
  BY DEF AccountOf, StoreOf

LEMMA AccountCounts ==
  ASSUME NEW store \in StoreOf(Nat)
  PROVE  /\ AccountOf([store EXCEPT !.acorn = @ + 1])
              = [AccountOf(store) EXCEPT !.acorn = @ + 1]
         /\ AccountOf([store EXCEPT !.green = @ - 1])
              = [AccountOf(store) EXCEPT !["green"] = @ - 1]
         /\ AccountOf([store EXCEPT !.ice = @ - 1])
              = [AccountOf(store) EXCEPT !["ice"] = @ - 1]
<1> DEFINE acorn == store.acorn + 1
           green == store.green - 1
           ice   == store.ice - 1
<1>1. /\ acorn = AccountOf(store).acorn + 1
      /\ green = AccountOf(store).green - 1
      /\ ice   = AccountOf(store).ice - 1
  BY DEF AccountOf
<1> HIDE DEF acorn, green, ice
<1>2. /\ AccountOf([store EXCEPT !.acorn = acorn])
           = [AccountOf(store) EXCEPT !.acorn = acorn]
      /\ AccountOf([store EXCEPT !.green = green])
           = [AccountOf(store) EXCEPT !.green = green]
      /\ AccountOf([store EXCEPT !.ice = ice])
           = [AccountOf(store) EXCEPT !.ice = ice]
  BY AccountWrites
<1>3. /\ [store EXCEPT !.acorn = acorn] = [store EXCEPT !.acorn = @ + 1]
      /\ [store EXCEPT !.green = green] = [store EXCEPT !.green = @ - 1]
      /\ [store EXCEPT !.ice = ice] = [store EXCEPT !.ice = @ - 1]
  BY DEF acorn, green, ice
<1>4. /\ [AccountOf(store) EXCEPT !.acorn = acorn]
           = [AccountOf(store) EXCEPT !.acorn = @ + 1]
      /\ [AccountOf(store) EXCEPT !.green = green]
           = [AccountOf(store) EXCEPT !["green"] = @ - 1]
      /\ [AccountOf(store) EXCEPT !.ice = ice]
           = [AccountOf(store) EXCEPT !["ice"] = @ - 1]
  BY <1>1
<1> QED
  BY <1>2, <1>3, <1>4

LEMMA MappedSequence ==
  ASSUME NEW S, NEW n \in Nat, NEW s, s = [i \in 1..n |-> s[i]],
         \A i \in 1..n : s[i] \in S
  PROVE  s \in Seq(S) /\ Len(s) = n
  OBVIOUS

\* The trail of the account: what is on disk, and then what is queued.
LEMMA TrailOfStores ==
  ASSUME StoresOf(Nat)
  PROVE  /\ Trail \in Seq(Purse!Account)
         /\ Len(Trail) = 1 + Len(unsaved)
         /\ Trail[1] = AccountOf(disk)
         /\ \A i \in 1..Len(unsaved) : Trail[i + 1] = AccountOf(unsaved[i])
<1> DEFINE stores == <<disk>> \o unsaved
<1>1. /\ stores \in Seq(StoreOf(Nat)) /\ Len(stores) = 1 + Len(unsaved)
      /\ stores[1] = disk
      /\ \A i \in 1..Len(unsaved) : stores[i + 1] = unsaved[i]
  BY DEF StoresOf
<1>2. Trail = [i \in 1..Len(stores) |-> AccountOf(stores[i])]
  BY DEF Trail
<1>3. \A i \in 1..Len(stores) : AccountOf(stores[i]) \in Purse!Account
  BY <1>1, AccountType
<1>4. Len(unsaved) \in Nat /\ Len(stores) \in Nat
  BY <1>1 DEF StoresOf
<1> HIDE DEF stores
<1>5. Trail \in Seq(Purse!Account) /\ Len(Trail) = Len(stores)
  <2>1. /\ Trail = [i \in 1..Len(stores) |-> Trail[i]]
        /\ \A i \in 1..Len(stores) : Trail[i] \in Purse!Account
    BY <1>2, <1>3
  <2> QED
    BY <1>4, <2>1, MappedSequence
<1>6. \A i \in 1..Len(stores) : Trail[i] = AccountOf(stores[i])
  BY <1>2
<1>7. Trail[1] = AccountOf(disk)
  BY <1>1, <1>4, <1>6
<1>8. ASSUME NEW i \in 1..Len(unsaved)
      PROVE  Trail[i + 1] = AccountOf(unsaved[i])
  <2>1. i + 1 \in 1..Len(stores) /\ stores[i + 1] = unsaved[i]
    BY <1>1, <1>4
  <2> QED
    BY <2>1, <1>6
<1> QED
  BY <1>1, <1>5, <1>7, <1>8

LEMMA Concatenated ==
  ASSUME NEW S, NEW front \in Seq(S), NEW back \in Seq(S), NEW whole \in Seq(S),
         Len(whole) = Len(front) + Len(back),
         \A i \in 1..Len(front) : whole[i] = front[i],
         \A i \in 1..Len(back) : whole[i + Len(front)] = back[i]
  PROVE  whole = front \o back
<1>1. front \o back \in Seq(S) /\ Len(front \o back) = Len(whole)
  OBVIOUS
<1>2. ASSUME NEW i \in 1..Len(whole)
      PROVE  whole[i] = (front \o back)[i]
  <2>1. CASE i \in 1..Len(front)
    BY <2>1
  <2>2. CASE i \notin 1..Len(front)
    <3>1. i - Len(front) \in 1..Len(back)
      BY <2>2
    <3>2. whole[(i - Len(front)) + Len(front)] = back[i - Len(front)]
      BY <3>1
    <3> QED
      BY <2>2, <3>1, <3>2
  <2> QED
    BY <2>1, <2>2
<1> QED
  BY <1>1, <1>2

\* A handler's writes are states the account passes through.
LEMMA SavedAccounts ==
  ASSUME StoresOf(Nat), NEW stores \in Seq(StoreOf(Nat)), stores # <<>>,
         Save(stores)
  PROVE  Purse!Becomes([i \in 1..Len(stores) |-> AccountOf(stores[i])])
<1> DEFINE accounts == [i \in 1..Len(stores) |-> AccountOf(stores[i])]
<1>1. /\ disk' = disk /\ unsaved' = unsaved \o stores
      /\ defaults' = stores[Len(stores)] /\ unsaved \in Seq(StoreOf(Nat))
      /\ Len(stores) \in Nat /\ Len(stores) # 0
  BY DEF Save, StoresOf
<1>2. AccountOf(defaults)' = accounts[Len(accounts)]
  BY <1>1 DEF AccountOf
<1>3. Trail' = Trail \o accounts
  <2>1. <<disk>> \o (unsaved \o stores) = (<<disk>> \o unsaved) \o stores
    BY <1>1 DEF StoresOf
  <2> DEFINE before == <<disk>> \o unsaved
             after  == before \o stores
  <2>2. before \in Seq(StoreOf(Nat)) /\ after \in Seq(StoreOf(Nat))
    BY <1>1 DEF StoresOf
  <2>3. Trail' = [i \in 1..Len(after) |-> AccountOf(after[i])]
    BY <1>1, <2>1 DEF Trail, AccountOf
  <2>4. Trail = [i \in 1..Len(before) |-> AccountOf(before[i])]
    BY DEF Trail
  <2> HIDE DEF before
  <2>5. /\ Len(after) = Len(before) + Len(stores)
        /\ \A i \in 1..Len(before) : after[i] = before[i]
        /\ \A i \in 1..Len(stores) : after[i + Len(before)] = stores[i]
    BY <2>2
  <2> HIDE DEF after
  <2>6. /\ Trail \in Seq(Purse!Account) /\ Len(Trail) = Len(before)
        /\ accounts \in Seq(Purse!Account) /\ Len(accounts) = Len(stores)
        /\ Trail' \in Seq(Purse!Account) /\ Len(Trail') = Len(after)
    BY <1>1, <2>2, <2>3, <2>4, AccountType
  <2>7. \A i \in 1..Len(Trail) : Trail'[i] = Trail[i]
    BY <2>2, <2>3, <2>4, <2>5, <2>6
  <2>8. ASSUME NEW i \in 1..Len(accounts)
        PROVE  Trail'[i + Len(Trail)] = accounts[i]
    <3>1. Len(before) \in Nat /\ i \in 1..Len(stores)
      BY <2>2, <2>6
    <3>2. i + Len(before) \in 1..Len(after)
      BY <1>1, <2>5, <3>1
    <3> QED
      BY <2>3, <2>5, <2>6, <3>1, <3>2
  <2> HIDE DEF accounts
  <2>9. Len(Trail') = Len(Trail) + Len(accounts)
    BY <2>5, <2>6
  <2>10. /\ Trail \in Seq(Purse!Account) /\ accounts \in Seq(Purse!Account)
         /\ Trail' \in Seq(Purse!Account)
    BY <2>6
  <2> QED
    BY <2>7, <2>8, <2>9, <2>10, Concatenated, Zenon
<1> QED
  BY <1>2, <1>3 DEF Purse!Becomes

\* One write, two, and the four of a first launch.
LEMMA SavedOne ==
  ASSUME StoresOf(Nat), NEW s1 \in StoreOf(Nat), Save(<<s1>>)
  PROVE  Purse!Becomes(<<AccountOf(s1)>>)
<1> DEFINE stores == <<s1>>
<1>1. stores \in Seq(StoreOf(Nat)) /\ stores # <<>> /\ Len(stores) = 1
  OBVIOUS
<1>2. [i \in 1..Len(stores) |-> AccountOf(stores[i])] = <<AccountOf(s1)>>
  OBVIOUS
<1>3. Purse!Becomes([i \in 1..Len(stores) |-> AccountOf(stores[i])])
  BY <1>1, SavedAccounts
<1> QED
  BY <1>2, <1>3

LEMMA SavedTwo ==
  ASSUME StoresOf(Nat), NEW s1 \in StoreOf(Nat), NEW s2 \in StoreOf(Nat),
         Save(<<s1, s2>>)
  PROVE  Purse!Becomes(<<AccountOf(s1), AccountOf(s2)>>)
<1> DEFINE stores == <<s1, s2>>
<1>1. stores \in Seq(StoreOf(Nat)) /\ stores # <<>> /\ Len(stores) = 2
  OBVIOUS
<1>2. [i \in 1..Len(stores) |-> AccountOf(stores[i])]
        = <<AccountOf(s1), AccountOf(s2)>>
  OBVIOUS
<1>3. Purse!Becomes([i \in 1..Len(stores) |-> AccountOf(stores[i])])
  BY <1>1, SavedAccounts
<1> QED
  BY <1>2, <1>3

LEMMA SavedFour ==
  ASSUME StoresOf(Nat), NEW s1 \in StoreOf(Nat), NEW s2 \in StoreOf(Nat),
         NEW s3 \in StoreOf(Nat), NEW s4 \in StoreOf(Nat),
         Save(<<s1, s2, s3, s4>>)
  PROVE  Purse!Becomes(<<AccountOf(s1), AccountOf(s2), AccountOf(s3),
                         AccountOf(s4)>>)
<1> DEFINE stores == <<s1, s2, s3, s4>>
<1>1. stores \in Seq(StoreOf(Nat)) /\ stores # <<>> /\ Len(stores) = 4
  OBVIOUS
<1>2. [i \in 1..Len(stores) |-> AccountOf(stores[i])]
        = <<AccountOf(s1), AccountOf(s2), AccountOf(s3), AccountOf(s4)>>
  OBVIOUS
<1>3. Purse!Becomes([i \in 1..Len(stores) |-> AccountOf(stores[i])])
  BY <1>1, SavedAccounts
<1> QED
  BY <1>2, <1>3

-----------------------------------------------------------------------------
(* Every step of the app is a step of the account, or none.                *)

\* A step that leaves the store and the streak alone, or ends a streak.
LEMMA NoStep ==
  ASSUME UNCHANGED storeVars, UNCHANGED income
  PROVE  UNCHANGED Purse!walletState
  BY DEF Purse!walletState, Trail, AccountOf, storeVars

\* What the player owns is the gift and what he earned, before the gift too.
LEMMA OwnedType ==
  ASSUME StoresOf(Nat)
  PROVE  /\ AccountOf(defaults) \in Purse!Account
         /\ defaults \in StoreOf(Nat)
         /\ AccountOf(defaults).gifted = defaults.bool
         /\ AccountOf(defaults).acorn = defaults.acorn
         /\ AccountOf(defaults).green = defaults.green
         /\ AccountOf(defaults).ice = defaults.ice
<1>1. defaults \in StoreOf(Nat)
  BY DEF StoresOf
<1> QED
  BY <1>1, AccountType DEF AccountOf

\* A hit earns an acorn; a miss may save a best score with the account.
LEMMA EndOfRoundRefines ==
  ASSUME AppInv, NEW button, Lifted(button), TimerStops, Bookkeeping
  PROVE  [Purse!WalletNext]_Purse!walletState
<1>1. /\ StoresOf(Nat) /\ defaults \in StoreOf(Nat) /\ defaults.bool
      /\ defaults.acorn \in Nat /\ score \in Nat
  BY InRound DEF AppInv, GameInv, WalletInv, Solvent
<1>2. CASE /\ score' = score + 1
           /\ Save(<<[defaults EXCEPT !.acorn = @ + 1]>>)
  <2>1. [defaults EXCEPT !.acorn = @ + 1] \in StoreOf(Nat)
    BY <1>1 DEF StoreOf
  <2>2. AccountOf([defaults EXCEPT !.acorn = @ + 1])
          = [AccountOf(defaults) EXCEPT !.acorn = @ + 1]
    BY <1>1, AccountCounts
  <2>3. Purse!Becomes(<<[AccountOf(defaults) EXCEPT !.acorn = @ + 1]>>)
    BY <1>1, <1>2, <2>1, <2>2, SavedOne
  <2>4. income' = income + 1
    BY <1>1, <1>2 DEF Bookkeeping
  <2>5. Purse!Earn
    BY <1>1, <2>3, <2>4, OwnedType DEF Purse!Earn
  <2> QED
    BY <2>5 DEF Purse!WalletNext
<1>3. CASE /\ score' <= score
           /\ Save(<<[defaults EXCEPT !.best = score]>>)
  <2>1. [defaults EXCEPT !.best = score] \in StoreOf(Nat)
    BY <1>1 DEF StoreOf
  <2>2. Purse!Becomes(<<AccountOf(defaults)>>)
    BY <1>1, <1>3, <2>1, SavedOne, AccountWrites
  <2>3. UNCHANGED income
    <3>1. score' \in Nat
      BY <1>1 DEF TimerStops, Hit, MissShielded, MissEndsStreak
    <3> QED
      BY <1>1, <1>3, <3>1 DEF Bookkeeping
  <2>4. Purse!Resave
    BY <2>2, <2>3 DEF Purse!Resave
  <2> QED
    BY <2>4 DEF Purse!WalletNext
<1>4. CASE score' <= score /\ UNCHANGED storeVars
  <2>1. score' \in Nat
    BY <1>1 DEF TimerStops, Hit, MissShielded, MissEndsStreak
  <2>2. UNCHANGED income
    BY <1>1, <1>4, <2>1 DEF Bookkeeping
  <2> QED
    BY <1>4, <2>2, NoStep
<1> QED
  BY <1>2, <1>3, <1>4, EndOfRound

\* A tap on a power-up uses it.
LEMMA TapRefines ==
  ASSUME AppInv, IceTapped \/ GreenTapped, Bookkeeping
  PROVE  Purse!WalletNext
<1>1. /\ StoresOf(Nat) /\ defaults \in StoreOf(Nat) /\ score \in Nat
      /\ defaults.bool
  <2>1. ASSUME NEW button, Lifted(button)
        PROVE  defaults.bool /\ score \in Nat
    BY <2>1, InRound
  <2> QED
    BY <2>1 DEF AppInv, GameInv, WalletInv, Solvent, StoresOf, IceTapped,
       GreenTapped
<1>2. CASE IceTapped
  <2>1. /\ defaults.ice > 0 /\ score' = score
        /\ Save(<<[defaults EXCEPT !.ice = @ - 1]>>)
    BY <1>2, IceIsTaken
  <2>2. [defaults EXCEPT !.ice = @ - 1] \in StoreOf(Nat)
    BY <1>1, <2>1 DEF StoreOf
  <2>3. AccountOf([defaults EXCEPT !.ice = @ - 1])
          = [AccountOf(defaults) EXCEPT !["ice"] = @ - 1]
    BY <1>1, AccountCounts
  <2>4. Purse!Becomes(<<[AccountOf(defaults) EXCEPT !["ice"] = @ - 1]>>)
    BY <1>1, <2>1, <2>2, <2>3, SavedOne
  <2>5. UNCHANGED income
    BY <1>1, <2>1 DEF Bookkeeping
  <2>6. Purse!Use("ice")
    BY <1>1, <2>1, <2>4, <2>5, OwnedType DEF Purse!Use
  <2> QED
    BY <2>6 DEF Purse!WalletNext, Purse!Kinds
<1>3. CASE GreenTapped
  <2>1. /\ defaults.green > 0 /\ score' = score
        /\ Save(<<[defaults EXCEPT !.green = @ - 1]>>)
    BY <1>3, GreenIsTaken
  <2>2. [defaults EXCEPT !.green = @ - 1] \in StoreOf(Nat)
    BY <1>1, <2>1 DEF StoreOf
  <2>3. AccountOf([defaults EXCEPT !.green = @ - 1])
          = [AccountOf(defaults) EXCEPT !["green"] = @ - 1]
    BY <1>1, AccountCounts
  <2>4. Purse!Becomes(<<[AccountOf(defaults) EXCEPT !["green"] = @ - 1]>>)
    BY <1>1, <2>1, <2>2, <2>3, SavedOne
  <2>5. UNCHANGED income
    BY <1>1, <2>1 DEF Bookkeeping
  <2>6. Purse!Use("green")
    BY <1>1, <2>1, <2>4, <2>5, OwnedType DEF Purse!Use
  <2> QED
    BY <2>6 DEF Purse!WalletNext, Purse!Kinds
<1> QED
  BY <1>2, <1>3

\* The controller gives of each kind what the account would be given.
LEMMA GivenAccount ==
  ASSUME NEW store \in StoreOf(Nat)
  PROVE  /\ AccountOf(IF store.ice = 0 THEN [store EXCEPT !.ice = Gift.ice]
                      ELSE store) = Purse!Given(AccountOf(store), "ice")
         /\ AccountOf(IF store.green = 0
                      THEN [store EXCEPT !.green = Gift.green]
                      ELSE store) = Purse!Given(AccountOf(store), "green")
         /\ AccountOf(IF store.acorn = 0
                      THEN [store EXCEPT !.acorn = Gift.acorn]
                      ELSE store) = Purse!Given(AccountOf(store), "acorn")
<1> DEFINE account == AccountOf(store)
<1>1. /\ account.ice = store.ice /\ account.green = store.green
      /\ account.acorn = store.acorn /\ account \in Purse!Account
  BY AccountType DEF AccountOf
<1>2. /\ AccountOf([store EXCEPT !.ice = Gift.ice])
           = [account EXCEPT !.ice = Gift.ice]
      /\ AccountOf([store EXCEPT !.green = Gift.green])
           = [account EXCEPT !.green = Gift.green]
      /\ AccountOf([store EXCEPT !.acorn = Gift.acorn])
           = [account EXCEPT !.acorn = Gift.acorn]
  BY AccountWrites
<1> HIDE DEF account
<1>3. /\ [account EXCEPT !.ice = account.ice] = account
      /\ [account EXCEPT !.green = account.green] = account
      /\ [account EXCEPT !.acorn = account.acorn] = account
  BY <1>1 DEF Purse!Account
<1>4. /\ Purse!Given(account, "ice")
           = IF account.ice = 0 THEN [account EXCEPT !.ice = Gift.ice]
             ELSE account
      /\ Purse!Given(account, "green")
           = IF account.green = 0 THEN [account EXCEPT !.green = Gift.green]
             ELSE account
      /\ Purse!Given(account, "acorn")
           = IF account.acorn = 0 THEN [account EXCEPT !.acorn = Gift.acorn]
             ELSE account
  BY <1>3 DEF Purse!Given
<1> QED
  BY <1>1, <1>2, <1>4 DEF account

\* A first launch, or one that resumes it, endows the account.
LEMMA GiftRefines ==
  ASSUME AppInv, ViewDidLoad \/ ViewDidAppear, GiveGift, Bookkeeping
  PROVE  Purse!WalletNext
<1> DEFINE iced    == IF defaults.ice = 0
                      THEN [defaults EXCEPT !.ice = Gift.ice] ELSE defaults
           greened == IF iced.green = 0
                      THEN [iced EXCEPT !.green = Gift.green] ELSE iced
           paid    == IF greened.acorn = 0
                      THEN [greened EXCEPT !.acorn = Gift.acorn] ELSE greened
           full    == [paid EXCEPT !.bool = TRUE]
<1>1. /\ StoresOf(Nat) /\ defaults \in StoreOf(Nat) /\ score \in Nat
      /\ CountersInStep /\ ~defaults.bool
  BY GiftIsFirst DEF AppInv, GameInv, WalletInv, Solvent, StoresOf, TypeOK,
     CounterTypeOK
<1>2. iced \in StoreOf(Nat) /\ iced.green = defaults.green
      /\ iced.acorn = defaults.acorn
  BY <1>1, GiftIsCounted DEF StoreOf
<1>3. greened \in StoreOf(Nat) /\ greened.acorn = defaults.acorn
  BY <1>2, GiftIsCounted DEF StoreOf
<1>4. paid \in StoreOf(Nat) /\ full \in StoreOf(Nat)
  <2>1. paid \in StoreOf(Nat)
    <3> HIDE DEF greened
    <3> QED
      BY <1>3, GiftIsCounted, WriteCounter
  <2>2. full \in StoreOf(Nat)
    <3> HIDE DEF paid
    <3> QED
      BY <2>1, WriteBool
  <2> QED
    BY <2>1, <2>2
<1>5. Save(<<iced, greened, paid, full>>)
  BY <1>1, <1>2, <1>3 DEF GiveGift, CountersInStep
<1>6. /\ AccountOf(iced) = Purse!Given(AccountOf(defaults), "ice")
      /\ AccountOf(greened) = Purse!Given(AccountOf(iced), "green")
      /\ AccountOf(paid) = Purse!Given(AccountOf(greened), "acorn")
      /\ AccountOf(full) = [AccountOf(paid) EXCEPT !.gifted = TRUE]
  <2> HIDE DEF full
  <2>1. AccountOf(full) = [AccountOf(paid) EXCEPT !.gifted = TRUE]
    BY <1>4, AccountWrites DEF full
  <2>2. AccountOf(paid) = Purse!Given(AccountOf(greened), "acorn")
    <3> HIDE DEF greened
    <3> QED
      BY <1>3, GivenAccount
  <2>3. AccountOf(greened) = Purse!Given(AccountOf(iced), "green")
    <3> HIDE DEF iced
    <3> QED
      BY <1>2, GivenAccount
  <2>4. AccountOf(iced) = Purse!Given(AccountOf(defaults), "ice")
    BY <1>1, GivenAccount
  <2> QED
    BY <2>1, <2>2, <2>3, <2>4
<1> HIDE DEF iced, greened, paid, full
<1>7. Purse!Becomes(<<AccountOf(iced), AccountOf(greened), AccountOf(paid),
                      AccountOf(full)>>)
  BY <1>1, <1>2, <1>3, <1>4, <1>5, SavedFour
<1>8. UNCHANGED income
  <2>1. score' = score
    BY DEF ViewDidLoad, ViewDidAppear
  <2> QED
    BY <1>1, <2>1 DEF Bookkeeping
<1>9. Purse!Endow
  BY <1>1, <1>6, <1>7, <1>8, OwnedType DEF Purse!Endow
<1> QED
  BY <1>9 DEF Purse!WalletNext

\* A purchase turns acorns into a power-up.
LEMMA PurchaseRefines ==
  ASSUME AppInv, InShop, NEW row, Shop!DidSelect(row), Bookkeeping
  PROVE  Purse!WalletNext
<1>1. /\ StoresOf(Nat) /\ defaults \in StoreOf(Nat) /\ score \in Nat
      /\ Shop!CopiesInStep /\ defaults.bool
  BY DEF AppInv, GameInv, WalletInv, Solvent, StoresOf, TypeOK,
     CounterTypeOK, ShopInv, InShop
<1>2. PICK kind \in {"green", "ice"} :
        /\ defaults.acorn >= Price
        /\ Save(<<[defaults EXCEPT !.acorn = @ - Price],
                  [defaults EXCEPT !.acorn = @ - Price, ![kind] = @ + 1]>>)
  BY <1>1, PurchaseWrites
<1> DEFINE account == AccountOf(defaults)
           paid == [defaults EXCEPT !.acorn = @ - Price]
           full == [paid EXCEPT ![kind] = @ + 1]
<1>3. paid \in StoreOf(Nat) /\ full \in StoreOf(Nat)
  <2>1. defaults.acorn - Price \in Nat
    BY <1>1, <1>2, PriceIsFixed DEF StoreOf
  <2>2. paid \in StoreOf(Nat)
    BY <1>1, <2>1, WriteCounter
  <2> HIDE DEF paid
  <2> QED
    BY <2>2 DEF StoreOf
<1>4. full = [defaults EXCEPT !.acorn = @ - Price, ![kind] = @ + 1]
  BY <1>1 DEF StoreOf
<1>5. AccountOf(paid) = [account EXCEPT !.acorn = @ - Price]
  <2> DEFINE left == defaults.acorn - Price
  <2>1. account.acorn - Price = left
    BY DEF AccountOf
  <2> HIDE DEF left
  <2>2. AccountOf([defaults EXCEPT !.acorn = left])
          = [account EXCEPT !.acorn = left]
    BY <1>1, AccountWrites
  <2> QED
    BY <2>1, <2>2 DEF left
<1>6. AccountOf(full) = [AccountOf(paid) EXCEPT ![kind] = @ + 1]
  <2> HIDE DEF paid
  <2> DEFINE more == paid[kind] + 1
  <2>1. AccountOf(paid)[kind] + 1 = more
    BY DEF AccountOf
  <2> HIDE DEF more
  <2>2. AccountOf([paid EXCEPT ![kind] = more])
          = [AccountOf(paid) EXCEPT ![kind] = more]
    <3>1. CASE kind = "green"
      BY <1>3, <3>1, AccountWrites
    <3>2. CASE kind = "ice"
      BY <1>3, <3>2, AccountWrites
    <3> QED
      BY <3>1, <3>2
  <2> QED
    BY <2>1, <2>2 DEF more
<1>7. Purse!Becomes(<<AccountOf(paid), AccountOf(full)>>)
  BY <1>1, <1>2, <1>3, <1>4, SavedTwo
<1>8. UNCHANGED income
  <2>1. score' = score
    BY DEF InShop, gameVars, streakVars
  <2> QED
    BY <1>1, <2>1 DEF Bookkeeping
<1>9. Purse!Buy(kind)
  BY <1>1, <1>2, <1>5, <1>6, <1>7, <1>8, OwnedType DEF Purse!Buy
<1> QED
  BY <1>9 DEF Purse!WalletNext, Purse!Kinds

\* What is queued reaches the disk: the account cannot go back so far.
LEMMA SynchronizeRefines ==
  ASSUME StoresOf(Nat), Synchronize, UNCHANGED income
  PROVE  Purse!Forget
<1>1. /\ unsaved \in Seq(StoreOf(Nat)) /\ Len(unsaved) \in Nat
      /\ Len(unsaved) >= 1 /\ unsaved # <<>>
      /\ disk' = unsaved[1] /\ unsaved' = Tail(unsaved)
      /\ defaults' = defaults
  BY DEF StoresOf, Synchronize
<1>2. /\ Trail \in Seq(Purse!Account) /\ Len(Trail) = 1 + Len(unsaved)
      /\ \A i \in 1..Len(unsaved) : Trail[i + 1] = AccountOf(unsaved[i])
  BY TrailOfStores
<1>3. /\ Len(unsaved') = Len(unsaved) - 1
      /\ \A i \in 1..Len(unsaved') : unsaved'[i] = unsaved[i + 1]
  BY <1>1
<1>4. Trail' = Tail(Trail)
  <2> DEFINE stores == <<disk'>> \o unsaved'
  <2>1. unsaved' \in Seq(StoreOf(Nat)) /\ disk' \in StoreOf(Nat)
    BY <1>1
  <2>2. /\ Len(stores) = Len(unsaved) /\ stores[1] = disk'
        /\ \A i \in 1..Len(unsaved') : stores[i + 1] = unsaved'[i]
    BY <1>1, <1>3, <2>1
  <2>3. \A i \in 1..Len(unsaved) : stores[i] = unsaved[i]
    <3> SUFFICES ASSUME NEW i \in 1..Len(unsaved)
                 PROVE  stores[i] = unsaved[i]
      OBVIOUS
    <3>1. CASE i = 1
      BY <1>1, <2>2, <3>1
    <3>2. CASE i # 1
      <4>1. i - 1 \in 1..Len(unsaved') /\ (i - 1) + 1 = i
        BY <1>1, <1>3, <3>2
      <4> HIDE DEF stores
      <4> QED
        BY <1>3, <2>2, <4>1
    <3> QED
      BY <3>1, <3>2
  <2>4. Trail' = [i \in 1..Len(stores) |-> AccountOf(stores[i])]
    BY DEF Trail, AccountOf
  <2>5. /\ Tail(Trail) \in Seq(Purse!Account)
        /\ Len(Tail(Trail)) = Len(unsaved)
        /\ \A i \in 1..Len(unsaved) : Tail(Trail)[i] = Trail[i + 1]
    BY <1>1, <1>2
  <2> HIDE DEF stores
  <2>6. Tail(Trail) = [i \in 1..Len(unsaved) |-> Tail(Trail)[i]]
    <3> DEFINE tail == Tail(Trail)
    <3>1. tail \in Seq(Purse!Account) /\ Len(tail) = Len(unsaved)
      BY <2>5
    <3> HIDE DEF tail
    <3>2. tail = [i \in 1..Len(unsaved) |-> tail[i]]
      BY <3>1
    <3> QED
      BY <3>2 DEF tail
  <2> QED
    BY <1>2, <2>2, <2>3, <2>4, <2>5, <2>6
<1>5. UNCHANGED AccountOf(defaults)
  BY <1>1 DEF AccountOf
<1>6. Len(Trail) > 1
  BY <1>1, <1>2
<1> QED
  BY <1>4, <1>5, <1>6 DEF Purse!Forget

\* A death takes the account back to what is on disk.
LEMMA RelaunchRefines ==
  ASSUME AppInv, Relaunch, Bookkeeping
  PROVE  Purse!Die
<1>1. StoresOf(Nat) /\ score \in Nat
  BY DEF AppInv, GameInv, WalletInv, Solvent, TypeOK, CounterTypeOK
<1>2. defaults' = disk /\ unsaved' = <<>> /\ disk' = disk /\ score' = 0
  BY DEF Relaunch, Reopen
<1>3. Trail \in Seq(Purse!Account) /\ Len(Trail) = 1 + Len(unsaved)
      /\ Trail[1] = AccountOf(disk) /\ Len(unsaved) \in Nat
  BY <1>1, TrailOfStores DEF StoresOf
<1>4. Head(Trail) = AccountOf(disk)
  BY <1>3
<1>5. Trail' = <<AccountOf(disk)>>
  <2> DEFINE stores == <<disk>> \o <<>>
  <2>1. stores = <<disk>>
    BY <1>1 DEF StoresOf
  <2>2. Trail' = [i \in 1..Len(stores) |-> AccountOf(stores[i])]
    BY <1>2 DEF Trail, AccountOf
  <2> QED
    BY <2>1, <2>2
<1>6. AccountOf(defaults)' = AccountOf(disk)
  BY <1>2 DEF AccountOf
<1>7. UNCHANGED income
  BY <1>1, <1>2 DEF Bookkeeping
<1> QED
  BY <1>4, <1>5, <1>6, <1>7 DEF Purse!Die

\* Whatever leaves the store alone is no step of the account.
LEMMA OtherRefines ==
  ASSUME AppInv, UNCHANGED <<storeVars, score>>, Bookkeeping
  PROVE  UNCHANGED Purse!walletState
<1>1. UNCHANGED income
  BY DEF Bookkeeping, AppInv, GameInv, TypeOK, CounterTypeOK
<1> QED
  BY <1>1, NoStep

LEMMA WalletRefined ==
  ASSUME AppInv, [AppNext]_appVars
  PROVE  [Purse!WalletNext]_Purse!walletState
<1>1. CASE UNCHANGED appVars
  BY <1>1, NoStep DEF appVars, vars
<1> SUFFICES ASSUME AppNext PROVE [Purse!WalletNext]_Purse!walletState
  BY <1>1
<1>2. Bookkeeping /\ StoresOf(Nat) /\ score \in Nat
  BY DEF AppNext, AppInv, GameInv, WalletInv, Solvent, TypeOK, CounterTypeOK
<1>3. CASE StopTapped \/ ShopTappedInRound
  <2>1. TimerStops /\ (Lifted("startStop") \/ Lifted("shop"))
    BY <1>3 DEF StopTapped, ShopTappedInRound, ShopStopsRound
  <2> QED
    BY <1>2, <2>1, EndOfRoundRefines
<1>4. CASE IceTapped \/ GreenTapped
  BY <1>2, <1>4, TapRefines
<1>5. CASE ViewDidLoad \/ ViewDidAppear
  <2>1. CASE GiveGift
    BY <1>2, <1>5, <2>1, GiftRefines
  <2>2. CASE ReloadCounters
    BY <1>2, <1>5, <2>2, OtherRefines
       DEF ViewDidLoad, ViewDidAppear, ReloadCounters
  <2> QED
    BY <1>5, <2>1, <2>2
       DEF ViewDidLoad, ViewDidAppear, SetupUserDefaultSetLabel
<1>6. CASE InShop
  <2>1. CASE Shop!PowerUpAdded
    BY <1>2, <1>6, <2>1, OtherRefines
       DEF InShop, Shop!PowerUpAdded, Shop!storeVars, storeVars, gameVars,
           streakVars
  <2>2. CASE \E row \in DOMAIN powerUps : Shop!DidSelect(row)
    BY <1>2, <1>6, <2>2, PurchaseRefines
  <2> QED
    BY <1>6, <2>1, <2>2 DEF InShop
<1>7. CASE StoreStep
  <2>1. UNCHANGED income
    BY <1>2, <1>7 DEF StoreStep, Bookkeeping, gameVars, streakVars
  <2> QED
    BY <1>2, <1>7, <2>1, SynchronizeRefines DEF StoreStep, Purse!WalletNext
<1>8. CASE Relaunch
  BY <1>2, <1>8, RelaunchRefines DEF Purse!WalletNext
<1>9. CASE OpenShop \/ GameCenterTapped \/ AuthenticateHandler \/ CoverDismissed
           \/ (\E button \in Buttons :
                 TouchDown(button) \/ TouchCancelled(button))
           \/ BoardStep \/ StartTapped \/ (\E kind \in Timers : Tick(kind))
  <2>1. UNCHANGED <<storeVars, score>>
    BY <1>9 DEF OpenShop, ShopTapped, GameCenterTapped, AuthenticateHandler,
       CoverDismissed, TouchDown, TouchCancelled, BoardStep, StartTapped,
       Tick, gameVars, streakVars
  <2> QED
    BY <1>2, <2>1, OtherRefines
<1> QED
  BY <1>3, <1>4, <1>5, <1>6, <1>7, <1>8, <1>9
     DEF AppNext, InGame, OpenShopInRound

\* A launch finds an account the app may find.
LEMMA WalletRefinedInitially == AppInit => Purse!WalletInit
<1> SUFFICES ASSUME AppInit PROVE Purse!WalletInit
  OBVIOUS
<1>1. PICK store \in InitialStores : Opened(store)
  BY DEF AppInit, Init
<1>2. defaults = store /\ unsaved = <<>> /\ disk = store
  BY <1>1 DEF Opened
<1>3. Trail = <<AccountOf(store)>>
  <2> DEFINE stores == <<store>> \o <<>>
  <2>1. stores = <<store>>
    OBVIOUS
  <2>2. Trail = [i \in 1..Len(stores) |-> AccountOf(stores[i])]
    BY <1>2 DEF Trail
  <2> QED
    BY <2>1, <2>2
<1> QED
  BY <1>2, <1>3 DEF AppInit, Purse!WalletInit

\* The game and the shop, each writing the store from copies of its own, and
\* a process that may die between any two writes, keep one account.
THEOREM KeepsOneWalletSafe ==
  ASSUME OrderlyShop
  PROVE  AppSpec => KeepsOneWallet
<1>1. AppInv /\ [AppNext]_appVars => [Purse!WalletNext]_Purse!walletState
  BY WalletRefined
<1> QED
  BY <1>1, WalletRefinedInitially, AppSafe, PTL
     DEF AppSpec, KeepsOneWallet, Purse!WalletSpec

-----------------------------------------------------------------------------
(* What WalletProofs shows of every such account.                          *)

Accounts ==
  INSTANCE WalletProofs
    WITH Cost <- Price, owned <- AccountOf(defaults), trail <- Trail,
         Openings <- {AccountOf(store) : store \in InitialStores}

LEMMA OpeningsAreAccounts == Accounts!WalletAssumption
<1>1. {AccountOf(store) : store \in InitialStores} \subseteq Purse!Account
  BY FoundStore, AccountType
<1> QED
  BY <1>1, PriceIsFixed, ViewControllerAssumption
     DEF Accounts!WalletAssumption, Purse!Account

\* No sequence of rounds, taps, purchases and deaths leaves more on disk, or
\* on its way there, than the player was given and earned.
THEOREM NothingMintedInApp ==
  ASSUME OrderlyShop
  PROVE  AppSpec => []NothingMinted
<1>1. Accounts!WalletSpec => []Accounts!NothingMinted
  BY OpeningsAreAccounts, Accounts!NothingMintedSafe
<1>2. Purse!WalletInit => Accounts!WalletInit
  BY DEF Purse!WalletInit, Accounts!WalletInit, Purse!Value, Accounts!Value,
     Purse!Endowed, Accounts!Endowed, Purse!Given, Accounts!Given
<1>3. [Purse!WalletNext]_Purse!walletState
        => [Accounts!WalletNext]_Accounts!walletState
  BY DEF Purse!WalletNext, Accounts!WalletNext, Purse!walletState,
     Accounts!walletState, Purse!Endow, Accounts!Endow, Purse!Earn,
     Accounts!Earn, Purse!Use, Accounts!Use, Purse!Buy, Accounts!Buy,
     Purse!Resave, Accounts!Resave, Purse!Forget, Accounts!Forget,
     Purse!Die, Accounts!Die, Purse!Becomes, Accounts!Becomes,
     Purse!Given, Accounts!Given, Purse!Kinds, Accounts!Kinds
<1>4. Accounts!NothingMinted => NothingMinted
  BY DEF NothingMinted, Purse!NothingMinted, Accounts!NothingMinted,
     Purse!Value, Accounts!Value, Purse!Endowed, Accounts!Endowed,
     Purse!Given, Accounts!Given
<1> QED
  BY <1>1, <1>2, <1>3, <1>4, KeepsOneWalletSafe, PTL
     DEF KeepsOneWallet, Purse!WalletSpec, Accounts!WalletSpec

=============================================================================
