--------------------------- MODULE ViewController ---------------------------
(***************************************************************************)
(* The game screen of OneSecond (ViewController.swift): a stopwatch the    *)
(* player has to stop on a whole second, the streak of hits (score, best), *)
(* the two power-ups, and the copies it keeps of the counters in           *)
(* UserDefaults.  Everything runs on the main thread; what interleaves is  *)
(* the touches, the timer's callbacks, the other screens' coming and       *)
(* going, and the answers of the daemons behind UserDefaults and GameKit.  *)
(*                                                                         *)
(* The shop is another controller.  Here it is an environment that may     *)
(* write the counters while it covers the screen.                          *)
(***************************************************************************)
EXTENDS UserDefaults, Leaderboard, FiniteSets

CONSTANTS
  Second,          \* stopwatch ticks in a second (100 in the source)
  Gift,            \* what a first launch puts in the store (5, 5 and 20)
  InitialStores,   \* the stores a launch may find on disk
  LateTouches,     \* is a finger's release still delivered to a button that
                   \* was hidden or disabled while the finger was down?
  MaxTouches,      \* Bound: fingers on the screen.
  MaxMilliseconds, \* Bound: the timer is not run beyond this.
  MaxReports,      \* Bound: the player waits while more reports are out.
  MaxScore,        \* Bound: the longest streak.
  MaxCounter       \* Bound: what the player earns or the shop writes.

ASSUME ViewControllerAssumption ==
  /\ Second \in Nat \ {0}
  /\ Gift \in [acorn : Nat, green : Nat, ice : Nat]
  /\ InitialStores \subseteq Store
  /\ \A store \in InitialStores :
       /\ store.acorn >= 0 /\ store.green >= 0 /\ store.ice >= 0
       /\ store.best >= 0
  /\ LateTouches \in BOOLEAN
  /\ {MaxTouches, MaxMilliseconds, MaxReports, MaxScore, MaxCounter}
       \subseteq Nat

VARIABLES
  milliseconds,         \* hundredths of a second, despite the name
  seconds, suffix,      \* the two halves of the time on labelTimer
  count,                \* ticks since the circle was last restarted
  timer,                \* the scheduled timer the property `timer' refers to
  runLoop,              \* how many timers of each kind RunLoop.main fires
  isTimerRunning,
  checkerCirlceProgress,
  score, best,
  greenActiveted,       \* the next miss does not end the streak
  acornNumber, greenNumber, iceNumber,
  boolCheckUserDefault, \* this installation had its gift
  iceEnabled, greenEnabled,      \* isUserInteractionEnabled of the buttons
  circle, trackColor,   \* CircleProgress: its animation and its track
  wood, durationRotate, \* the log's rotation and the speed of the next one
  overlayHidden,        \* the iced overlay of ContainerController
  confetti,
  held,                 \* the buttons a finger is down on
  screen                \* what is in front

clockVars  == <<milliseconds, seconds, suffix, count>>
timerVars  == <<timer, runLoop, isTimerRunning, checkerCirlceProgress>>
streakVars == <<score, best, greenActiveted>>
walletVars == <<acornNumber, greenNumber, iceNumber, boolCheckUserDefault>>
viewVars   == <<circle, trackColor, wood, durationRotate, overlayHidden,
                confetti, iceEnabled, greenEnabled>>
touchVars  == <<held, screen>>
gameVars   == <<clockVars, timerVars, streakVars, walletVars, viewVars>>
vars       == <<gameVars, touchVars, storeVars, boardVars>>

Buttons == {"startStop", "ice", "green", "shop", "gameCenter"}
Timers  == {"round", "ice"}

-----------------------------------------------------------------------------
(* Touches.  UIKit picks the button when the finger goes down and runs its *)
(* action when the finger is lifted (touchUpInside in Main.storyboard).    *)

\* Mutant of Hittable: showHideButtons never hides the power-ups.
HittableAlways(button) ==
  /\ screen = "game"
  /\ button = "ice"   => iceEnabled
  /\ button = "green" => greenEnabled
  /\ button = "shop"  => ~isTimerRunning

\* showHideButtons and the two isUserInteractionEnabled flags.
Hittable(button) ==
  /\ screen = "game"
  /\ button \in {"ice", "green"} => isTimerRunning
  /\ button = "ice"   => iceEnabled
  /\ button = "green" => greenEnabled
  /\ button = "shop"  => ~isTimerRunning

TouchDown(button) ==
  /\ Hittable(button)
  /\ button \notin held
  /\ Cardinality(held) < MaxTouches
  /\ held' = held \cup {button}
  /\ UNCHANGED <<gameVars, screen, storeVars, boardVars>>

TouchCancelled(button) ==
  /\ button \in held
  /\ held' = held \ {button}
  /\ UNCHANGED <<gameVars, screen, storeVars, boardVars>>

\* A finger is lifted from the button: its action is about to run.
Lifted(button) ==
  /\ button \in held
  /\ CaughtUp
  /\ Cardinality(inFlight) <= MaxReports

\* The fingers still down once that action has run.  A screen that comes in
\* front cancels them all.
StillHeld(button) ==
  {other \in held \ {button} :
     /\ screen' = "game"
     /\ LateTouches \/ Hittable(other)'}

-----------------------------------------------------------------------------
(* The stopwatch.                                                          *)

\* Mutant of Invalidated: the handle is dropped, the timer is not.
InvalidatedNever == runLoop

\* timer.invalidate(): of no effect on a timer that is not scheduled.
Invalidated ==
  IF timer = "none" THEN runLoop ELSE [runLoop EXCEPT ![timer] = @ - 1]

\* Mutant of Schedule: the timer is made, and never added to the run loop.
ScheduleForgotten(kind) ==
  /\ timer'   = kind
  /\ runLoop' = Invalidated

Schedule(kind) ==
  /\ timer'   = kind
  /\ runLoop' = [Invalidated EXCEPT ![kind] = @ + 1]

\* display(miliseconds:) recomputes what the label shows; nothing else does.
Display(elapsed) ==
  /\ seconds' = elapsed \div Second
  /\ suffix'  = elapsed - Second * (elapsed \div Second)

LapDone == count + 1 = Second + 1

\* A callback of a scheduled timer.  Only the round's own timer counts the
\* laps of the circle, and restarts the circle on the tick after each.
Tick(kind) ==
  /\ runLoop[kind] > 0
  /\ milliseconds < MaxMilliseconds
  /\ milliseconds' = milliseconds + 1
  /\ Display(milliseconds + 1)
  /\ \/ /\ kind = "ice"
        /\ UNCHANGED <<count, circle>>
     \/ /\ kind = "round" /\ LapDone
        /\ count'  = 1
        /\ circle' = "running"
     \/ /\ kind = "round" /\ ~LapDone
        /\ count' = count + 1
        /\ UNCHANGED circle
  /\ UNCHANGED <<timerVars, streakVars, walletVars, trackColor, wood,
                 durationRotate, overlayHidden, confetti, iceEnabled,
                 greenEnabled, touchVars, storeVars, boardVars>>

-----------------------------------------------------------------------------
(* The end of a round.                                                     *)

OnTheSecond == seconds >= 1 /\ suffix = 0

\* Mutant of AfterHit: the stopwatch starts anew, the label is forgotten.
AfterHitAnew == milliseconds' = 0 /\ UNCHANGED count

\* After a hit the next round goes on from the time on the label.
AfterHit == UNCHANGED <<milliseconds, count>>

\* The acorn is in UserDefaults before the handler returns; best is written
\* too, as it stands.
Hit ==
  /\ OnTheSecond
  /\ score < MaxScore /\ acornNumber < MaxCounter
  /\ score'       = score + 1
  /\ acornNumber' = acornNumber + 1
  /\ Save(<<[defaults EXCEPT !.acorn = acornNumber + 1, !.best = best]>>)
  /\ trackColor'  = "win"
  /\ AfterHit
  /\ UNCHANGED <<best, confetti>>

\* Mutant of Rewind: only the laps are rewound.
RewindLaps == count' = 0 /\ UNCHANGED milliseconds

\* A miss rewinds the stopwatch, but not what the label shows.
Rewind ==
  /\ count'        = 0
  /\ milliseconds' = 0

Miss ==
  /\ ~OnTheSecond
  /\ Rewind
  /\ UNCHANGED acornNumber

MissShielded ==
  /\ Miss
  /\ greenActiveted
  /\ UNCHANGED <<score, best, confetti, trackColor, storeVars>>

\* Mutant of NewBest: off by one.
NewBestByTwo == score > best + 1

NewBest == score > best

MissEndsStreak ==
  /\ Miss
  /\ ~greenActiveted
  /\ score'      = 0
  /\ trackColor' = "reset"
  /\ \/ /\ NewBest
        /\ best'     = score
        /\ confetti' = TRUE
        /\ Save(<<[defaults EXCEPT !.best = score]>>)
     \/ /\ ~NewBest
        /\ UNCHANGED <<best, confetti, storeVars>>

\* Mutant of SetUpTimer: the circle is not paused.
SetUpTimerOnly == iceEnabled' = FALSE /\ UNCHANGED circle

\* setUpTimer(), called by both a stop and a freeze.  It also starts the log
\* rotating, which a stop undoes at once.
SetUpTimer ==
  /\ circle'     = "paused"
  /\ iceEnabled' = FALSE

TimerStops ==
  /\ isTimerRunning' = FALSE
  /\ timer'          = "none"
  /\ runLoop'        = Invalidated
  /\ SetUpTimer
  /\ greenEnabled'   = FALSE
  /\ durationRotate' = "fast"
  /\ wood'           = "still"
  /\ Hit \/ MissShielded \/ MissEndsStreak
  /\ UNCHANGED <<seconds, suffix, greenActiveted, greenNumber, iceNumber,
                 boolCheckUserDefault, overlayHidden>>

-----------------------------------------------------------------------------
(* The buttons.                                                            *)

\* Mutant of CheckBestScore: the streak is sent before it is a best score.
CheckScore == Report(score')

\* checkBestScore() sends whatever best is by then.
CheckBestScore == Report(best')

\* A green power-up outlives its round only on a streak of at most one.
RenewShield ==
  LET kept == greenActiveted /\ score <= 1
  IN  /\ greenActiveted' = kept
      /\ trackColor'     = IF kept THEN "green" ELSE "reset"

\* Mutant of OfferPowerUps: both are offered, whatever is left of them.
OfferBoth == greenEnabled' = TRUE /\ iceEnabled' = TRUE

\* A power-up the player has none of cannot be tapped.
OfferPowerUps ==
  /\ greenEnabled' = (greenNumber # 0)
  /\ iceEnabled'   = (iceNumber # 0)

\* buttonTapped() with the timer stopped.
StartTapped ==
  /\ ~isTimerRunning
  /\ Lifted("startStop")
  /\ circle' = IF checkerCirlceProgress THEN "running" ELSE "paused"
  /\ checkerCirlceProgress' = ~checkerCirlceProgress
  /\ UNCHANGED <<score, best>>
  /\ CheckBestScore
  /\ confetti' = FALSE
  /\ RenewShield
  /\ count' = 0
  /\ isTimerRunning' = TRUE
  /\ overlayHidden'  = TRUE
  /\ wood' = durationRotate
  /\ OfferPowerUps
  /\ Schedule("round")
  /\ UNCHANGED <<milliseconds, seconds, suffix, walletVars, durationRotate,
                 screen, storeVars>>
  /\ held' = StillHeld("startStop")

\* buttonTapped() with the timer running.
StopTapped ==
  /\ isTimerRunning
  /\ Lifted("startStop")
  /\ TimerStops
  /\ checkerCirlceProgress' = ~checkerCirlceProgress
  /\ UNCHANGED <<screen, boardVars>>
  /\ held' = StillHeld("startStop")

\* buttonIceTapped: the same stopwatch goes on, fifteen times slower.
IceTapped ==
  /\ Lifted("ice")
  /\ overlayHidden' = FALSE
  /\ Schedule("ice")
  /\ durationRotate' = "slow"
  /\ wood'           = "slow"
  /\ SetUpTimer
  /\ iceNumber'      = iceNumber - 1
  /\ Save(<<[defaults EXCEPT !.ice = iceNumber - 1]>>)
  /\ UNCHANGED <<clockVars, isTimerRunning, checkerCirlceProgress, streakVars,
                 acornNumber, greenNumber, boolCheckUserDefault, trackColor,
                 confetti, greenEnabled, screen, boardVars>>
  /\ held' = StillHeld("ice")

GreenTapped ==
  /\ Lifted("green")
  /\ greenEnabled'   = FALSE
  /\ trackColor'     = "green"
  /\ greenActiveted' = TRUE
  /\ greenNumber'    = greenNumber - 1
  /\ Save(<<[defaults EXCEPT !.green = greenNumber - 1]>>)
  /\ UNCHANGED <<clockVars, timerVars, score, best, acornNumber, iceNumber,
                 boolCheckUserDefault, circle, wood, durationRotate,
                 overlayHidden, confetti, iceEnabled, screen, boardVars>>
  /\ held' = StillHeld("green")

\* Mutant of ShopStopsRound: the circle's flag is not toggled.
ShopStopsTimer ==
  /\ TimerStops
  /\ CheckBestScore
  /\ UNCHANGED checkerCirlceProgress

\* The body of buttonShop(_:) with the timer running.
ShopStopsRound ==
  /\ TimerStops
  /\ CheckBestScore
  /\ checkerCirlceProgress' = ~checkerCirlceProgress

\* buttonShop(_:) and the segue on the same button.
ShopTapped ==
  /\ ~isTimerRunning
  /\ Lifted("shop")
  /\ screen' = "shop"
  /\ UNCHANGED <<gameVars, storeVars, boardVars>>
  /\ held' = StillHeld("shop")

\* The button is hidden during a round, so only a finger that was already
\* down on it can get here.
ShopTappedInRound ==
  /\ isTimerRunning
  /\ Lifted("shop")
  /\ screen' = "shop"
  /\ ShopStopsRound
  /\ held' = StillHeld("shop")

\* buttonScore and buttonBest both open the leaderboard; a round goes on
\* underneath.
GameCenterTapped ==
  /\ Lifted("gameCenter")
  /\ screen' = "gameCenter"
  /\ UNCHANGED <<gameVars, storeVars, boardVars>>
  /\ held' = StillHeld("gameCenter")

-----------------------------------------------------------------------------
(* Screens.                                                                *)

\* GameKit may ask for a login whenever it likes.
AuthenticateHandler ==
  /\ screen  = "game"
  /\ screen' = "gameCenter"
  /\ held'   = {}
  /\ UNCHANGED <<gameVars, storeVars, boardVars>>

\* didTapBackButton in the shop, gameCenterViewControllerDidFinish, or the
\* end of the login.
CoverDismissed ==
  /\ screen \in {"shop", "gameCenter"}
  /\ screen' = "appearing"
  /\ UNCHANGED <<gameVars, held, storeVars, boardVars>>

\* Mutant of ReloadCounters: the acorns the shop took are kept.
ReloadPowerUps ==
  /\ boolCheckUserDefault
  /\ greenNumber' = defaults.green
  /\ iceNumber'   = defaults.ice
  /\ UNCHANGED <<acornNumber, boolCheckUserDefault, storeVars>>

\* setupUserDefaultSetLabel() once this installation had its gift ...
ReloadCounters ==
  /\ boolCheckUserDefault
  /\ greenNumber' = defaults.green
  /\ iceNumber'   = defaults.ice
  /\ acornNumber' = defaults.acorn
  /\ UNCHANGED <<boolCheckUserDefault, storeVars>>

\* ... and on a first launch: four writes, one key after the other.
GiveGift ==
  LET iced    == IF iceNumber = 0 THEN [defaults EXCEPT !.ice = Gift.ice]
                 ELSE defaults
      greened == IF greenNumber = 0 THEN [iced EXCEPT !.green = Gift.green]
                 ELSE iced
      paid    == IF acornNumber = 0 THEN [greened EXCEPT !.acorn = Gift.acorn]
                 ELSE greened
  IN  /\ ~boolCheckUserDefault
      /\ iceNumber'   = IF iceNumber = 0 THEN Gift.ice ELSE iceNumber
      /\ greenNumber' = IF greenNumber = 0 THEN Gift.green ELSE greenNumber
      /\ acornNumber' = IF acornNumber = 0 THEN Gift.acorn ELSE acornNumber
      /\ boolCheckUserDefault' = TRUE
      /\ Save(<<iced, greened, paid, [paid EXCEPT !.bool = TRUE]>>)

SetupUserDefaultSetLabel ==
  /\ CaughtUp
  /\ best' = defaults.best
  /\ ReloadCounters \/ GiveGift

ViewDidLoad ==
  /\ screen  = "loading"
  /\ screen' = "appearing"
  /\ overlayHidden' = TRUE
  /\ SetupUserDefaultSetLabel
  /\ UNCHANGED <<clockVars, timerVars, score, greenActiveted, circle,
                 trackColor, wood, durationRotate, confetti, iceEnabled,
                 greenEnabled, held, boardVars>>

ViewDidAppear ==
  /\ screen  = "appearing"
  /\ screen' = "game"
  /\ SetupUserDefaultSetLabel
  /\ UNCHANGED <<clockVars, timerVars, score, greenActiveted, viewVars, held,
                 boardVars>>

-----------------------------------------------------------------------------
(* The environment.                                                        *)

\* The shop takes acorns and then gives a power-up, and overdraws neither.
ShopWrites ==
  /\ screen = "shop"
  /\ CaughtUp
  /\ \E key \in {"green", "ice"}, acorns \in 0..defaults.acorn, number \in 0..MaxCounter :
       Save(<<[defaults EXCEPT !.acorn = acorns],
              [defaults EXCEPT !.acorn = acorns, ![key] = number]>>)
  /\ UNCHANGED <<gameVars, touchVars, boardVars>>

StoreStep == Synchronize /\ UNCHANGED <<gameVars, touchVars, boardVars>>

BoardStep ==
  /\ \E points \in inFlight : ReportAccepted(points) \/ ReportFailed(points)
  /\ UNCHANGED <<gameVars, touchVars, storeVars>>

-----------------------------------------------------------------------------
\* A new ViewController over the store it finds.
Launched(store) ==
  /\ milliseconds = 0 /\ seconds = 0 /\ suffix = 0 /\ count = 1
  /\ timer = "none" /\ runLoop = [kind \in Timers |-> 0]
  /\ isTimerRunning = FALSE /\ checkerCirlceProgress = TRUE
  /\ score = 0 /\ best = 0 /\ greenActiveted = FALSE
  /\ acornNumber = store.acorn
  /\ greenNumber = store.green
  /\ iceNumber   = store.ice
  /\ boolCheckUserDefault = store.bool
  /\ iceEnabled = TRUE /\ greenEnabled = TRUE
  /\ circle = "idle" /\ trackColor = "initial"
  /\ wood = "still" /\ durationRotate = "fast"
  /\ overlayHidden = FALSE /\ confetti = FALSE
  /\ held = {} /\ screen = "loading"

Init ==
  \E store \in InitialStores :
    /\ Opened(store)
    /\ Launched(store)
    /\ inFlight = {}
    /\ leaderboard \in 0..store.best

Next ==
  \/ \E button \in Buttons : TouchDown(button) \/ TouchCancelled(button)
  \/ \E kind \in Timers : Tick(kind)
  \/ StartTapped \/ StopTapped
  \/ IceTapped \/ GreenTapped
  \/ ShopTapped \/ ShopTappedInRound \/ GameCenterTapped
  \/ AuthenticateHandler \/ CoverDismissed \/ ViewDidLoad \/ ViewDidAppear
  \/ ShopWrites \/ StoreStep \/ BoardStep

Spec == Init /\ [][Next]_vars

\* Once on the run loop a timer keeps firing; UIKit finishes presenting a
\* screen; the preferences daemon keeps writing.  The player owes nothing.
FairSpec ==
  /\ Spec
  /\ \A kind \in Timers : WF_vars(Tick(kind))
  /\ WF_vars(ViewDidLoad) /\ WF_vars(ViewDidAppear) /\ WF_vars(StoreStep)

-----------------------------------------------------------------------------
(* Properties.                                                             *)

ClockTypeOK ==
  /\ milliseconds \in Nat /\ seconds \in Nat /\ suffix \in Nat
  /\ count \in 0..Second

TimerTypeOK ==
  /\ timer \in Timers \cup {"none"}
  /\ runLoop \in [Timers -> Int]

FlagTypeOK ==
  /\ isTimerRunning \in BOOLEAN /\ checkerCirlceProgress \in BOOLEAN
  /\ greenActiveted \in BOOLEAN /\ boolCheckUserDefault \in BOOLEAN
  /\ iceEnabled \in BOOLEAN     /\ greenEnabled \in BOOLEAN
  /\ overlayHidden \in BOOLEAN  /\ confetti \in BOOLEAN

CounterTypeOK ==
  /\ score \in Nat /\ best \in Int
  /\ acornNumber \in Int /\ greenNumber \in Int /\ iceNumber \in Int

ViewTypeOK ==
  /\ circle \in {"idle", "running", "paused"}
  /\ trackColor \in {"initial", "reset", "win", "green"}
  /\ wood \in {"still", "fast", "slow"}
  /\ durationRotate \in {"fast", "slow"}

TouchTypeOK ==
  /\ held \subseteq Buttons
  /\ screen \in {"loading", "appearing", "game", "shop", "gameCenter"}

\* Every variable keeps its type; in particular the lap counter never passes
\* the tick at which the circle restarts (274-278).
TypeOK ==
  /\ ClockTypeOK /\ TimerTypeOK /\ FlagTypeOK /\ CounterTypeOK
  /\ ViewTypeOK /\ TouchTypeOK /\ StoreTypeOK /\ BoardTypeOK

\* The run loop fires the timer the controller refers to and no other: no
\* timer is left running without a handle to stop it (112-115, 242, 271-280).
OneTimer ==
  runLoop = [kind \in Timers |-> IF kind = timer THEN 1 ELSE 0]

\* A stop judges the label, which a miss does not rewind (197, 220, 285-293).
\* A label that would score always tells the true time of the stopwatch.
HitsAreReal ==
  OnTheSecond => milliseconds = Second * seconds

\* The flag that is only ever toggled stays in step with the timer, whichever
\* of the two buttons ends a round (143, 224-232).
CheckerInStep == checkerCirlceProgress = ~isTimerRunning

\* What moves on the screen is what runs: the circle sweeps exactly while the
\* round's own timer does, the log rotates while any timer does, a frozen
\* timer shows its overlay, and no confetti falls during a round.
ViewsFollowTimer ==
  /\ circle = "running" <=> timer = "round"
  /\ wood = "still" <=> timer = "none"
  /\ timer = "ice" => ~overlayHidden
  /\ confetti => ~isTimerRunning

\* During a round the track is green exactly when a miss would be forgiven.
ShieldIsVisible ==
  isTimerRunning => (greenActiveted <=> trackColor = "green")

\* No counter goes below zero, in memory, in the store or in any state the
\* store passes through on its way to disk: only the buttons' flags keep a
\* handler from spending what the player has not got (119, 127, 259-270).
NoOverdraft ==
  /\ acornNumber >= 0 /\ greenNumber >= 0 /\ iceNumber >= 0
  /\ \A store \in {defaults, disk} \cup {unsaved[i] : i \in 1..Len(unsaved)} :
       store.acorn >= 0 /\ store.green >= 0 /\ store.ice >= 0

\* Whenever the game is in front its copies of the counters are those of the
\* store, so its next write takes back nothing the shop wrote (72-92, 157).
CountersMirrored ==
  screen = "game" =>
    /\ acornNumber = defaults.acorn
    /\ greenNumber = defaults.green
    /\ iceNumber   = defaults.ice
    /\ best        = defaults.best

\* The leaderboard never holds, and is never on its way to hold, more than
\* the best score the store has.
BoardIsEarned ==
  /\ leaderboard <= defaults.best
  /\ \A points \in inFlight : points <= defaults.best

\* A streak that ends is not lost: best is at least as high by then, in the
\* controller and in the store, and best itself never drops.
StreakIsRecorded ==
  [][/\ score' < score => best' >= score /\ defaults'.best >= score
     /\ best' >= best]_vars

\* Unless a button outlives its hiding, a timer runs in a round only.
TimerOnlyInRound == timer # "none" <=> isTimerRunning

\* Unless a button outlives its hiding, the circle restarts on the clock: in
\* a round that was not frozen the ticks since its last restart and the time
\* on the stopwatch agree up to whole seconds (249, 274-278).
LapsMatchClock ==
  timer = "round" => milliseconds % Second = count % Second

\* A round that is left alone gets to a time that scores, frozen or not.
TargetIsReached == isTimerRunning ~> (OnTheSecond \/ ~isTimerRunning)

\* What README.md says of the game: the player has to stop the timer at one
\* second.  No point is scored by a stop that precedes the first tick of the
\* round's timer.  It does not hold: a stop right after a hit is judged by the
\* label of that hit (197).
PointsNeedATick ==
  [][score' > score /\ timer = "round" => count > 0]_vars

=============================================================================
