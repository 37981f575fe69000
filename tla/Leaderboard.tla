---------------------------- MODULE Leaderboard -----------------------------
(***************************************************************************)
(* The Game Center leaderboard, seen from ViewController.checkBestScore:   *)
(* GKScore.report sends the best score and the completion handler only     *)
(* prints.  GameKit is external; a report may be lost or arrive late, and  *)
(* in any order, and the board keeps the highest score it was sent.        *)
(***************************************************************************)
EXTENDS Integers

VARIABLES
  inFlight,      \* scores reported and not yet answered
  leaderboard    \* the player's score on the board

boardVars == <<inFlight, leaderboard>>

\* GKScore.report: the same score reported twice is one entry of the board.
Report(score) ==
  /\ inFlight' = inFlight \cup {score}
  /\ UNCHANGED leaderboard

ReportAccepted(score) ==
  /\ score \in inFlight
  /\ inFlight'    = inFlight \ {score}
  /\ leaderboard' = IF score > leaderboard THEN score ELSE leaderboard

\* error # nil: the handler prints it and nothing is retried.
ReportFailed(score) ==
  /\ score \in inFlight
  /\ inFlight' = inFlight \ {score}
  /\ UNCHANGED leaderboard

BoardTypeOK ==
  /\ inFlight \subseteq Int
  /\ leaderboard \in Int

=============================================================================
