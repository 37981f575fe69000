------------------------------- MODULE Wallet -------------------------------
(***************************************************************************)
(* What the counters of OneSecond promise the player, whichever controller *)
(* writes them and whenever the process dies: one account, to which a hit  *)
(* adds an acorn, a tap takes a power-up, and the shop turns Cost acorns  *)
(* into a power-up.  Nothing else ever happens to it, except that a dead   *)
(* process takes it back to one of its earlier states.                     *)
(***************************************************************************)
EXTENDS Integers, Sequences

CONSTANTS
  Cost,   \* acorns a power-up costs
  Gift,    \* what a new player is given
  Openings \* the accounts the app may find when it is first looked at

ASSUME WalletAssumption ==
  /\ Cost \in Nat
  /\ Gift \in [acorn : Nat, green : Nat, ice : Nat]
  /\ Openings \subseteq [gifted : BOOLEAN, acorn : Nat, green : Nat, ice : Nat]

VARIABLES
  owned,    \* the account
  trail,    \* where a death may take it back to, the earliest first
  income    \* all the player ever had, in acorns (history)

walletState == <<owned, trail, income>>

Kinds   == {"green", "ice"}
Account == [gifted : BOOLEAN, acorn : Nat, green : Nat, ice : Nat]

Value(account) == account.acorn + Cost * (account.green + account.ice)

\* A new player is given what he has nothing of.
Given(account, key) ==
  [account EXCEPT ![key] = IF account[key] = 0 THEN Gift[key] ELSE @]

\* The account once the gift is complete.
Endowed(account) ==
  IF account.gifted THEN account
  ELSE [Given(Given(Given(account, "ice"), "green"), "acorn")
          EXCEPT !.gifted = TRUE]

WalletInit ==
  /\ owned \in Openings
  /\ trail  = <<owned>>
  /\ income = Value(Endowed(owned))

\* The account passes through these states, and stays in the last.
Becomes(accounts) ==
  /\ owned' = accounts[Len(accounts)]
  /\ trail' = trail \o accounts

Endow ==
  LET iced    == Given(owned, "ice")
      greened == Given(iced, "green")
      paid    == Given(greened, "acorn")
  IN  /\ ~owned.gifted
      /\ Becomes(<<iced, greened, paid, [paid EXCEPT !.gifted = TRUE]>>)
      /\ UNCHANGED income

Earn ==
  /\ owned.gifted
  /\ Becomes(<<[owned EXCEPT !.acorn = @ + 1]>>)
  /\ income' = income + 1

Use(kind) ==
  /\ owned.gifted
  /\ owned[kind] > 0
  /\ Becomes(<<[owned EXCEPT ![kind] = @ - 1]>>)
  /\ UNCHANGED income

\* Mutant of Buy: goods first, price second.
BuyGoodsFirst(kind) ==
  LET goods == [owned EXCEPT ![kind] = @ + 1]
  IN  /\ owned.gifted
      /\ owned.acorn >= Cost
      /\ Becomes(<<goods, [goods EXCEPT !.acorn = @ - Cost]>>)
      /\ UNCHANGED income

\* Cost first, goods second.
Buy(kind) ==
  LET paid == [owned EXCEPT !.acorn = @ - Cost]
  IN  /\ owned.gifted
      /\ owned.acorn >= Cost
      /\ Becomes(<<paid, [paid EXCEPT ![kind] = @ + 1]>>)
      /\ UNCHANGED income

\* Something else is saved with the account as it is: a best score.
Resave == Becomes(<<owned>>) /\ UNCHANGED income

Forget ==
  /\ Len(trail) > 1
  /\ trail' = Tail(trail)
  /\ UNCHANGED <<owned, income>>

Die ==
  /\ owned' = Head(trail)
  /\ trail' = <<Head(trail)>>
  /\ UNCHANGED income

WalletNext ==
  \/ Endow \/ Earn
  \/ \E kind \in Kinds : Use(kind) \/ Buy(kind)
  \/ Resave \/ Forget \/ Die

WalletSpec == WalletInit /\ [][WalletNext]_walletState

-----------------------------------------------------------------------------
(* Properties.                                                             *)

\* Every variable keeps its type; no account is ever in debt.
WalletTypeOK ==
  /\ owned \in Account
  /\ trail \in Seq(Account) \ {<<>>}
  /\ income \in Nat

\* Dying never makes the player richer than what he was given and earned:
\* not in the middle of a purchase, and not in the middle of the gift.
NothingMinted ==
  \A i \in 1..Len(trail) : Value(Endowed(trail[i])) <= income

=============================================================================
