---------------------------- MODULE WalletProofs ----------------------------
(***************************************************************************)
(* Proofs about Wallet: an account is never in debt, and no death makes    *)
(* the player richer than what he was given and earned.                    *)
(***************************************************************************)
EXTENDS Wallet, TLAPS

-----------------------------------------------------------------------------
(* The gift.                                                               *)

Fields == {"acorn", "green", "ice"}

\* Two accounts with the same fields are the same.
LEMMA SameAccount ==
  ASSUME NEW one \in Account, NEW other \in Account,
         one.gifted = other.gifted, \A key \in Fields : one[key] = other[key]
  PROVE  one = other
<1>1. /\ one.acorn = other.acorn /\ one.green = other.green
      /\ one.ice = other.ice
  BY DEF Fields
<1>2. QED
  BY <1>1 DEF Account

\* A gift of one kind leaves an account, and touches nothing else.
LEMMA GivenType ==
  ASSUME NEW account \in Account, NEW key \in Fields
  PROVE  /\ Given(account, key) \in Account
         /\ Given(account, key).gifted = account.gifted
         /\ \A field \in Fields :
              Given(account, key)[field] =
                IF field = key /\ account[field] = 0 THEN Gift[field]
                ELSE account[field]
BY WalletAssumption DEF Given, Account, Fields

\* The gift of one kind may be interrupted and made again.
LEMMA GivenAgain ==
  ASSUME NEW account \in Account, NEW key \in Fields
  PROVE  Given(Given(account, key), key) = Given(account, key)
BY WalletAssumption DEF Given, Account, Fields

\* So may the gifts of two kinds, in either order.
LEMMA GivenCommutes ==
  ASSUME NEW account \in Account, NEW one \in Fields, NEW other \in Fields
  PROVE  Given(Given(account, one), other) = Given(Given(account, other), one)
<1> DEFINE left  == Given(Given(account, one), other)
           right == Given(Given(account, other), one)
<1>1. Given(account, one) \in Account /\ Given(account, other) \in Account
  BY GivenType
<1>2. left \in Account /\ right \in Account
  BY <1>1, GivenType
<1>3. left.gifted = right.gifted
  BY <1>1, GivenType
<1>4. ASSUME NEW field \in Fields PROVE left[field] = right[field]
  <2> DEFINE gift(key, n) == IF field = key /\ n = 0 THEN Gift[field] ELSE n
  <2>1. /\ Given(account, one)[field] = gift(one, account[field])
        /\ Given(account, other)[field] = gift(other, account[field])
    BY GivenType
  <2>2. left[field] = gift(other, Given(account, one)[field])
    BY <1>1, GivenType
  <2>3. right[field] = gift(one, Given(account, other)[field])
    BY <1>1, GivenType
  <2>4. CASE one = other
    BY <2>4
  <2>5. CASE one # other
    BY <2>1, <2>2, <2>3, <2>5
  <2>6. QED
    BY <2>4, <2>5
<1>5. QED
  BY <1>2, <1>3, <1>4, SameAccount

LEMMA EndowedType ==
  ASSUME NEW account \in Account
  PROVE  Endowed(account) \in Account /\ Endowed(account).gifted
<1>1. Given(account, "ice") \in Account
  BY GivenType DEF Fields
<1>2. Given(Given(account, "ice"), "green") \in Account
  BY <1>1, GivenType DEF Fields
<1>3. Given(Given(Given(account, "ice"), "green"), "acorn") \in Account
  BY <1>2, GivenType DEF Fields
<1>4. QED
  BY <1>3 DEF Endowed, Account

\* Wherever the gift is interrupted, the next launch completes it to the
\* same account.
LEMMA GiftResumes ==
  ASSUME NEW account \in Account, ~account.gifted
  PROVE  LET iced    == Given(account, "ice")
             greened == Given(iced, "green")
             paid    == Given(greened, "acorn")
         IN  /\ iced \in Account /\ greened \in Account /\ paid \in Account
             /\ [paid EXCEPT !.gifted = TRUE] = Endowed(account)
             /\ Endowed(iced)    = Endowed(account)
             /\ Endowed(greened) = Endowed(account)
             /\ Endowed(paid)    = Endowed(account)
<1> DEFINE iced    == Given(account, "ice")
           greened == Given(iced, "green")
           paid    == Given(greened, "acorn")
<1>1. iced \in Account /\ ~iced.gifted
  BY GivenType DEF Fields
<1>2. greened \in Account /\ ~greened.gifted
  BY <1>1, GivenType DEF Fields
<1>3. paid \in Account /\ ~paid.gifted
  BY <1>2, GivenType DEF Fields
<1>4. Given(iced, "ice") = iced
  BY GivenAgain DEF Fields
<1>5. Given(greened, "green") = greened
  BY <1>1, GivenAgain DEF Fields
<1>6. Given(greened, "ice") = greened
  BY <1>1, <1>4, GivenCommutes DEF Fields
<1>7. Given(paid, "acorn") = paid
  BY <1>2, GivenAgain DEF Fields
<1>8. Given(paid, "green") = paid
  BY <1>2, <1>5, GivenCommutes DEF Fields
<1>9. Given(paid, "ice") = paid
  BY <1>2, <1>6, GivenCommutes DEF Fields
<1>10. Endowed(account) = [paid EXCEPT !.gifted = TRUE]
  BY DEF Endowed
<1>11. Endowed(iced) = [paid EXCEPT !.gifted = TRUE]
  BY <1>1, <1>4 DEF Endowed
<1>12. Endowed(greened) = [paid EXCEPT !.gifted = TRUE]
  BY <1>2, <1>5, <1>6 DEF Endowed
<1>13. Endowed(paid) = [paid EXCEPT !.gifted = TRUE]
  BY <1>3, <1>7, <1>8, <1>9 DEF Endowed
<1>14. QED
  BY <1>1, <1>2, <1>3, <1>10, <1>11, <1>12, <1>13

-----------------------------------------------------------------------------
(* What an account is worth.                                               *)

LEMMA WorthType ==
  ASSUME NEW account \in Account
  PROVE  Value(account) \in Nat
<1>1. Cost * (account.green + account.ice) \in Nat
  BY WalletAssumption DEF Account
<1>2. QED
  BY <1>1 DEF Value, Account

LEMMA WorthEarned ==
  ASSUME NEW account \in Account
  PROVE  LET paid == [account EXCEPT !.acorn = @ + 1]
         IN  paid \in Account /\ Value(paid) = Value(account) + 1
<1>1. Cost * (account.green + account.ice) \in Nat
  BY WalletAssumption DEF Account
<1> DEFINE paid == [account EXCEPT !.acorn = @ + 1]
<1>2. /\ paid \in Account /\ paid.acorn = account.acorn + 1
      /\ paid.green = account.green /\ paid.ice = account.ice
  BY DEF Account
<1>3. account.acorn \in Nat
  BY DEF Account
<1>4. QED
  BY <1>1, <1>2, <1>3 DEF Value

\* A power-up more or less is worth Cost.
LEMMA WorthOfOne ==
  ASSUME NEW account \in Account, NEW kind \in Kinds
  PROVE  LET more == [account EXCEPT ![kind] = @ + 1]
         IN  more \in Account /\ Value(more) = Value(account) + Cost
<1> DEFINE n == account.green + account.ice
<1>1. n \in Nat /\ Cost \in Nat /\ account.acorn \in Nat
  BY WalletAssumption DEF Account
<1>2. Cost * (n + 1) = Cost * n + Cost
  BY <1>1
<1>3. Cost * n \in Nat
  BY <1>1
<1> DEFINE more == [account EXCEPT ![kind] = @ + 1]
<1>4. more \in Account /\ more.acorn = account.acorn
  BY DEF Account, Kinds
<1>5. more.green + more.ice = n + 1
  BY DEF Account, Kinds
<1>6. QED
  BY <1>1, <1>2, <1>3, <1>4, <1>5 DEF Value

LEMMA WorthUsed ==
  ASSUME NEW account \in Account, NEW kind \in Kinds, account[kind] > 0
  PROVE  LET less == [account EXCEPT ![kind] = @ - 1]
         IN  less \in Account /\ Value(less) <= Value(account)
<1> DEFINE less == [account EXCEPT ![kind] = @ - 1]
           more == [less EXCEPT ![kind] = @ + 1]
<1>1. less \in Account
  BY DEF Account, Kinds
<1>2. more = account
  <2>1. more \in Account /\ more.gifted = account.gifted
    BY DEF Account, Kinds
  <2>2. \A key \in Fields : more[key] = account[key]
    BY DEF Account, Kinds, Fields
  <2>3. QED
    BY <2>1, <2>2, SameAccount
<1>3. Value(more) = Value(less) + Cost
  BY <1>1, WorthOfOne
<1>4. QED
  BY <1>1, <1>2, <1>3, WorthType, WalletAssumption

LEMMA WorthBought ==
  ASSUME NEW account \in Account, NEW kind \in Kinds, account.acorn >= Cost
  PROVE  LET paid == [account EXCEPT !.acorn = @ - Cost]
             full == [paid EXCEPT ![kind] = @ + 1]
         IN  /\ paid \in Account /\ full \in Account
             /\ Value(paid) <= Value(account)
             /\ Value(full) = Value(account)
<1> DEFINE paid == [account EXCEPT !.acorn = @ - Cost]
           full == [paid EXCEPT ![kind] = @ + 1]
<1>1. paid \in Account
  BY WalletAssumption DEF Account
<1>2. Cost * (account.green + account.ice) \in Nat
  BY WalletAssumption DEF Account
<1>3. Value(paid) = Value(account) - Cost
  BY <1>2, WalletAssumption DEF Value, Account
<1>4. full \in Account /\ Value(full) = Value(paid) + Cost
  BY <1>1, WorthOfOne
<1>5. QED
  BY <1>1, <1>3, <1>4, WorthType, WalletAssumption

-----------------------------------------------------------------------------
(* The inductive invariant.                                                *)

\* Value no more than this even once its gift is complete.
Covered(account, sum) == account \in Account /\ Value(Endowed(account)) <= sum

\* A trail that ends in an account, and was never worth more than the sum.
SoundTrail(accounts, last, sum) ==
  /\ accounts \in Seq(Account) \ {<<>>}
  /\ accounts[Len(accounts)] = last
  /\ \A i \in 1..Len(accounts) : Covered(accounts[i], sum)

WalletInv == income \in Nat /\ SoundTrail(trail, owned, income)

\* The trail may grow by an account that the income covers.
LEMMA OneMore ==
  ASSUME NEW accounts, NEW last, NEW sum \in Nat, NEW account, NEW more \in Nat,
         SoundTrail(accounts, last, sum), sum <= more, Covered(account, more)
  PROVE  SoundTrail(Append(accounts, account), account, more)
<1>1. accounts \in Seq(Account) /\ accounts # <<>>
  BY DEF SoundTrail
<1>2. account \in Account
  BY DEF Covered
<1> DEFINE longer == Append(accounts, account)
<1>3. /\ longer \in Seq(Account) /\ Len(longer) = Len(accounts) + 1
      /\ longer # <<>> /\ longer[Len(longer)] = account
  BY <1>1, <1>2
<1>4. ASSUME NEW i \in 1..Len(longer)
      PROVE  Covered(longer[i], more)
  <2>1. CASE i = Len(longer)
    BY <1>3, <2>1
  <2>2. CASE i # Len(longer)
    <3>1. i \in 1..Len(accounts) /\ longer[i] = accounts[i]
      BY <1>1, <1>3, <2>2
    <3>2. accounts[i] \in Account /\ Value(Endowed(accounts[i])) <= sum
      BY <3>1 DEF SoundTrail, Covered
    <3>3. Value(Endowed(accounts[i])) \in Nat
      BY <3>2, EndowedType, WorthType
    <3>4. QED
      BY <3>1, <3>2, <3>3 DEF Covered
  <2>3. QED
    BY <2>1, <2>2
<1>5. QED
  BY <1>3, <1>4 DEF SoundTrail

\* The account itself is covered.
LEMMA OwnedIsCovered ==
  ASSUME WalletInv
  PROVE  owned \in Account /\ Value(Endowed(owned)) <= income
BY DEF WalletInv, SoundTrail, Covered

LEMMA GiftedIsEndowed ==
  ASSUME NEW account \in Account, account.gifted
  PROVE  Endowed(account) = account
BY DEF Endowed

\* A handler that makes one write ...
LEMMA BecomesOne ==
  ASSUME WalletInv, NEW account, Becomes(<<account>>),
         income' \in Nat, income <= income', Covered(account, income')
  PROVE  WalletInv'
<1>1. owned' = account /\ trail' = Append(trail, account)
  BY DEF Becomes, WalletInv, SoundTrail
<1>2. SoundTrail(Append(trail, account), account, income')
  BY OneMore DEF WalletInv
<1>3. QED
  BY <1>1, <1>2 DEF WalletInv

\* ... two ...
LEMMA BecomesTwo ==
  ASSUME WalletInv, NEW one, NEW two, Becomes(<<one, two>>),
         UNCHANGED income, Covered(one, income), Covered(two, income)
  PROVE  WalletInv'
<1>1. owned' = two /\ trail' = Append(Append(trail, one), two)
  BY DEF Becomes, WalletInv, SoundTrail, Covered
<1>2. income \in Nat /\ SoundTrail(trail, owned, income)
  BY DEF WalletInv
<1>3. SoundTrail(Append(trail, one), one, income)
  BY <1>2, OneMore
<1>4. SoundTrail(Append(Append(trail, one), two), two, income)
  BY <1>2, <1>3, OneMore
<1>5. QED
  BY <1>1, <1>2, <1>4 DEF WalletInv

\* ... or four.
LEMMA BecomesFour ==
  ASSUME WalletInv, NEW one, NEW two, NEW three, NEW four,
         Becomes(<<one, two, three, four>>), UNCHANGED income,
         Covered(one, income), Covered(two, income),
         Covered(three, income), Covered(four, income)
  PROVE  WalletInv'
<1>1. income \in Nat /\ SoundTrail(trail, owned, income)
  BY DEF WalletInv
<1>2. trail \in Seq(Account) /\ {one, two, three, four} \subseteq Account
  BY DEF WalletInv, SoundTrail, Covered
<1> DEFINE longer == Append(Append(Append(Append(trail, one), two), three),
                            four)
<1>3. owned' = four /\ trail' = longer
  BY <1>2 DEF Becomes
<1>4. SoundTrail(Append(trail, one), one, income)
  BY <1>1, OneMore
<1>5. SoundTrail(Append(Append(trail, one), two), two, income)
  BY <1>1, <1>4, OneMore
<1>6. SoundTrail(Append(Append(Append(trail, one), two), three), three, income)
  BY <1>1, <1>5, OneMore
<1>7. SoundTrail(longer, four, income)
  BY <1>1, <1>6, OneMore
<1>8. QED
  BY <1>1, <1>3, <1>7 DEF WalletInv

-----------------------------------------------------------------------------
(* The steps.                                                              *)

LEMMA WalletInitially == WalletInit => WalletInv
<1> SUFFICES ASSUME WalletInit PROVE WalletInv
  OBVIOUS
<1>1. owned \in Account
  BY WalletAssumption DEF WalletInit, Account
<1>2. Value(Endowed(owned)) \in Nat
  BY <1>1, EndowedType, WorthType
<1>3. trail = <<owned>> /\ income = Value(Endowed(owned))
  BY DEF WalletInit
<1>4. Covered(owned, income)
  BY <1>1, <1>2, <1>3 DEF Covered
<1>5. QED
  BY <1>1, <1>2, <1>3, <1>4 DEF WalletInv, SoundTrail

LEMMA WalletStep == WalletInv /\ [WalletNext]_walletState => WalletInv'
<1> SUFFICES ASSUME WalletInv, [WalletNext]_walletState PROVE WalletInv'
  OBVIOUS
<1>1. owned \in Account /\ Value(Endowed(owned)) <= income /\ income \in Nat
  BY OwnedIsCovered DEF WalletInv
<1>2. CASE Endow
  <2> DEFINE iced    == Given(owned, "ice")
             greened == Given(iced, "green")
             paid    == Given(greened, "acorn")
             full    == [paid EXCEPT !.gifted = TRUE]
  <2>1. ~owned.gifted /\ Becomes(<<iced, greened, paid, full>>)
        /\ UNCHANGED income
    BY <1>2 DEF Endow
  <2>2. /\ iced \in Account /\ greened \in Account /\ paid \in Account
        /\ full = Endowed(owned)
        /\ Endowed(iced) = full /\ Endowed(greened) = full
        /\ Endowed(paid) = full
    BY <1>1, <2>1, GiftResumes
  <2>3. full \in Account /\ Endowed(full) = full
    BY <1>1, <2>2, EndowedType, GiftedIsEndowed
  <2>4. /\ Covered(iced, income) /\ Covered(greened, income)
        /\ Covered(paid, income) /\ Covered(full, income)
    BY <1>1, <2>2, <2>3 DEF Covered
  <2>5. QED
    BY <2>1, <2>4, BecomesFour
<1>3. CASE Earn
  <2> DEFINE paid == [owned EXCEPT !.acorn = @ + 1]
  <2>1. owned.gifted /\ Becomes(<<paid>>) /\ income' = income + 1
    BY <1>3 DEF Earn
  <2>2. paid \in Account /\ Value(paid) = Value(owned) + 1
    BY <1>1, WorthEarned
  <2>3. paid.gifted
    BY <1>1, <2>1 DEF Account
  <2>4. Endowed(owned) = owned /\ Endowed(paid) = paid
    BY <1>1, <2>1, <2>2, <2>3, GiftedIsEndowed
  <2>5. Covered(paid, income')
    BY <1>1, <2>1, <2>2, <2>4, WorthType DEF Covered
  <2>6. QED
    BY <1>1, <2>1, <2>5, BecomesOne
<1>4. ASSUME NEW kind \in Kinds, Use(kind) PROVE WalletInv'
  <2> DEFINE less == [owned EXCEPT ![kind] = @ - 1]
  <2>1. owned.gifted /\ owned[kind] > 0 /\ Becomes(<<less>>)
        /\ UNCHANGED income
    BY <1>4 DEF Use
  <2>2. less \in Account /\ Value(less) <= Value(owned)
    BY <1>1, <2>1, WorthUsed
  <2>3. less.gifted
    BY <1>1, <2>1 DEF Account, Kinds
  <2>4. Endowed(owned) = owned /\ Endowed(less) = less
    BY <1>1, <2>1, <2>2, <2>3, GiftedIsEndowed
  <2>5. Covered(less, income')
    BY <1>1, <2>1, <2>2, <2>4, WorthType DEF Covered
  <2>6. QED
    BY <1>1, <2>1, <2>5, BecomesOne
<1>5. ASSUME NEW kind \in Kinds, Buy(kind) PROVE WalletInv'
  <2> DEFINE paid == [owned EXCEPT !.acorn = @ - Cost]
             full == [paid EXCEPT ![kind] = @ + 1]
  <2>1. owned.gifted /\ owned.acorn >= Cost /\ Becomes(<<paid, full>>)
        /\ UNCHANGED income
    BY <1>5 DEF Buy
  <2>2. /\ paid \in Account /\ full \in Account
        /\ Value(paid) <= Value(owned) /\ Value(full) = Value(owned)
    BY <1>1, <2>1, WorthBought
  <2>3. paid.gifted /\ full.gifted
    BY <1>1, <2>1 DEF Account, Kinds
  <2>4. /\ Endowed(owned) = owned /\ Endowed(paid) = paid
        /\ Endowed(full) = full
    BY <1>1, <2>1, <2>2, <2>3, GiftedIsEndowed
  <2>5. Covered(paid, income) /\ Covered(full, income)
    BY <1>1, <2>2, <2>4, WorthType DEF Covered
  <2>6. QED
    BY <2>1, <2>5, BecomesTwo
<1>6. CASE Resave
  <2>1. Becomes(<<owned>>) /\ UNCHANGED income
    BY <1>6 DEF Resave
  <2>2. Covered(owned, income')
    BY <1>1, <2>1 DEF Covered
  <2>3. QED
    BY <1>1, <2>1, <2>2, BecomesOne
<1>7. CASE Forget
  <2>1. /\ trail \in Seq(Account) /\ Len(trail) > 1
        /\ trail' = Tail(trail) /\ owned' = owned /\ income' = income
    BY <1>7 DEF Forget, WalletInv, SoundTrail
  <2>2. /\ trail' \in Seq(Account) /\ Len(trail') = Len(trail) - 1
        /\ trail' # <<>>
        /\ \A i \in 1..Len(trail') : trail'[i] = trail[i + 1]
    <3>1. trail' \in Seq(Account) /\ Len(trail') = Len(trail) - 1
      BY <2>1
    <3>2. \A i \in 1..Len(trail') : trail'[i] = trail[i + 1]
      BY <2>1, <3>1
    <3>3. Len(trail') # 0
      BY <2>1, <3>1
    <3>4. Len(<<>>) = 0
      OBVIOUS
    <3>5. QED
      BY <3>1, <3>2, <3>3, <3>4
  <2>3. trail'[Len(trail')] = owned'
    BY <2>1, <2>2 DEF WalletInv, SoundTrail
  <2>4. \A i \in 1..Len(trail') : Covered(trail'[i], income')
    BY <2>1, <2>2 DEF WalletInv, SoundTrail
  <2>5. QED
    BY <1>1, <2>1, <2>2, <2>3, <2>4 DEF WalletInv, SoundTrail
<1>8. CASE Die
  <2>1. /\ trail \in Seq(Account) /\ trail # <<>> /\ Head(trail) = trail[1]
        /\ 1 \in 1..Len(trail)
    BY DEF WalletInv, SoundTrail
  <2>2. owned' = trail[1] /\ trail' = <<trail[1]>> /\ income' = income
    BY <1>8, <2>1 DEF Die
  <2>3. Covered(trail[1], income) /\ trail[1] \in Account
    BY <2>1 DEF WalletInv, SoundTrail
  <2>4. QED
    BY <1>1, <2>2, <2>3 DEF WalletInv, SoundTrail
<1>9. CASE UNCHANGED walletState
  BY <1>9 DEF walletState, WalletInv, SoundTrail, Covered
<1>10. QED
  BY <1>2, <1>3, <1>4, <1>5, <1>6, <1>7, <1>8, <1>9 DEF WalletNext

LEMMA WalletInvAlways == WalletSpec => []WalletInv
BY WalletInitially, WalletStep, PTL DEF WalletSpec

\* Every variable of the account keeps its type; it is never in debt,
\* whatever a power-up costs and however often the process dies.
THEOREM WalletTypeCorrect == WalletSpec => []WalletTypeOK
<1>1. WalletInv => WalletTypeOK
  BY DEF WalletInv, WalletTypeOK, SoundTrail, Covered
<1>2. QED
  BY <1>1, WalletInvAlways, PTL

\* No death makes the player richer than what he was given and earned.
THEOREM NothingMintedSafe == WalletSpec => []NothingMinted
<1>1. WalletInv => NothingMinted
  BY DEF WalletInv, NothingMinted, SoundTrail, Covered
<1>2. QED
  BY <1>1, WalletInvAlways, PTL

=============================================================================
