------------------------ MODULE ShopControllerProofs ------------------------
(***************************************************************************)
(* Proofs about ShopController: it sells nothing on credit, its copies are *)
(* the counters of the store, and no interrupted purchase gives a power-up *)
(* away, for every price, catalog and opening store.                       *)
(***************************************************************************)
EXTENDS ShopController, TLAPS

-----------------------------------------------------------------------------
(* The store.                                                              *)

\* The stores whose counters and best score are in a set of numbers: Int for
\* types, Nat where no counter may be overdrawn.
StoreOf(Numbers) ==
  [bool : BOOLEAN, acorn : Numbers, green : Numbers, ice : Numbers,
   best : Numbers]

StoresOf(Numbers) ==
  /\ defaults \in StoreOf(Numbers)
  /\ unsaved  \in Seq(StoreOf(Numbers))
  /\ disk     \in StoreOf(Numbers)

\* A handler that makes two writes leaves the process with the last of them.
LEMMA SaveTwo ==
  ASSUME NEW Numbers, StoresOf(Numbers),
         NEW s1 \in StoreOf(Numbers), NEW s2 \in StoreOf(Numbers),
         Save(<<s1, s2>>)
  PROVE  defaults' = s2 /\ StoresOf(Numbers)'
  BY DEF Save, StoresOf

\* The disk only ever takes a store that was queued, and the process reads
\* what it read before.
LEMMA SynchronizeOne ==
  ASSUME NEW Numbers, StoresOf(Numbers), Synchronize
  PROVE  defaults' = defaults /\ StoresOf(Numbers)'
  BY DEF Synchronize, StoresOf

-----------------------------------------------------------------------------
(* The invariant.                                                          *)

\* The inductive invariant: the copies cannot be known to be natural numbers
\* without the store, nor the store without the copies.
ShopInv ==
  /\ StoresOf(Nat)
  /\ CopiesInStep
  /\ delivered \in 0..Len(Catalog)
  /\ NothingForFree

-----------------------------------------------------------------------------
(* What a store is worth.                                                  *)

LEMMA WorthIsInt ==
  ASSUME NEW store \in StoreOf(Nat)
  PROVE  Worth(store) \in Int
<1>1. Price * (store.green + store.ice) \in Int
  BY ShopControllerAssumption DEF StoreOf
<1>2. QED
  BY <1>1 DEF Worth, StoreOf

\* Price acorns less are worth Price less ...
LEMMA WorthOfPaid ==
  ASSUME NEW store \in StoreOf(Nat), store.acorn >= Price
  PROVE  LET paid == [store EXCEPT !.acorn = store.acorn - Price]
         IN  paid \in StoreOf(Nat) /\ Worth(paid) = Worth(store) - Price
<1> DEFINE paid == [store EXCEPT !.acorn = store.acorn - Price]
<1>1. store.acorn \in Nat /\ Price \in Nat /\ store.acorn - Price \in Nat
  BY ShopControllerAssumption DEF StoreOf
<1>2. /\ paid \in StoreOf(Nat) /\ paid.acorn = store.acorn - Price
      /\ paid.green = store.green /\ paid.ice = store.ice
  BY <1>1 DEF StoreOf
<1>3. Price * (store.green + store.ice) \in Int
  BY <1>1 DEF StoreOf
<1>4. QED
  BY <1>1, <1>2, <1>3 DEF Worth

\* ... and a power-up more is worth Price more.
LEMMA WorthOfOne ==
  ASSUME NEW store \in StoreOf(Nat), NEW kind \in {"green", "ice"}
  PROVE  LET more == [store EXCEPT ![kind] = store[kind] + 1]
         IN  more \in StoreOf(Nat) /\ Worth(more) = Worth(store) + Price
<1> DEFINE more == [store EXCEPT ![kind] = store[kind] + 1]
           n    == store.green + store.ice
<1>1. n \in Nat /\ Price \in Nat /\ store.acorn \in Nat
  BY ShopControllerAssumption DEF StoreOf
<1>2. Price * (n + 1) = Price * n + Price /\ Price * n \in Nat
  BY <1>1
<1>3. /\ more \in StoreOf(Nat) /\ more.acorn = store.acorn
      /\ more.green + more.ice = n + 1
  BY DEF StoreOf
<1>4. QED
  BY <1>1, <1>2, <1>3 DEF Worth

-----------------------------------------------------------------------------
(* One purchase, whichever counter it raises.                              *)

\* The store a paid-for power-up leads to, by way of Receipt.
LEMMA ReceiptIsFair ==
  ASSUME ShopInv, CanAfford, NEW kind \in {"green", "ice"},
         Save(Receipt(kind, defaults[kind] + 1))
  PROVE  /\ StoresOf(Nat)'
         /\ defaults' = [[defaults EXCEPT !.acorn = acornNumber - Price]
                           EXCEPT ![kind] = defaults[kind] + 1]
         /\ NothingForFree'
<1> DEFINE paid == [defaults EXCEPT !.acorn = defaults.acorn - Price]
           full == [paid EXCEPT ![kind] = paid[kind] + 1]
<1>1. defaults \in StoreOf(Nat) /\ disk \in StoreOf(Nat)
      /\ unsaved \in Seq(StoreOf(Nat))
  BY DEF ShopInv, StoresOf
<1>2. acornNumber = defaults.acorn /\ defaults.acorn >= Price
  BY DEF ShopInv, CopiesInStep, CanAfford
<1>3. paid \in StoreOf(Nat) /\ Worth(paid) = Worth(defaults) - Price
  BY <1>1, <1>2, WorthOfPaid
<1>4. full \in StoreOf(Nat) /\ Worth(full) = Worth(paid) + Price
  BY <1>3, WorthOfOne
<1>5. paid[kind] = defaults[kind]
  BY <1>1 DEF StoreOf
<1>6. Receipt(kind, defaults[kind] + 1) = <<paid, full>>
  BY <1>2, <1>5 DEF Receipt
<1>7. defaults' = full /\ StoresOf(Nat)'
  BY <1>3, <1>4, <1>6, SaveTwo DEF ShopInv
<1>8. unsaved' = unsaved \o <<paid, full>> /\ disk' = disk
  BY <1>6 DEF Save
<1>9. Worth(defaults) \in Int /\ Price \in Nat
  BY <1>1, WorthIsInt, ShopControllerAssumption
<1>10. Worth(full) = Worth(defaults) /\ Worth(paid) <= Worth(full)
  BY <1>3, <1>4, <1>9
<1>11. Worth(disk) <= Worth(full)
  BY <1>10 DEF ShopInv, NothingForFree
<1>12. ASSUME NEW i \in 1..Len(unsaved') PROVE Worth(unsaved'[i]) <= Worth(full)
  <2>1. CASE i \in 1..Len(unsaved)
    <3>1. unsaved'[i] = unsaved[i]
      BY <1>1, <1>3, <1>4, <1>8, <2>1
    <3>2. Worth(unsaved[i]) <= Worth(defaults)
      BY <2>1 DEF ShopInv, NothingForFree
    <3>3. QED
      BY <1>10, <3>1, <3>2
  <2>2. CASE i \notin 1..Len(unsaved)
    <3>1. unsaved'[i] \in {paid, full}
      <4>1. /\ Len(unsaved') = Len(unsaved) + 2 /\ Len(unsaved) \in Nat
            /\ unsaved'[Len(unsaved) + 1] = paid
            /\ unsaved'[Len(unsaved) + 2] = full
        BY <1>1, <1>3, <1>4, <1>8
      <4>2. i = Len(unsaved) + 1 \/ i = Len(unsaved) + 2
        BY <4>1, <2>2
      <4>3. QED
        BY <4>1, <4>2
    <3>2. Worth(full) <= Worth(full)
      BY <1>9, <1>10
    <3>3. QED
      BY <1>10, <3>1, <3>2
  <2>3. QED
    BY <2>1, <2>2
<1>13. NothingForFree'
  BY <1>7, <1>8, <1>11, <1>12 DEF NothingForFree, Worth
<1>14. QED
  BY <1>2, <1>5, <1>7, <1>13

-----------------------------------------------------------------------------
(* The steps.                                                              *)

LEMMA ShopInitially == Init => ShopInv
<1> SUFFICES ASSUME NEW store \in OpeningStores, Opened(store),
                    acornNumber = store.acorn, greenNumber = store.green,
                    iceNumber = store.ice, delivered = 0
             PROVE  ShopInv
  BY DEF Init
<1>1. defaults = store /\ unsaved = <<>> /\ disk = store
  BY DEF Opened
<1>2. store \in StoreOf(Nat)
  BY ShopControllerAssumption DEF StoreOf, Store
<1>3. StoresOf(Nat) /\ CopiesInStep
  BY <1>1, <1>2 DEF StoresOf, CopiesInStep
<1>4. delivered \in 0..Len(Catalog)
  BY ShopControllerAssumption
<1>5. Worth(store) \in Int
  BY <1>2, WorthIsInt
<1>6. {disk} \cup {unsaved[i] : i \in 1..Len(unsaved)} = {store}
  BY <1>1
<1>7. NothingForFree
  BY <1>1, <1>5, <1>6 DEF NothingForFree
<1>8. QED
  BY <1>3, <1>4, <1>7 DEF ShopInv

LEMMA ShopStep ==
  ShopInv /\ [Next]_<<shopVars, storeVars>> => ShopInv'
<1> SUFFICES ASSUME ShopInv, [Next]_<<shopVars, storeVars>> PROVE ShopInv'
  OBVIOUS
<1>1. CASE PowerUpAdded
  <2>1. UNCHANGED <<purseVars, storeVars>> /\ delivered' \in 0..Len(Catalog)
    BY <1>1, ShopControllerAssumption DEF PowerUpAdded, ShopInv
  <2>2. QED
    BY <2>1 DEF ShopInv, StoresOf, CopiesInStep, NothingForFree, Worth,
                purseVars, storeVars
<1>2. ASSUME NEW row \in DOMAIN powerUps, DidSelect(row) PROVE ShopInv'
  <2>1. CanAfford /\ acornNumber' = acornNumber - Price
        /\ delivered' = delivered
    BY <1>2 DEF DidSelect
  <2>2. defaults \in StoreOf(Nat)
    BY DEF ShopInv, StoresOf
  <2>3. /\ acornNumber = defaults.acorn /\ greenNumber = defaults.green
        /\ iceNumber = defaults.ice
    BY DEF ShopInv, CopiesInStep
  <2>4. CASE BuyGreen
    <3>1. /\ greenNumber' = defaults.green + 1 /\ iceNumber' = defaults.ice
          /\ Save(Receipt("green", defaults["green"] + 1))
      BY <2>3, <2>4 DEF BuyGreen
    <3>2. /\ StoresOf(Nat)' /\ NothingForFree'
          /\ defaults' = [[defaults EXCEPT !.acorn = acornNumber - Price]
                            EXCEPT !["green"] = defaults["green"] + 1]
      BY <2>1, <3>1, ReceiptIsFair
    <3>3. CopiesInStep'
      BY <2>1, <2>2, <2>3, <3>1, <3>2 DEF CopiesInStep, StoreOf
    <3>4. QED
      BY <2>1, <3>2, <3>3 DEF ShopInv
  <2>5. CASE BuyIce
    <3>1. /\ iceNumber' = defaults.ice + 1 /\ greenNumber' = defaults.green
          /\ Save(Receipt("ice", defaults["ice"] + 1))
      BY <2>3, <2>5 DEF BuyIce
    <3>2. /\ StoresOf(Nat)' /\ NothingForFree'
          /\ defaults' = [[defaults EXCEPT !.acorn = acornNumber - Price]
                            EXCEPT !["ice"] = defaults["ice"] + 1]
      BY <2>1, <3>1, ReceiptIsFair
    <3>3. CopiesInStep'
      BY <2>1, <2>2, <2>3, <3>1, <3>2 DEF CopiesInStep, StoreOf
    <3>4. QED
      BY <2>1, <3>2, <3>3 DEF ShopInv
  <2>6. QED
    BY <1>2, <2>4, <2>5 DEF DidSelect
<1>3. CASE Synchronize /\ UNCHANGED shopVars
  <2>1. defaults' = defaults /\ StoresOf(Nat)'
    BY <1>3, SynchronizeOne DEF ShopInv
  <2>2. CopiesInStep' /\ delivered' \in 0..Len(Catalog)
    BY <1>3, <2>1 DEF ShopInv, CopiesInStep, shopVars, purseVars
  <2>3. /\ unsaved \in Seq(StoreOf(Nat)) /\ unsaved # <<>>
        /\ disk' = unsaved[1] /\ unsaved' = Tail(unsaved)
    BY <1>3 DEF Synchronize, ShopInv, StoresOf
  <2>4. Worth(disk') <= Worth(defaults)
    BY <2>3 DEF ShopInv, NothingForFree
  <2>5. ASSUME NEW i \in 1..Len(unsaved')
        PROVE  Worth(unsaved'[i]) <= Worth(defaults)
    <3>1. unsaved'[i] = unsaved[i + 1] /\ i + 1 \in 1..Len(unsaved)
      BY <2>3
    <3>2. QED
      BY <3>1 DEF ShopInv, NothingForFree
  <2>6. NothingForFree'
    BY <2>1, <2>4, <2>5 DEF NothingForFree, Worth
  <2>7. QED
    BY <2>1, <2>2, <2>6 DEF ShopInv
<1>4. CASE UNCHANGED <<shopVars, storeVars>>
  BY <1>4 DEF ShopInv, StoresOf, CopiesInStep, NothingForFree, Worth, shopVars,
              purseVars, storeVars
<1>5. QED
  BY <1>1, <1>2, <1>3, <1>4 DEF Next

LEMMA ShopInvAlways == Spec => []ShopInv
BY ShopInitially, ShopStep, PTL DEF Spec

\* Every variable keeps its type; the shop sells nothing on credit.
THEOREM ShopTypeCorrect == Spec => []ShopTypeOK
<1>1. ASSUME ShopInv PROVE ShopTypeOK
  <2>1. /\ defaults \in StoreOf(Nat) /\ disk \in StoreOf(Nat)
        /\ unsaved \in Seq(StoreOf(Nat))
    BY <1>1 DEF ShopInv, StoresOf
  <2>2. StoreOf(Nat) \subseteq Store
    BY DEF StoreOf, Store
  <2>3. unsaved \in Seq(Store)
    BY <2>1, <2>2
  <2>4. acornNumber \in Nat /\ greenNumber \in Nat /\ iceNumber \in Nat
    BY <1>1, <2>1 DEF ShopInv, CopiesInStep, StoreOf
  <2>5. QED
    BY <1>1, <2>1, <2>2, <2>3, <2>4 DEF ShopInv, ShopTypeOK, StoreTypeOK
<1>2. QED
  BY <1>1, ShopInvAlways, PTL

\* The shop's copies are the counters of the store.
THEOREM CopiesInStepSafe == Spec => []CopiesInStep
<1>1. ShopInv => CopiesInStep
  BY DEF ShopInv
<1>2. QED
  BY <1>1, ShopInvAlways, PTL

\* An interrupted purchase may lose the acorns, it never gives a power-up
\* away.
THEOREM NothingForFreeSafe == Spec => []NothingForFree
<1>1. ShopInv => NothingForFree
  BY DEF ShopInv
<1>2. QED
  BY <1>1, ShopInvAlways, PTL

=============================================================================
