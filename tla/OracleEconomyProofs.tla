------------------------ MODULE OracleEconomyProofs ------------------------
(***************************************************************************)
(* The tokens of the virtual machine: no handler makes any, only a second  *)
(* deposit loses some, and the sums the code does not check fit.  And the  *)
(* state keys: the handlers of tokens find the ones they declare.          *)
(***************************************************************************)
EXTENDS OracleVMProofs, StateKeys

-----------------------------------------------------------------------------
(***************************************************************************)
(* What is held for bribes.                                                *)
(***************************************************************************)

\* The amount of each offer in a book of offers, by key and provider.
Escrowed(book) ==
  [kp \in UNION {{k} \X DOMAIN book[k] : k \in DOMAIN book} |->
     book[kp[1]][kp[2]].amount]

\* A book of offers as the store keeps it.
IsBook(book) ==
  /\ DOMAIN book \subseteq BribeKeys
  /\ \A k \in DOMAIN book :
       /\ DOMAIN book[k] \subseteq Accounts
       /\ book[k] \in [DOMAIN book[k] -> Bribe]

\* There are finitely many feeds, rounds and keys of bribes.
LEMMA KeysFinite ==
  IsFiniteSet(FeedIDs) /\ IsFiniteSet(Rounds) /\ IsFiniteSet(BribeKeys)
<1> DEFINE nested == (FeedIDs \X Accounts) \X Rounds
           flat == [n \in nested |-> <<n[1][1], n[1][2], n[2]>>]
<1>1. IsFiniteSet(FeedIDs) /\ IsFiniteSet(Rounds)
  <2>1. MaxFeedID \in Int /\ MaxRound \in Int
    BY FeedsAssumption
  <2>2. IsFiniteSet(0 .. MaxFeedID) /\ IsFiniteSet(1 .. MaxRound)
    BY <2>1, FS_Interval
  <2> QED
    BY <2>2 DEF FeedIDs, Rounds
<1>2. IsFiniteSet(FeedIDs \X Accounts)
  BY <1>1, AccountsAssumption, FS_Product
<1>3. IsFiniteSet(nested)
  BY <1>1, <1>2, FS_Product
<1>4. flat \in [nested -> BribeKeys]
  BY DEF BribeKeys
<1>5. \A k \in BribeKeys : \E n \in nested : flat[n] = k
  <2> SUFFICES ASSUME NEW k \in BribeKeys
               PROVE  <<<<k[1], k[2]>>, k[3]>> \in nested
                      /\ flat[<<<<k[1], k[2]>>, k[3]>>] = k
    OBVIOUS
  <2>1. /\ k[1] \in FeedIDs /\ k[2] \in Accounts /\ k[3] \in Rounds
        /\ k = <<k[1], k[2], k[3]>>
    BY DEF BribeKeys
  <2>2. <<<<k[1], k[2]>>, k[3]>> \in nested
    BY <2>1
  <2> QED
    BY <2>1, <2>2
<1>6. flat \in Surjection(nested, BribeKeys)
  <2> HIDE DEF flat, nested
  <2> QED
    BY <1>4, <1>5 DEF Surjection
<1>7. IsFiniteSet(BribeKeys)
  BY <1>3, <1>6, FS_Surjection
<1> QED
  BY <1>1, <1>7

\* The offers of a book are finitely many, with natural amounts.
LEMMA EscrowedType ==
  ASSUME NEW book, IsBook(book)
  PROVE  /\ IsFiniteSet(DOMAIN Escrowed(book))
         /\ Escrowed(book) \in [DOMAIN Escrowed(book) -> Nat]
         /\ \A k \in DOMAIN book :
              /\ {k} \X DOMAIN book[k] \subseteq DOMAIN Escrowed(book)
              /\ \A p \in DOMAIN book[k] :
                   Escrowed(book)[<<k, p>>] = book[k][p].amount
<1>1. DOMAIN Escrowed(book) \in SUBSET (BribeKeys \X Accounts)
  BY DEF Escrowed, IsBook
<1>2. IsFiniteSet(BribeKeys \X Accounts)
  BY KeysFinite, AccountsAssumption, FS_Product
<1>3. IsFiniteSet(DOMAIN Escrowed(book))
  BY <1>1, <1>2, FS_Subset
<1>4. \A kp \in DOMAIN Escrowed(book) : Escrowed(book)[kp] \in Nat
  BY DEF Escrowed, IsBook, Bribe
<1>5. Escrowed(book) \in [DOMAIN Escrowed(book) -> Nat]
  BY <1>4 DEF Escrowed
<1>6. \A k \in DOMAIN book :
        /\ {k} \X DOMAIN book[k] \subseteq DOMAIN Escrowed(book)
        /\ \A p \in DOMAIN book[k] :
             Escrowed(book)[<<k, p>>] = book[k][p].amount
  BY DEF Escrowed
<1> QED
  BY <1>3, <1>5, <1>6

\* The offers of one key have natural amounts and add up to their row in the
\* book.
LEMMA EscrowOfKey ==
  ASSUME NEW book, IsBook(book), NEW k \in DOMAIN book
  PROVE  /\ SumOf(Amounts(book[k])) \in Nat
         /\ SumOf(Restrict(Escrowed(book), {k} \X DOMAIN book[k]))
              = SumOf(Amounts(book[k]))
<1>1. /\ IsFiniteSet(DOMAIN Escrowed(book))
      /\ Escrowed(book) \in [DOMAIN Escrowed(book) -> Nat]
      /\ {k} \X DOMAIN book[k] \in SUBSET DOMAIN Escrowed(book)
      /\ \A p \in DOMAIN book[k] : Escrowed(book)[<<k, p>>] = book[k][p].amount
  BY EscrowedType
<1>2. /\ DOMAIN book[k] \in SUBSET Accounts
      /\ Amounts(book[k]) \in [DOMAIN book[k] -> Nat]
      /\ Row(Escrowed(book), k, DOMAIN book[k]) = Amounts(book[k])
  BY <1>1 DEF IsBook, Amounts, Bribe, Row
<1>3. SumOf(Restrict(Escrowed(book), {k} \X DOMAIN book[k]))
        = SumOf(Amounts(book[k]))
  BY <1>1, <1>2, SumOfRow
<1>4. IsFiniteSet(DOMAIN book[k])
  BY <1>2, AccountsAssumption, FS_Subset
<1>5. SumOf(Amounts(book[k])) \in Nat
  BY <1>2, <1>4, SumOfType
<1> QED
  BY <1>3, <1>5

\* The offers of a key that may be missing from the store.
LEMMA OffersOfKey ==
  ASSUME TypeOK, NEW k
  PROVE  /\ SumOf(Amounts(Offers(k))) \in Nat
         /\ {k} \X DOMAIN Offers(k) \in SUBSET DOMAIN Escrowed(bribes)
         /\ SumOf(Restrict(Escrowed(bribes), {k} \X DOMAIN Offers(k)))
              = SumOf(Amounts(Offers(k)))
<1>1. IsBook(bribes)
  BY DEF TypeOK, IsBook
<1>2. CASE k \in DOMAIN bribes
  <2>1. Offers(k) = bribes[k]
    BY <1>2 DEF Offers
  <2> QED
    BY <1>1, <1>2, <2>1, EscrowOfKey, EscrowedType
<1>3. CASE k \notin DOMAIN bribes
  <2>1. DOMAIN Offers(k) = {}
    BY <1>3 DEF Offers
  <2>2. /\ DOMAIN Amounts(Offers(k)) = {}
        /\ {k} \X DOMAIN Offers(k) = {}
        /\ DOMAIN Restrict(Escrowed(bribes), {k} \X DOMAIN Offers(k)) = {}
    BY <2>1 DEF Amounts, Restrict
  <2>3. /\ SumOf(Amounts(Offers(k))) = 0
        /\ SumOf(Restrict(Escrowed(bribes), {k} \X DOMAIN Offers(k))) = 0
    BY <2>2, SumOfZeros
  <2> QED
    BY <2>2, <2>3
<1> QED
  BY <1>2, <1>3

\* Writing offers under a key moves the escrow by what that key holds.
LEMMA EscrowOfStore ==
  ASSUME TypeOK, NEW k \in BribeKeys, NEW offers,
         DOMAIN offers \subseteq Accounts,
         offers \in [DOMAIN offers -> Bribe],
         bribes' = Store(bribes, k, offers)
  PROVE  /\ Escrow \in Nat
         /\ SumOf(Amounts(offers)) \in Nat
         /\ Escrow' = Escrow - SumOf(Amounts(Offers(k))) + SumOf(Amounts(offers))
<1> DEFINE old == Escrowed(bribes)
           new == Escrowed(bribes')
           oldRow == {k} \X DOMAIN Offers(k)
           newRow == {k} \X DOMAIN offers
<1>1. IsBook(bribes) /\ IsBook(bribes')
  BY StoreBribesType DEF TypeOK, IsBook
<1>2. /\ IsFiniteSet(DOMAIN old) /\ old \in [DOMAIN old -> Nat]
      /\ IsFiniteSet(DOMAIN new) /\ new \in [DOMAIN new -> Nat]
  BY <1>1, EscrowedType
<1>3. k \in DOMAIN bribes' /\ bribes'[k] = offers
  BY DEF Store
<1>4. /\ SumOf(Amounts(offers)) \in Nat
      /\ newRow \in SUBSET DOMAIN new
      /\ SumOf(Restrict(new, newRow)) = SumOf(Amounts(offers))
  BY <1>1, <1>3, EscrowOfKey, EscrowedType
<1>5. /\ SumOf(Amounts(Offers(k))) \in Nat
      /\ oldRow \in SUBSET DOMAIN old
      /\ SumOf(Restrict(old, oldRow)) = SumOf(Amounts(Offers(k)))
  BY OffersOfKey
<1>6. Restrict(old, DOMAIN old \ oldRow) = Restrict(new, DOMAIN new \ newRow)
  <2>1. \A kp \in DOMAIN old : kp = <<kp[1], kp[2]>>
    BY DEF Escrowed
  <2>2. \A kp \in DOMAIN new : kp = <<kp[1], kp[2]>>
    BY DEF Escrowed
  <2>3. \A key, p : <<key, p>> \in DOMAIN old \ oldRow
                      <=> key \in DOMAIN bribes /\ key # k /\ p \in DOMAIN bribes[key]
    BY DEF Escrowed, Offers
  <2>4. \A key, p : <<key, p>> \in DOMAIN new \ newRow
                      <=> key \in DOMAIN bribes' /\ key # k /\ p \in DOMAIN bribes'[key]
    BY <1>3 DEF Escrowed
  <2>5. \A key : /\ key # k => (key \in DOMAIN bribes' <=> key \in DOMAIN bribes)
                 /\ key # k /\ key \in DOMAIN bribes => bribes'[key] = bribes[key]
    BY DEF Store
  <2>6. DOMAIN old \ oldRow = DOMAIN new \ newRow
    <3> HIDE DEF old, new, oldRow, newRow
    <3>1. \A kp \in DOMAIN old \ oldRow : kp \in DOMAIN new \ newRow
      BY <2>1, <2>3, <2>4, <2>5
    <3>2. \A kp \in DOMAIN new \ newRow : kp \in DOMAIN old \ oldRow
      BY <2>2, <2>3, <2>4, <2>5
    <3> QED
      BY <3>1, <3>2
  <2>7. \A kp \in DOMAIN old \ oldRow : old[kp] = new[kp]
    <3> SUFFICES ASSUME NEW kp \in DOMAIN old \ oldRow PROVE old[kp] = new[kp]
      OBVIOUS
    <3>1. kp \in DOMAIN new /\ kp[1] \in DOMAIN bribes /\ kp[1] # k
      BY <2>1, <2>3, <2>6
    <3> QED
      BY <3>1, <2>5 DEF Escrowed
  <2> HIDE DEF old, new, oldRow, newRow
  <2> QED
    BY <2>6, <2>7 DEF Restrict
<1> HIDE DEF old, new, oldRow, newRow
<1>7. /\ SumOf(Restrict(old, DOMAIN old \ oldRow)) \in Nat
      /\ SumOf(old) = SumOf(Restrict(old, oldRow))
                        + SumOf(Restrict(old, DOMAIN old \ oldRow))
  BY <1>2, <1>5, SumSplit
<1>8. SumOf(new) = SumOf(Restrict(new, newRow))
                     + SumOf(Restrict(new, DOMAIN new \ newRow))
  BY <1>2, <1>4, SumSplit
<1>9. Escrow = SumOf(old) /\ Escrow' = SumOf(new)
  BY DEF Escrow, Escrowed, old, new
<1> QED
  BY <1>4, <1>5, <1>6, <1>7, <1>8, <1>9

-----------------------------------------------------------------------------
(***************************************************************************)
(* Conservation, action by action.                                         *)
(***************************************************************************)

\* The four parts of the supply are natural numbers.
LEMMA SupplyType ==
  ASSUME TypeOK
  PROVE  /\ SumOf(balance) \in Nat
         /\ SumOf(vault) \in Nat
         /\ SumOf(deposit) \in Nat
         /\ Escrow \in Nat
<1>1. IsFiniteSet(FeedIDs \X Accounts)
  BY KeysFinite, AccountsAssumption, FS_Product
<1>2. SumOf(vault) \in Nat /\ SumOf(deposit) \in Nat
  BY <1>1, KeysFinite, SumOfType DEF TypeOK
<1>3. SumOf(balance) \in Nat
  <2>1. DOMAIN balance \in SUBSET Accounts /\ balance \in [DOMAIN balance -> Nat]
    BY DEF TypeOK, IsLedger
  <2>2. IsFiniteSet(DOMAIN balance)
    BY <2>1, AccountsAssumption, FS_Subset
  <2> QED
    BY <2>1, <2>2, SumOfType
<1>4. Escrow \in Nat
  <2>1. IsBook(bribes)
    BY DEF TypeOK, IsBook
  <2>2. SumOf(Escrowed(bribes)) \in Nat
    BY <2>1, EscrowedType, SumOfType
  <2> QED
    BY <2>2 DEF Escrow, Escrowed
<1> QED
  BY <1>2, <1>3, <1>4

\* What an account pays leaves the sum of the balances.
LEMMA PaymentOfBalance ==
  ASSUME TypeOK, NEW a, NEW n \in Nat, CanSub(balance, a, n),
         balance' = SubBalance(balance, a, n)
  PROVE  /\ SumOf(balance') = SumOf(balance) - n
         /\ GetBalance(balance', a) = GetBalance(balance, a) - n
BY SumOfSubBalance, AccountsAssumption DEF TypeOK

\* What an account gets enters it.
LEMMA CreditOfBalance ==
  ASSUME TypeOK, NEW a \in Accounts, NEW n \in Nat,
         balance' = AddBalance(balance, a, n)
  PROVE  SumOf(balance') = SumOf(balance) + n
BY SumOfAddBalance, AccountsAssumption DEF TypeOK

\* A vault that is written moves the sum of the vaults.
LEMMA SumOfVaults ==
  ASSUME TypeOK, NEW f \in FeedIDs, NEW n \in Nat
  PROVE  SumOf([vault EXCEPT ![f] = n]) = SumOf(vault) - vault[f] + n
<1>1. vault \in [FeedIDs -> Nat]
  BY DEF TypeOK
<1>2. [vault EXCEPT ![f] = n] = Store(vault, f, n)
  BY <1>1 DEF Store
<1>3. SumOf(Store(vault, f, n)) = SumOf(vault) - vault[f] + n
  BY <1>1, KeysFinite, SumOfOverwrite
<1> QED
  BY <1>2, <1>3

\* A transfer moves tokens between balances, also to oneself.
LEMMA TransferConserves ==
  ASSUME TypeOK, NEW a \in Accounts, NEW to \in Accounts,
         NEW n \in TransferAmounts, Transfer(a, to, n)
  PROVE  Supply' = Supply
<1> DEFINE paid == SubBalance(balance, a, n)
<1>1. n \in Nat
  BY AmountsAssumption
<1>2. IsLedger(paid, Accounts) /\ SumOf(paid) = SumOf(balance) - n
  BY <1>1, SubBalanceType, SumOfSubBalance, AccountsAssumption
     DEF TypeOK, Transfer
<1>3. SumOf(AddBalance(paid, to, n)) = SumOf(paid) + n
  <2> HIDE DEF paid
  <2> QED
    BY <1>1, <1>2, SumOfAddBalance, AccountsAssumption
<1>4. SumOf(balance') = SumOf(balance)
  BY <1>1, <1>2, <1>3, SupplyType DEF Transfer
<1> QED
  BY <1>4 DEF Supply, Escrow, Transfer

\* The vault of a feed that is not registered yet holds nothing.
VaultsAwaitFeeds == \A f \in FeedIDs : f > highestFeedID => vault[f] = 0

\* A registration moves the first funds into an empty vault.
LEMMA RegisterFeedConserves ==
  ASSUME TypeOK, VaultsAwaitFeeds, NEW a \in Accounts, NEW f \in FeedIDs,
         NEW info \in FeedConfigs, NEW n \in VaultAmounts,
         RegisterFeed(a, f, info, n)
  PROVE  Supply' = Supply
<1>1. n \in Nat
  BY AmountsAssumption
<1>2. vault[f] = 0
  BY DEF RegisterFeed, VaultsAwaitFeeds, TypeOK, FeedIDs
<1>3. SumOf(balance') = SumOf(balance) - n
  BY <1>1, PaymentOfBalance DEF RegisterFeed
<1>4. SumOf(vault') = SumOf(vault) - vault[f] + n
  BY <1>1, SumOfVaults DEF RegisterFeed
<1>5. SumOf(balance') + SumOf(vault') = SumOf(balance) + SumOf(vault)
  BY <1>1, <1>2, <1>3, <1>4, SupplyType
<1> QED
  BY <1>5, SupplyType DEF Supply, Escrow, RegisterFeed

\* A vault that gets what an account pays.
LEMMA PaymentToVault ==
  ASSUME TypeOK, NEW a \in Accounts, NEW f \in FeedIDs, NEW n \in Nat,
         CanSub(balance, a, n),
         balance' = SubBalance(balance, a, n),
         vault' = [vault EXCEPT ![f] = @ + n],
         UNCHANGED <<deposit, bribes>>
  PROVE  Supply' = Supply
<1>1. SumOf(balance') = SumOf(balance) - n
  BY PaymentOfBalance
<1> DEFINE filled == vault[f] + n
<1>2. vault[f] \in Nat /\ filled \in Nat
  BY DEF TypeOK
<1>3. vault' = [vault EXCEPT ![f] = filled]
  OBVIOUS
<1>4. SumOf(vault') = SumOf(vault) - vault[f] + filled
  <2> HIDE DEF filled
  <2>1. SumOf([vault EXCEPT ![f] = filled]) = SumOf(vault) - vault[f] + filled
    BY <1>2, SumOfVaults
  <2> QED
    BY <1>3, <2>1
<1>5. SumOf(balance') + SumOf(vault') = SumOf(balance) + SumOf(vault)
  BY <1>1, <1>2, <1>4, SupplyType
<1> QED
  BY <1>5 DEF Supply, Escrow

\* Whoever funds a feed pays into its vault.
LEMMA FundFeedConserves ==
  ASSUME TypeOK, NEW a \in Accounts, NEW f \in FeedIDs,
         NEW n \in FundAmounts, FundFeed(a, f, n)
  PROVE  Supply' = Supply
<1>1. n \in Nat
  BY AmountsAssumption
<1> QED
  BY <1>1, PaymentToVault DEF FundFeed

\* An appeal is one of them: its fee goes into the vault.
LEMMA AppealFeedConserves ==
  ASSUME TypeOK, NEW a \in Appellants, NEW f \in FeedIDs, AppealFeed(a, f)
  PROVE  Supply' = Supply
<1>1. a \in Accounts
  BY AccountsAssumption
<1>2. feeds[f].appealFee \in Nat
  BY DEF AppealFeed, CanAppeal, TypeOK, FeedInfo
<1> QED
  BY <1>1, <1>2, PaymentToVault DEF AppealFeed, CanAppeal

\* What a step may do to the tokens.
Burns(f, a) ==
  /\ deposit[<<f, a>>] > 0
  /\ UNCHANGED <<vault, bribes, round>>
  /\ GetBalance(balance', a) + deposit'[<<f, a>>] = GetBalance(balance, a)
  /\ Supply' = Supply - deposit[<<f, a>>]

\* A deposit burns exactly the one it overwrites.
LEMMA DepositFeedBurns ==
  ASSUME TypeOK, NEW a \in Accounts, NEW f \in FeedIDs,
         NEW n \in DepositAmounts, DepositFeed(a, f, n)
  PROVE  Supply' = Supply \/ Burns(f, a)
<1>1. n \in Nat
  BY AmountsAssumption
<1>2. /\ SumOf(balance') = SumOf(balance) - n
      /\ GetBalance(balance', a) = GetBalance(balance, a) - n
  BY <1>1, PaymentOfBalance DEF DepositFeed
<1>3. <<f, a>> \in FeedIDs \X Accounts /\ deposit[<<f, a>>] \in Nat
  BY DEF TypeOK
<1>4. IsFiniteSet(FeedIDs \X Accounts)
  BY KeysFinite, AccountsAssumption, FS_Product
<1>5. deposit' = Store(deposit, <<f, a>>, n) /\ deposit'[<<f, a>>] = n
  BY <1>3 DEF DepositFeed, Store, TypeOK
<1>6. SumOf(deposit') = SumOf(deposit) - deposit[<<f, a>>] + n
  BY <1>1, <1>3, <1>4, <1>5, SumOfOverwrite DEF TypeOK
<1>7. UNCHANGED <<vault, bribes, round>>
  BY DEF DepositFeed
<1>8. SumOf(vault') = SumOf(vault) /\ Escrow' = Escrow
  BY <1>7 DEF Escrow
<1>9. Supply' = Supply - deposit[<<f, a>>]
  BY <1>1, <1>2, <1>3, <1>6, <1>8, SupplyType DEF Supply
<1>10. GetBalance(balance, a) \in Nat
  BY GetBalanceType DEF TypeOK
<1>11. Supply \in Nat
  BY SupplyType DEF Supply
<1>12. GetBalance(balance', a) + deposit'[<<f, a>>] = GetBalance(balance, a)
  BY <1>1, <1>2, <1>5, <1>10
<1> QED
  BY <1>3, <1>7, <1>9, <1>11, <1>12 DEF Burns

\* Amounts follow a part of the offers.
LEMMA AmountsOfPart ==
  ASSUME NEW offers, offers \in [DOMAIN offers -> Bribe],
         DOMAIN offers \subseteq Accounts, NEW S \in SUBSET DOMAIN offers
  PROVE  /\ SumOf(Amounts(Restrict(offers, S))) \in Nat
         /\ SumOf(Amounts(Restrict(offers, DOMAIN offers \ S))) \in Nat
         /\ SumOf(Amounts(offers))
              = SumOf(Amounts(Restrict(offers, S)))
                  + SumOf(Amounts(Restrict(offers, DOMAIN offers \ S)))
<1>1. Amounts(offers) \in [DOMAIN offers -> Nat]
  BY DEF Amounts, Bribe
<1>2. IsFiniteSet(DOMAIN offers)
  <2>1. DOMAIN offers \in SUBSET Accounts
    OBVIOUS
  <2> QED
    BY <2>1, AccountsAssumption, FS_Subset
<1>3. /\ Amounts(Restrict(offers, S)) = Restrict(Amounts(offers), S)
      /\ Amounts(Restrict(offers, DOMAIN offers \ S))
           = Restrict(Amounts(offers), DOMAIN offers \ S)
  BY DEF Amounts, Restrict
<1> QED
  BY <1>1, <1>2, <1>3, SumSplit

\* A report pays its reporter what leaves the escrow.
LEMMA ReportConserves ==
  ASSUME TypeOK, NEW a \in Accounts, NEW f \in FeedIDs, NEW r \in Rounds,
         NEW v \in Values, Report(a, f, r, v)
  PROVE  Supply' = Supply
<1> DEFINE k         == <<f, a, r>>
           offers    == Offers(k)
           fulfilled == {p \in DOMAIN offers : offers[p].value = v}
           paid      == Amounts(Restrict(offers, fulfilled))
           kept      == Restrict(offers, DOMAIN offers \ fulfilled)
<1>1. /\ balance' = IF fulfilled = {} THEN balance
                    ELSE AddBalance(balance, a, SumOf(paid))
      /\ bribes' = Store(bribes, k, kept)
      /\ UNCHANGED <<vault, deposit>>
  BY DEF Report, Payment
<1>2. k \in BribeKeys
  BY DEF BribeKeys
<1>3. /\ DOMAIN offers \subseteq Accounts
      /\ offers \in [DOMAIN offers -> Bribe]
      /\ fulfilled \in SUBSET DOMAIN offers
  BY OffersType
<1>4. DOMAIN kept \subseteq Accounts /\ kept \in [DOMAIN kept -> Bribe]
  BY <1>3 DEF Restrict
<1>5. fulfilled = {} => SumOf(paid) = 0
  <2> SUFFICES ASSUME fulfilled = {} PROVE SumOf(paid) = 0
    OBVIOUS
  <2>1. DOMAIN paid = {}
    BY DEF Amounts, Restrict
  <2> HIDE DEF paid
  <2> QED
    BY <2>1, SumOfZeros
<1> HIDE DEF k, fulfilled
<1>6. /\ SumOf(paid) \in Nat
      /\ SumOf(Amounts(kept)) \in Nat
      /\ SumOf(Amounts(offers)) = SumOf(paid) + SumOf(Amounts(kept))
  BY <1>3, AmountsOfPart
<1>7. Escrow' = Escrow - SumOf(Amounts(offers)) + SumOf(Amounts(kept))
  <2> HIDE DEF kept
  <2> QED
    BY <1>1, <1>2, <1>4, EscrowOfStore
<1>8. SumOf(balance') = SumOf(balance) + SumOf(paid)
  <2> HIDE DEF paid
  <2>1. CASE fulfilled = {}
    BY <1>1, <1>5, <2>1, SupplyType
  <2>2. CASE fulfilled # {}
    BY <1>1, <1>6, <2>2, CreditOfBalance
  <2> QED
    BY <2>1, <2>2
<1>9. SumOf(vault') = SumOf(vault) /\ SumOf(deposit') = SumOf(deposit)
  BY <1>1
<1> HIDE DEF offers, paid, kept
<1> QED
  BY <1>6, <1>7, <1>8, <1>9, SupplyType DEF Supply

\* Whoever offers a bribe pays it into the escrow.
LEMMA BribeInsertConserves ==
  ASSUME TypeOK, NEW a \in Accounts, NEW p \in Accounts,
         NEW k \in BribableKeys, NEW info \in BribeInfos,
         BribeInsert(a, k, p, info)
  PROVE  Supply' = Supply
<1> DEFINE offers == Offers(k)
           more   == Store(offers, p, info)
<1>1. k \in BribeKeys
  BY AccountsAssumption DEF BribableKeys, BribeKeys
<1>2. info \in Bribe /\ info.amount \in Nat
  BY AmountsAssumption DEF BribeInfos, Bribe
<1>3. /\ DOMAIN offers \in SUBSET Accounts
      /\ offers \in [DOMAIN offers -> Bribe]
      /\ p \notin DOMAIN offers
  BY OffersType DEF BribeInsert, CanOffer
<1>4. DOMAIN more \subseteq Accounts /\ more \in [DOMAIN more -> Bribe]
  BY <1>2, <1>3 DEF Store
<1>5. bribes' = Store(bribes, k, more) /\ UNCHANGED <<vault, deposit>>
  BY DEF BribeInsert
<1>6. Escrow' = Escrow - SumOf(Amounts(offers)) + SumOf(Amounts(more))
  <2> HIDE DEF more
  <2> QED
    BY <1>1, <1>4, <1>5, EscrowOfStore
<1>7. /\ SumOf(Amounts(offers)) \in Nat
      /\ SumOf(Amounts(more)) = SumOf(Amounts(offers)) + info.amount
  <2>1. Amounts(more) = Store(Amounts(offers), p, info.amount)
    BY DEF Amounts, Store
  <2>2. /\ Amounts(offers) \in [DOMAIN offers -> Nat]
        /\ GetBalance(Amounts(offers), p) = 0
    BY <1>3 DEF Amounts, GetBalance, Bribe
  <2>3. IsFiniteSet(DOMAIN offers)
    BY <1>3, AccountsAssumption, FS_Subset
  <2>4. SumOf(Amounts(offers)) \in Nat
    BY OffersOfKey
  <2> HIDE DEF offers, more
  <2>5. SumOf(Store(Amounts(offers), p, info.amount))
          = SumOf(Amounts(offers)) - GetBalance(Amounts(offers), p) + info.amount
    BY <1>2, <2>2, <2>3, SumOfStore
  <2> QED
    BY <1>2, <2>1, <2>2, <2>4, <2>5
<1>8. SumOf(balance') = SumOf(balance) - info.amount
  BY <1>2, PaymentOfBalance DEF BribeInsert
<1>9. SumOf(vault') = SumOf(vault) /\ SumOf(deposit') = SumOf(deposit)
  BY <1>5
<1> HIDE DEF offers, more
<1> QED
  BY <1>2, <1>6, <1>7, <1>8, <1>9, SupplyType DEF Supply

\* Whoever withdraws one gets it back from there.
LEMMA BribeDeleteConserves ==
  ASSUME TypeOK, NEW a \in Accounts, NEW k \in BribableKeys,
         BribeDelete(a, k)
  PROVE  Supply' = Supply
<1> DEFINE offers == bribes[k]
           others == Restrict(offers, DOMAIN offers \ {a})
<1>1. /\ k \in DOMAIN bribes /\ k \in BribeKeys
      /\ a \in DOMAIN offers
      /\ UNCHANGED <<vault, deposit>>
  BY DEF BribeDelete, TypeOK
<1>2. /\ DOMAIN offers \in SUBSET Accounts
      /\ offers \in [DOMAIN offers -> Bribe]
      /\ offers[a].amount \in Nat
  BY <1>1 DEF TypeOK, Bribe
<1>3. DOMAIN others \subseteq Accounts /\ others \in [DOMAIN others -> Bribe]
  BY <1>2 DEF Restrict
<1>4. bribes' = Store(bribes, k, others)
  BY <1>1 DEF BribeDelete, Store
<1>5. Offers(k) = offers
  BY <1>1 DEF Offers
<1>6. Escrow' = Escrow - SumOf(Amounts(offers)) + SumOf(Amounts(others))
  <2> HIDE DEF offers, others
  <2> QED
    BY <1>1, <1>3, <1>4, <1>5, EscrowOfStore
<1>7. /\ SumOf(Amounts(offers)) \in Nat
      /\ SumOf(Amounts(others)) = SumOf(Amounts(offers)) - offers[a].amount
  <2>1. /\ Amounts(others) = Restrict(Amounts(offers), DOMAIN offers \ {a})
        /\ Amounts(offers) \in [DOMAIN offers -> Nat]
        /\ Amounts(offers)[a] = offers[a].amount
    BY <1>1, <1>2 DEF Amounts, Restrict, Bribe
  <2>2. IsFiniteSet(DOMAIN offers)
    BY <1>2, AccountsAssumption, FS_Subset
  <2>3. SumOf(Amounts(offers)) \in Nat
    BY <1>5, OffersOfKey
  <2> HIDE DEF offers, others
  <2>4. SumOf(Restrict(Amounts(offers), DOMAIN offers \ {a}))
          = SumOf(Amounts(offers)) - Amounts(offers)[a]
    BY <1>1, <2>1, <2>2, SumOfRemove
  <2> QED
    BY <2>1, <2>3, <2>4
<1>8. SumOf(balance') = SumOf(balance) + offers[a].amount
  BY <1>2, CreditOfBalance DEF BribeDelete
<1>9. SumOf(vault') = SumOf(vault) /\ SumOf(deposit') = SumOf(deposit)
  BY <1>1
<1> HIDE DEF offers, others
<1> QED
  BY <1>2, <1>6, <1>7, <1>8, <1>9, SupplyType DEF Supply

\* The shares of a seal add up: one for each benign reporter, and one more.
LEMMA SumOfPayShares ==
  ASSUME NEW ledger, IsLedger(ledger, Accounts), NEW actor \in Accounts,
         NEW benign \in SUBSET Accounts, NEW share \in Nat
  PROVE  SumOf(PayShares(ledger, actor, benign, share))
           = SumOf(ledger) + (Cardinality(benign) + 1) * share
<1> DEFINE Paid  == DOMAIN ledger \cup benign \cup {actor}
           start == [x \in Paid |-> GetBalance(ledger, x)]
           sealer == {actor}
           once  == Raised(start, sealer, share)
           twice == Raised(once, benign, share)
<1>1. IsFiniteSet(Paid) /\ IsFiniteSet(DOMAIN ledger)
  <2>1. Paid \in SUBSET Accounts /\ DOMAIN ledger \in SUBSET Accounts
    BY DEF IsLedger
  <2> QED
    BY <2>1, AccountsAssumption, FS_Subset
<1>2. start \in [Paid -> Nat]
  BY GetBalanceType
<1>3. SumOf(start) = SumOf(ledger) /\ SumOf(ledger) \in Nat
  <2>1. Coins(start) = Coins(ledger)
    <3>1. /\ \A h, i : <<h, i>> \in Coins(ledger)
                         <=> h \in DOMAIN ledger /\ i \in 1 .. ledger[h]
          /\ \A c \in Coins(ledger) : c = <<c[1], c[2]>>
      BY CoinsAre
    <3>2. /\ \A h, i : <<h, i>> \in Coins(start)
                         <=> h \in Paid /\ i \in 1 .. start[h]
          /\ \A c \in Coins(start) : c = <<c[1], c[2]>>
      <4> HIDE DEF start
      <4> QED
        BY <1>2, CoinsAre
    <3>3. /\ \A h \in DOMAIN ledger : h \in Paid /\ start[h] = ledger[h]
          /\ \A h \in Paid \ DOMAIN ledger : start[h] = 0
      BY DEF GetBalance
    <3>4. \A h, i : <<h, i>> \in Coins(start) <=> <<h, i>> \in Coins(ledger)
      <4> SUFFICES ASSUME NEW h, NEW i
                   PROVE  <<h, i>> \in Coins(start) <=> <<h, i>> \in Coins(ledger)
        OBVIOUS
      <4> HIDE DEF start, Paid
      <4>1. CASE h \in DOMAIN ledger
        BY <3>1, <3>2, <3>3, <4>1
      <4>2. CASE h \in Paid \ DOMAIN ledger
        BY <3>1, <3>2, <3>3, <4>2
      <4>3. CASE h \notin Paid
        BY <3>1, <3>2, <3>3, <4>3
      <4> QED
        BY <4>1, <4>2, <4>3
    <3> HIDE DEF start
    <3> QED
      BY <3>1, <3>2, <3>4
  <2>2. ledger \in [DOMAIN ledger -> Nat]
    BY DEF IsLedger
  <2> QED
    BY <1>1, <2>1, <2>2, SumOfType DEF SumOf
<1>4. sealer \in SUBSET Paid /\ benign \in SUBSET Paid
  OBVIOUS
<1>5. Cardinality(sealer) = 1
  BY FS_Singleton
<1>6. PayShares(ledger, actor, benign, share) = twice
  BY DEF PayShares, Raised
<1> HIDE DEF Paid, start, sealer, once, twice
<1>7. once \in [Paid -> Nat] /\ SumOf(once) = SumOf(start) + share
  <2>1. once \in [Paid -> Nat]
    BY <1>2 DEF once, Raised
  <2>2. SumOf(once) = SumOf(start) + Cardinality(sealer) * share
    BY <1>1, <1>2, <1>4, SumOfRaised DEF once
  <2>3. Cardinality(sealer) * share = share
    BY <1>5
  <2> QED
    BY <2>1, <2>2, <2>3
<1>8. SumOf(twice) = SumOf(once) + Cardinality(benign) * share
  BY <1>1, <1>4, <1>7, SumOfRaised DEF twice
<1>9. Cardinality(benign) \in Nat
  BY AccountsAssumption, FS_Subset, FS_CardinalityType
<1>10. (Cardinality(benign) + 1) * share = Cardinality(benign) * share + share
  BY <1>9
<1>11. Cardinality(benign) * share \in Nat
  BY <1>9
<1> QED
  BY <1>3, <1>6, <1>7, <1>8, <1>10, <1>11

\* The deposits a seal takes leave the sum of the deposits.
LEMMA SumOfTaken ==
  ASSUME TypeOK, NEW f \in FeedIDs, NEW malicious \in SUBSET Accounts,
         deposit' = [fx \in DOMAIN deposit |->
                       IF fx[1] = f /\ fx[2] \in malicious
                       THEN 0 ELSE deposit[fx]]
  PROVE  /\ SumOf([x \in malicious |-> deposit[<<f, x>>]]) \in Nat
         /\ SumOf(deposit') = SumOf(deposit)
              - SumOf([x \in malicious |-> deposit[<<f, x>>]])
<1> DEFINE Pairs  == FeedIDs \X Accounts
           taken == {f} \X malicious
<1>1. IsFiniteSet(Pairs)
  BY KeysFinite, AccountsAssumption, FS_Product
<1>2. deposit \in [Pairs -> Nat] /\ deposit' \in [Pairs -> Nat]
  BY DEF TypeOK
<1>3. taken \in SUBSET Pairs
  OBVIOUS
<1>4. \A fx \in taken : deposit'[fx] = 0
  BY <1>2
<1>5. \A fx \in Pairs \ taken : deposit'[fx] = deposit[fx]
  BY <1>2
<1>6. Row(deposit, f, malicious) = [x \in malicious |-> deposit[<<f, x>>]]
  BY DEF Row
<1> HIDE DEF Pairs
<1>7. SumOf(Restrict(deposit, taken)) = SumOf(Row(deposit, f, malicious))
  BY <1>1, <1>2, <1>3, SumOfRow
<1> HIDE DEF taken
<1>8. SumOf(Restrict(deposit', taken)) = 0
  <2>1. /\ DOMAIN Restrict(deposit', taken) = taken
        /\ \A fx \in taken : Restrict(deposit', taken)[fx] = 0
    BY <1>4 DEF Restrict
  <2> QED
    BY <2>1, SumOfZeros
<1>9. Restrict(deposit', Pairs \ taken) = Restrict(deposit, Pairs \ taken)
  BY <1>5 DEF Restrict
<1>10. /\ SumOf(Restrict(deposit, taken)) \in Nat
       /\ SumOf(Restrict(deposit, Pairs \ taken)) \in Nat
       /\ SumOf(deposit) = SumOf(Restrict(deposit, taken))
                             + SumOf(Restrict(deposit, Pairs \ taken))
  BY <1>1, <1>2, <1>3, SumSplit
<1>11. SumOf(deposit') = SumOf(Restrict(deposit', taken))
                           + SumOf(Restrict(deposit', Pairs \ taken))
  BY <1>1, <1>2, <1>3, SumSplit
<1> QED
  BY <1>6, <1>7, <1>8, <1>9, <1>10, <1>11

\* A seal pays the reward and what it collects, in equal shares, and puts the
\* rest back.
LEMMA SealConserves ==
  ASSUME TypeOK, NEW a \in Accounts, NEW f \in FeedIDs, NEW r \in Rounds,
         Seal(a, f, r)
  PROVE  Supply' = Supply
<1> DEFINE ballot == reports[<<f, r>>]
           reward == feeds[f].rewardPerRound
           benign(m) == Supporters(ballot, m)
           malicious(m) == DOMAIN ballot \ benign(m)
           collected(m) == SumOf([x \in malicious(m) |-> deposit[<<f, x>>]])
           total(m) == reward + collected(m)
           shares(m) == Cardinality(benign(m)) + 1
           share(m) == total(m) \div shares(m)
           left(m) == total(m) - share(m) * shares(m)
<1>1. PICK m \in Values :
        /\ vault' = [vault EXCEPT ![f] = @ - reward + left(m)]
        /\ deposit' = [fx \in DOMAIN deposit |->
                         IF fx[1] = f /\ fx[2] \in malicious(m)
                         THEN 0 ELSE deposit[fx]]
        /\ balance' = PayShares(balance, a, benign(m), share(m))
  BY DEF Seal
<1>2. reward \in Nat /\ vault[f] \in Nat /\ vault[f] - reward \in Nat
  BY DEF Seal, Admitted, CanPayReward, TypeOK, FeedInfo
<1>3. /\ benign(m) \in SUBSET Accounts
      /\ malicious(m) \in SUBSET Accounts
      /\ shares(m) \in Nat \ {0}
  <2>1. DOMAIN ballot \in SUBSET Accounts
    BY DEF TypeOK
  <2>2. benign(m) \in SUBSET Accounts
    BY <2>1 DEF Supporters
  <2>3. Cardinality(benign(m)) \in Nat
    BY <2>2, AccountsAssumption, FS_Subset, FS_CardinalityType
  <2> QED
    BY <2>1, <2>2, <2>3
<1>4. /\ collected(m) \in Nat
      /\ SumOf(deposit') = SumOf(deposit) - collected(m)
  <2> HIDE DEF malicious
  <2> QED
    BY <1>1, <1>3, SumOfTaken
<1>5. share(m) \in Nat /\ left(m) \in Nat
  <2>1. total(m) \in Nat
    BY <1>2, <1>4
  <2> HIDE DEF total, shares
  <2> QED
    BY <1>3, <2>1, SharesBound
<1>6. SumOf(balance') = SumOf(balance) + shares(m) * share(m)
  <2> HIDE DEF benign, share
  <2> QED
    BY <1>1, <1>3, <1>5, SumOfPayShares DEF TypeOK
<1>7. SumOf(vault') = SumOf(vault) - reward + left(m)
  <2> DEFINE filled == vault[f] - reward + left(m)
  <2>1. vault' = [vault EXCEPT ![f] = filled]
    BY <1>1
  <2>2. filled \in Nat
    <3> HIDE DEF left, reward
    <3> QED
      BY <1>2, <1>5
  <2>3. SumOf([vault EXCEPT ![f] = filled]) = SumOf(vault) - vault[f] + filled
    <3> HIDE DEF filled
    <3> QED
      BY <2>2, SumOfVaults
  <2>4. SumOf(vault') = SumOf(vault) - vault[f] + filled
    <3> HIDE DEF filled
    <3> QED
      BY <2>1, <2>3
  <2> HIDE DEF left, reward
  <2> QED
    BY <1>2, <1>5, <2>4, SupplyType
<1>8. Escrow' = Escrow
  BY DEF Seal, Escrow
<1>9. /\ total(m) = reward + collected(m)
      /\ share(m) * shares(m) + left(m) = total(m)
  <2>1. share(m) * shares(m) \in Nat /\ total(m) \in Nat
    <3> HIDE DEF share, shares
    <3> QED
      BY <1>2, <1>3, <1>4, <1>5
  <2> HIDE DEF share, shares, total
  <2>2. share(m) * shares(m) + left(m) = total(m)
    BY <2>1
  <2> QED
    BY <2>2 DEF total
<1>10. shares(m) * share(m) = share(m) * shares(m) /\ share(m) * shares(m) \in Nat
  <2> HIDE DEF share, shares
  <2> QED
    BY <1>3, <1>5
<1> HIDE DEF reward, collected, total, shares, share, left
<1> QED
  BY <1>2, <1>4, <1>5, <1>6, <1>7, <1>8, <1>9, <1>10, SupplyType DEF Supply

-----------------------------------------------------------------------------
(***************************************************************************)
(* The inductive invariant, and the theorems.                              *)
(***************************************************************************)

\* The actions that leave the vaults and the highest ID alone.
LEMMA OthersKeepVaults ==
  ASSUME [Next]_vars
  PROVE  \/ UNCHANGED <<highestFeedID, vault>>
         \/ \E a \in Accounts, f \in FeedIDs, info \in FeedConfigs,
               n \in VaultAmounts : RegisterFeed(a, f, info, n)
         \/ \E a \in Accounts, f \in FeedIDs, n \in FundAmounts :
               FundFeed(a, f, n)
         \/ \E a \in Accounts, f \in FeedIDs, r \in Rounds : Seal(a, f, r)
         \/ \E a \in Appellants, f \in FeedIDs : AppealFeed(a, f)
<1>1. ASSUME NEW a \in Accounts, NEW to \in Accounts,
             NEW n \in TransferAmounts, Transfer(a, to, n)
      PROVE  UNCHANGED <<highestFeedID, vault>>
  BY <1>1 DEF Transfer
<1>2. ASSUME NEW a \in Accounts, NEW f \in FeedIDs, NEW n \in DepositAmounts,
             DepositFeed(a, f, n)
      PROVE  UNCHANGED <<highestFeedID, vault>>
  BY <1>2 DEF DepositFeed
<1>3. ASSUME NEW a \in Accounts, NEW f \in FeedIDs, NEW r \in Rounds,
             NEW v \in Values, Report(a, f, r, v)
      PROVE  UNCHANGED <<highestFeedID, vault>>
  BY <1>3 DEF Report
<1>4. ASSUME NEW a \in Accounts, NEW p \in Accounts, NEW k \in BribableKeys,
             NEW info \in BribeInfos, BribeInsert(a, k, p, info)
      PROVE  UNCHANGED <<highestFeedID, vault>>
  BY <1>4 DEF BribeInsert
<1>5. ASSUME NEW a \in Accounts, NEW k \in BribableKeys, BribeDelete(a, k)
      PROVE  UNCHANGED <<highestFeedID, vault>>
  BY <1>5 DEF BribeDelete
<1>6. CASE Panic \/ Tick \/ Restart \/ UNCHANGED vars
  BY <1>6 DEF Panic, Tick, Restart, vars
<1> QED
  BY <1>1, <1>2, <1>3, <1>4, <1>5, <1>6 DEF Next, Execute

\* Vaults are filled under the IDs of registered feeds only, and of feed 0.
LEMMA NextVaultsAwaitFeeds ==
  ASSUME TypeOK, VaultsAwaitFeeds, [Next]_vars
  PROVE  VaultsAwaitFeeds'
<1> SUFFICES ASSUME NEW g \in FeedIDs, g > highestFeedID'
             PROVE  vault'[g] = 0
  BY DEF VaultsAwaitFeeds
<1>1. highestFeedID \in Nat /\ vault \in [FeedIDs -> Nat] /\ g \in Nat
  BY DEF TypeOK, FeedIDs
<1>2. g > highestFeedID => vault[g] = 0
  BY DEF VaultsAwaitFeeds
<1>3. CASE UNCHANGED <<highestFeedID, vault>>
  BY <1>2, <1>3
<1>4. ASSUME NEW a \in Accounts, NEW f \in FeedIDs, NEW info \in FeedConfigs,
             NEW n \in VaultAmounts, RegisterFeed(a, f, info, n)
      PROVE  vault'[g] = 0
  BY <1>1, <1>2, <1>4 DEF RegisterFeed
<1>5. ASSUME NEW a \in Accounts, NEW f \in FeedIDs, NEW n \in FundAmounts,
             FundFeed(a, f, n)
      PROVE  vault'[g] = 0
  <2>1. f \in Nat /\ f <= highestFeedID /\ highestFeedID' = highestFeedID
    BY <1>5 DEF FundFeed, FeedIDs
  <2> QED
    BY <1>1, <1>2, <1>5, <2>1 DEF FundFeed
<1>6. ASSUME NEW a \in Accounts, NEW f \in FeedIDs, NEW r \in Rounds,
             Seal(a, f, r)
      PROVE  vault'[g] = 0
  <2>1. f = 0 /\ highestFeedID' = highestFeedID
    BY <1>6 DEF Seal, CanAggregateToSeal, BinaryAggregatorProgramID
  <2>2. g # f
    BY <1>1, <2>1
  <2>3. vault'[g] = vault[g]
    BY <1>1, <1>6, <2>2 DEF Seal
  <2> QED
    BY <1>2, <2>1, <2>3
<1>7. ASSUME NEW a \in Appellants, NEW f \in FeedIDs, AppealFeed(a, f)
      PROVE  vault'[g] = 0
  <2>1. f \in Nat /\ f <= highestFeedID /\ highestFeedID' = highestFeedID
    BY <1>7 DEF AppealFeed, CanAppeal, FeedIDs
  <2> QED
    BY <1>1, <1>2, <1>7, <2>1 DEF AppealFeed
<1> QED
  BY <1>3, <1>4, <1>5, <1>6, <1>7, OthersKeepVaults

\* What the proofs about tokens need of a state: no more tokens than at the
\* start, and nothing in the vaults of feeds to come.
EconomyInv ==
  /\ TypeOK
  /\ VaultsAwaitFeeds
  /\ Supply <= SumOf(Genesis)

\* At the start all the tokens are in balances.
LEMMA InitEconomyInv == Init => EconomyInv
<1> SUFFICES ASSUME Init PROVE EconomyInv
  OBVIOUS
<1>1. TypeOK
  BY InitTypeOK
<1>2. VaultsAwaitFeeds
  BY DEF VaultsAwaitFeeds, Init
<1>3. SumOf(vault) = 0 /\ SumOf(deposit) = 0
  <2>1. /\ DOMAIN vault = FeedIDs
        /\ \A f \in FeedIDs : vault[f] = 0
        /\ DOMAIN deposit = FeedIDs \X Accounts
        /\ \A fa \in FeedIDs \X Accounts : deposit[fa] = 0
    BY DEF Init
  <2> QED
    BY <2>1, SumOfZeros
<1>4. Escrow = 0
  <2>1. DOMAIN Escrowed(bribes) = {}
    BY DEF Init, Escrowed
  <2>2. SumOf(Escrowed(bribes)) = 0
    BY <2>1, SumOfZeros
  <2> QED
    BY <2>2 DEF Escrow, Escrowed
<1>5. Supply = SumOf(Genesis)
  <2>1. balance = Genesis
    BY DEF Init
  <2> QED
    BY <1>1, <1>3, <1>4, <2>1, SupplyType DEF Supply
<1>6. Supply \in Nat
  BY <1>1, SupplyType DEF Supply
<1> QED
  BY <1>1, <1>2, <1>5, <1>6 DEF EconomyInv

\* Every step conserves the tokens, or burns an overwritten deposit.
LEMMA StepConservesOrBurns ==
  ASSUME TypeOK, VaultsAwaitFeeds, [Next]_vars
  PROVE  Supply' = Supply \/ \E f \in FeedIDs, a \in Accounts : Burns(f, a)
<1>1. CASE Execute
  <2>1. ASSUME NEW a \in Accounts, NEW to \in Accounts,
               NEW n \in TransferAmounts, Transfer(a, to, n)
        PROVE  Supply' = Supply
    BY <2>1, TransferConserves
  <2>2. ASSUME NEW a \in Accounts, NEW f \in FeedIDs, NEW info \in FeedConfigs,
               NEW n \in VaultAmounts, RegisterFeed(a, f, info, n)
        PROVE  Supply' = Supply
    BY <2>2, RegisterFeedConserves
  <2>3. ASSUME NEW a \in Accounts, NEW f \in FeedIDs, NEW n \in FundAmounts,
               FundFeed(a, f, n)
        PROVE  Supply' = Supply
    BY <2>3, FundFeedConserves
  <2>4. ASSUME NEW a \in Accounts, NEW f \in FeedIDs, NEW n \in DepositAmounts,
               DepositFeed(a, f, n)
        PROVE  Supply' = Supply \/ Burns(f, a)
    BY <2>4, DepositFeedBurns
  <2>5. ASSUME NEW a \in Accounts, NEW f \in FeedIDs, NEW r \in Rounds,
               Seal(a, f, r)
        PROVE  Supply' = Supply
    BY <2>5, SealConserves
  <2>6. ASSUME NEW a \in Accounts, NEW f \in FeedIDs, NEW r \in Rounds,
               NEW v \in Values, Report(a, f, r, v)
        PROVE  Supply' = Supply
    BY <2>6, ReportConserves
  <2>7. ASSUME NEW a \in Appellants, NEW f \in FeedIDs, AppealFeed(a, f)
        PROVE  Supply' = Supply
    BY <2>7, AppealFeedConserves
  <2>8. ASSUME NEW a \in Accounts, NEW p \in Accounts, NEW k \in BribableKeys,
               NEW info \in BribeInfos, BribeInsert(a, k, p, info)
        PROVE  Supply' = Supply
    BY <2>8, BribeInsertConserves
  <2>9. ASSUME NEW a \in Accounts, NEW k \in BribableKeys, BribeDelete(a, k)
        PROVE  Supply' = Supply
    BY <2>9, BribeDeleteConserves
  <2> QED
    BY <1>1, <2>1, <2>2, <2>3, <2>4, <2>5, <2>6, <2>7, <2>8, <2>9 DEF Execute
<1>2. CASE Panic \/ Tick \/ Restart \/ UNCHANGED vars
  <2>1. UNCHANGED <<balance, vault, deposit, bribes>>
    BY <1>2 DEF Panic, Tick, Restart, vars
  <2> QED
    BY <2>1 DEF Supply, Escrow
<1> QED
  BY <1>1, <1>2 DEF Next

\* The tokens of the genesis are a number of tokens.
LEMMA GenesisType == SumOf(Genesis) \in Nat
<1>1. DOMAIN Genesis \in SUBSET Accounts /\ Genesis \in [DOMAIN Genesis -> Nat]
  BY AccountsAssumption DEF IsLedger
<1>2. IsFiniteSet(DOMAIN Genesis)
  BY <1>1, AccountsAssumption, FS_Subset
<1> QED
  BY <1>1, <1>2, SumOfType

\* The induction step.
LEMMA NextEconomyInv == EconomyInv /\ [Next]_vars => EconomyInv'
<1> SUFFICES ASSUME EconomyInv, [Next]_vars PROVE EconomyInv'
  OBVIOUS
<1>1. TypeOK /\ VaultsAwaitFeeds /\ Supply <= SumOf(Genesis)
  BY DEF EconomyInv
<1>2. TypeOK'
  BY <1>1, NextTypeOK
<1>3. VaultsAwaitFeeds'
  BY <1>1, NextVaultsAwaitFeeds
<1>4. SumOf(Genesis) \in Nat
  BY GenesisType
<1>5. Supply \in Nat /\ \A fa \in FeedIDs \X Accounts : deposit[fa] \in Nat
  BY <1>1, SupplyType DEF Supply, TypeOK
<1>6. Supply' <= SumOf(Genesis)
  <2>1. CASE Supply' = Supply
    BY <1>1, <2>1
  <2>2. ASSUME NEW f \in FeedIDs, NEW a \in Accounts, Burns(f, a)
        PROVE  Supply' <= SumOf(Genesis)
    <3>1. Supply' = Supply - deposit[<<f, a>>] /\ deposit[<<f, a>>] \in Nat
      BY <1>5, <2>2 DEF Burns
    <3> QED
      BY <1>1, <1>4, <1>5, <3>1
  <2> QED
    BY <1>1, <2>1, <2>2, StepConservesOrBurns
<1> QED
  BY <1>2, <1>3, <1>6 DEF EconomyInv

\* The invariant of the tokens, for all amounts and configurations: there
\* are never more tokens in balances, vaults, deposits and bribes than at
\* the start.
THEOREM EconomyInvariant == Spec => []EconomyInv
BY InitEconomyInv, NextEconomyInv, PTL DEF Spec

\* No handler makes tokens, for any amounts, rewards and divisions, and only
\* a second deposit burns some, exactly the one it overwrites.
THEOREM TokensConserved == Spec => OnlyRedepositsBurn
<1>1. EconomyInv /\ [Next]_vars
        => [\/ Supply' = Supply
            \/ \E f \in FeedIDs, a \in Accounts : Burns(f, a)]_vars
  <2> SUFFICES ASSUME EconomyInv, [Next]_vars
               PROVE  \/ Supply' = Supply
                      \/ \E f \in FeedIDs, a \in Accounts : Burns(f, a)
    OBVIOUS
  <2>1. TypeOK /\ VaultsAwaitFeeds
    BY DEF EconomyInv
  <2> QED
    BY <2>1, StepConservesOrBurns
<1> QED
  BY <1>1, EconomyInvariant, PTL DEF Spec, OnlyRedepositsBurn, Burns

\* What is in one vault, together with a balance or with the deposits of its
\* feed, is part of the supply.
LEMMA PartsOfSupply ==
  ASSUME TypeOK, NEW f \in FeedIDs
  PROVE  /\ \A a \in Accounts : vault[f] + GetBalance(balance, a) <= Supply
         /\ SumOf(Row(deposit, f, Accounts)) \in Nat
         /\ vault[f] + SumOf(Row(deposit, f, Accounts)) <= Supply
<1>1. /\ SumOf(balance) \in Nat /\ SumOf(vault) \in Nat
      /\ SumOf(deposit) \in Nat /\ Escrow \in Nat
  BY SupplyType
<1>2. vault[f] \in Nat /\ vault[f] <= SumOf(vault)
  BY KeysFinite, SumBoundsEach DEF TypeOK
<1>3. \A a \in Accounts : /\ GetBalance(balance, a) \in Nat
                          /\ GetBalance(balance, a) <= SumOf(balance)
  <2> SUFFICES ASSUME NEW a \in Accounts
               PROVE  /\ GetBalance(balance, a) \in Nat
                      /\ GetBalance(balance, a) <= SumOf(balance)
    OBVIOUS
  <2>1. DOMAIN balance \in SUBSET Accounts /\ balance \in [DOMAIN balance -> Nat]
    BY DEF TypeOK, IsLedger
  <2>2. IsFiniteSet(DOMAIN balance)
    BY <2>1, AccountsAssumption, FS_Subset
  <2>3. CASE a \in DOMAIN balance
    BY <2>1, <2>2, <2>3, SumBoundsEach DEF GetBalance
  <2>4. CASE a \notin DOMAIN balance
    BY <1>1, <2>4 DEF GetBalance
  <2> QED
    BY <2>3, <2>4
<1>4. /\ SumOf(Row(deposit, f, Accounts)) \in Nat
      /\ SumOf(Row(deposit, f, Accounts)) <= SumOf(deposit)
  <2> DEFINE row == {f} \X Accounts
             Pairs == FeedIDs \X Accounts
  <2>1. IsFiniteSet(Pairs) /\ row \in SUBSET Pairs
    BY KeysFinite, AccountsAssumption, FS_Product
  <2>2. deposit \in [Pairs -> Nat]
    BY DEF TypeOK
  <2> HIDE DEF Pairs
  <2>3. SumOf(Restrict(deposit, row)) = SumOf(Row(deposit, f, Accounts))
    BY <2>1, <2>2, SumOfRow
  <2> HIDE DEF row
  <2>4. /\ SumOf(Restrict(deposit, row)) \in Nat
        /\ SumOf(Restrict(deposit, Pairs \ row)) \in Nat
        /\ SumOf(deposit) = SumOf(Restrict(deposit, row))
                              + SumOf(Restrict(deposit, Pairs \ row))
    BY <2>1, <2>2, SumSplit
  <2> QED
    BY <2>3, <2>4
<1>5. vault[f] + SumOf(Row(deposit, f, Accounts)) <= Supply
  BY <1>1, <1>2, <1>4 DEF Supply
<1>6. \A a \in Accounts : vault[f] + GetBalance(balance, a) <= Supply
  BY <1>1, <1>2, <1>3 DEF Supply
<1> QED
  BY <1>4, <1>5, <1>6

\* The unchecked additions yield no more than the tokens of the genesis, for
\* all amounts: a model whose amounts do not wrap is right about a code whose
\* amounts are uint64.
THEOREM SumsFit == Spec => []UncheckedSumsFit
<1>1. EconomyInv => UncheckedSumsFit
  <2> SUFFICES ASSUME EconomyInv, NEW f \in FeedIDs
               PROVE  /\ \A a \in Accounts :
                           vault[f] + GetBalance(balance, a) <= SumOf(Genesis)
                      /\ vault[f] + SumOf([a \in Accounts |-> deposit[<<f, a>>]])
                           <= SumOf(Genesis)
    BY DEF UncheckedSumsFit
  <2>1. TypeOK /\ Supply <= SumOf(Genesis)
    BY DEF EconomyInv
  <2>2. Supply \in Nat /\ SumOf(Genesis) \in Nat /\ vault[f] \in Nat
    BY <2>1, SupplyType, GenesisType DEF Supply, TypeOK
  <2>3. \A a \in Accounts :
          vault[f] + GetBalance(balance, a) <= SumOf(Genesis)
    <3> SUFFICES ASSUME NEW a \in Accounts
                 PROVE  vault[f] + GetBalance(balance, a) <= SumOf(Genesis)
      OBVIOUS
    <3>1. vault[f] + GetBalance(balance, a) <= Supply
      BY <2>1, PartsOfSupply
    <3>2. GetBalance(balance, a) \in Nat
      BY <2>1, GetBalanceType DEF TypeOK
    <3> QED
      BY <2>1, <2>2, <3>1, <3>2
  <2>4. vault[f] + SumOf(Row(deposit, f, Accounts)) <= SumOf(Genesis)
    <3>1. vault[f] + SumOf(Row(deposit, f, Accounts)) <= Supply
      BY <2>1, PartsOfSupply
    <3>2. SumOf(Row(deposit, f, Accounts)) \in Nat
      BY <2>1, PartsOfSupply
    <3> QED
      BY <2>1, <2>2, <3>1, <3>2
  <2>5. Row(deposit, f, Accounts) = [a \in Accounts |-> deposit[<<f, a>>]]
    BY DEF Row
  <2> QED
    BY <2>3, <2>4, <2>5
<1> QED
  BY <1>1, EconomyInvariant, PTL
-----------------------------------------------------------------------------
\* The two permissions a payment needs of its payer's record are the ones
\* that whoever pays the fee of a transaction has declared.
LEMMA PayersMayPay ==
  ASSUME NEW a, NEW declared
  PROVE  SubFromBalance(a) \subseteq declared \cup SponsorStateKeys(a)
BY DEF SubFromBalance, Updates, SponsorStateKeys

\* What a set of permissions lacks, part by part.
LEMMA LacksNothing ==
  ASSUME NEW touched, NEW declared, NEW a,
         touched \subseteq declared \cup SponsorStateKeys(a)
  PROVE  Lacks(touched, declared, a) = {}
BY DEF Lacks

\* A transfer declares the record of its payer and, of the payee, the one it
\* may have to allocate.
LEMMA TransferKeys ==
  ASSUME NEW a, NEW to, NEW n
  PROVE  Lacks(TransferTouches(a, to, n), TransferStateKeys(a, to), a) = {}
<1>1. SubFromBalance(a) \subseteq TransferStateKeys(a, to) \cup SponsorStateKeys(a)
  BY PayersMayPay
<1>2. AddToBalance(to, SubBalance(balance, a, n)) \subseteq {BalanceKey(to)} \X All
  BY DEF AddToBalance, Updates, All, ReadWrite
<1>3. {BalanceKey(to)} \X All \subseteq TransferStateKeys(a, to)
  BY DEF TransferStateKeys
<1>4. TransferTouches(a, to, n)
        \subseteq TransferStateKeys(a, to) \cup SponsorStateKeys(a)
  BY <1>1, <1>2, <1>3 DEF TransferTouches
<1> QED
  BY <1>4, LacksNothing

\* A registration declares all permissions on all it writes.
LEMMA RegisterFeedKeys ==
  ASSUME NEW a, NEW f
  PROVE  Lacks(RegisterFeedTouches(a, f), RegisterFeedStateKeys(f), a) = {}
<1> DEFINE declared == RegisterFeedStateKeys(f)
<1>1. SubFromBalance(a) \subseteq declared \cup SponsorStateKeys(a)
  BY PayersMayPay
<1>2. /\ {FeedIDKey} \X All \subseteq declared
      /\ {FeedKey(f)} \X All \subseteq declared
      /\ {FeedRewardVaultKey(f)} \X All \subseteq declared
  BY DEF RegisterFeedStateKeys
<1>3. /\ GetHighestFeedID \subseteq {FeedIDKey} \X All
      /\ IncrementFeedID \subseteq {FeedIDKey} \X All
  BY DEF GetHighestFeedID, IncrementFeedID, Reads, Updates, All,
         ReadWrite
<1>4. SetFeed(f) \subseteq {FeedKey(f)} \X All
  BY DEF SetFeed, Writes, All
<1>5. SetFeedRewardVault(f) \subseteq {FeedRewardVaultKey(f)} \X All
  BY DEF SetFeedRewardVault, Writes, All
<1> HIDE DEF declared
<1>6. RegisterFeedTouches(a, f) \subseteq declared \cup SponsorStateKeys(a)
  BY <1>1, <1>2, <1>3, <1>4, <1>5 DEF RegisterFeedTouches
<1> QED
  BY <1>6, LacksNothing DEF declared

\* Funding lacks at most the allocation of an empty vault.
LEMMA FundFeedKeys ==
  ASSUME TypeOK, NEW a, NEW f \in FeedIDs
  PROVE  Lacks(FundFeedTouches(a, f), FundFeedStateKeys(f), a)
           \subseteq {<<FeedRewardVaultKey(g), "allocate">> :
                        g \in {h \in FeedIDs : vault[h] = 0}}
<1> DEFINE key      == FeedRewardVaultKey(f)
           declared == FundFeedStateKeys(f)
           missing  == {<<FeedRewardVaultKey(g), "allocate">> :
                          g \in {h \in FeedIDs : vault[h] = 0}}
<1>1. SubFromBalance(a) \subseteq declared \cup SponsorStateKeys(a)
  BY PayersMayPay
<1>2. /\ {FeedIDKey} \X All \subseteq declared
      /\ {key} \X ReadWrite \subseteq declared
  BY DEF FundFeedStateKeys
<1>3. GetHighestFeedID \subseteq {FeedIDKey} \X All
  BY DEF GetHighestFeedID, Reads, All
<1>4. GetFeedRewardVault(f) \subseteq {key} \X ReadWrite
  BY DEF GetFeedRewardVault, Reads, ReadWrite
<1>5. SetFeedRewardVault(f) \subseteq {key} \X ReadWrite \cup missing
  <2>1. CASE vault[f] > 0
    <3>1. SetFeedRewardVault(f) = Writes(key, TRUE)
      BY <2>1 DEF SetFeedRewardVault
    <3> QED
      BY <3>1 DEF Writes, ReadWrite
  <2>2. CASE vault[f] = 0
    <3>1. <<key, "allocate">> \in missing
      BY <2>2
    <3>2. SetFeedRewardVault(f) \ ({key} \X ReadWrite) \subseteq {<<key, "allocate">>}
      BY DEF SetFeedRewardVault, Writes, ReadWrite
    <3> HIDE DEF missing, key
    <3> QED
      BY <3>1, <3>2
  <2> QED
    BY <2>1, <2>2 DEF TypeOK
<1> HIDE DEF declared, missing, key
<1>6. FundFeedTouches(a, f) \subseteq declared \cup SponsorStateKeys(a) \cup missing
  BY <1>1, <1>2, <1>3, <1>4, <1>5 DEF FundFeedTouches
<1>7. Lacks(FundFeedTouches(a, f), declared, a) \subseteq missing
  BY <1>6 DEF Lacks
<1> QED
  BY <1>7 DEF declared, missing

\* A deposit declares what it reads and writes.
LEMMA DepositFeedKeys ==
  ASSUME NEW a, NEW f
  PROVE  Lacks(DepositFeedTouches(a, f), DepositFeedStateKeys(a, f), a) = {}
<1> DEFINE declared == DepositFeedStateKeys(a, f)
<1>1. SubFromBalance(a) \subseteq declared \cup SponsorStateKeys(a)
  BY PayersMayPay
<1>2. /\ GetFeed(f) \subseteq declared
      /\ {FeedDepositKey(f, a)} \X All \subseteq declared
  BY DEF DepositFeedStateKeys, GetFeed
<1>3. SetFeedDeposit(f, a) \subseteq {FeedDepositKey(f, a)} \X All
  BY DEF SetFeedDeposit, Writes, All
<1> HIDE DEF declared
<1>4. DepositFeedTouches(a, f) \subseteq declared \cup SponsorStateKeys(a)
  BY <1>1, <1>2, <1>3 DEF DepositFeedTouches
<1> QED
  BY <1>4, LacksNothing DEF declared

\* So does an offer.
LEMMA BribeInsertKeys ==
  ASSUME NEW a, NEW k
  PROVE  Lacks(BribeInsertTouches(a, k), BribeFeedStateKeys(a, k), a) = {}
<1> DEFINE declared == BribeFeedStateKeys(a, k)
<1>1. SubFromBalance(a) \subseteq declared \cup SponsorStateKeys(a)
  BY PayersMayPay
<1>2. /\ GetFeedRound(k[1]) \subseteq declared
      /\ {FeedBribeKey(k)} \X All \subseteq declared
  BY DEF BribeFeedStateKeys, GetFeedRound
<1>3. AddFeedBribe(k) \subseteq {FeedBribeKey(k)} \X All
  BY DEF AddFeedBribe, Updates, All, ReadWrite
<1> HIDE DEF declared
<1>4. BribeInsertTouches(a, k) \subseteq declared \cup SponsorStateKeys(a)
  BY <1>1, <1>2, <1>3 DEF BribeInsertTouches
<1> QED
  BY <1>4, LacksNothing DEF declared

\* A refund lacks at most the allocation of a balance record that is gone.
LEMMA BribeDeleteKeys ==
  ASSUME NEW a \in Accounts, NEW k
  PROVE  Lacks(BribeDeleteTouches(a, k), BribeFeedStateKeys(a, k), a)
           \subseteq {<<BalanceKey(x), "allocate">> :
                        x \in Accounts \ DOMAIN balance}
<1> DEFINE key      == BalanceKey(a)
           declared == BribeFeedStateKeys(a, k)
           missing  == {<<BalanceKey(x), "allocate">> :
                          x \in Accounts \ DOMAIN balance}
<1>1. /\ {FeedBribeKey(k)} \X All \subseteq declared
      /\ {key} \X ReadWrite \subseteq declared
  BY DEF BribeFeedStateKeys
<1>2. RemoveFeedBribe(k) \subseteq {FeedBribeKey(k)} \X All
  BY DEF RemoveFeedBribe, Updates, All, ReadWrite
<1>3. AddToBalance(a, balance) \subseteq {key} \X ReadWrite \cup missing
  <2>1. CASE a \in DOMAIN balance
    <3>1. AddToBalance(a, balance) = Updates(key, TRUE)
      BY <2>1 DEF AddToBalance
    <3> QED
      BY <3>1 DEF Updates, ReadWrite
  <2>2. CASE a \notin DOMAIN balance
    <3>1. <<key, "allocate">> \in missing
      BY <2>2
    <3>2. AddToBalance(a, balance) \ ({key} \X ReadWrite) \subseteq {<<key, "allocate">>}
      BY DEF AddToBalance, Updates, All, ReadWrite
    <3> HIDE DEF missing, key
    <3> QED
      BY <3>1, <3>2
  <2> QED
    BY <2>1, <2>2
<1> HIDE DEF declared, missing, key
<1>4. BribeDeleteTouches(a, k) \subseteq declared \cup missing
  BY <1>1, <1>2, <1>3 DEF BribeDeleteTouches
<1>5. Lacks(BribeDeleteTouches(a, k), declared, a) \subseteq missing
  BY <1>4 DEF Lacks
<1> QED
  BY <1>5 DEF declared, missing

\* The declarations cover what the handlers touch, for all accounts, feeds
\* and amounts; what funding and refunds may lack is all they may lack.
THEOREM KeysDeclared == Spec => DeclaredKeysSuffice
<1>1. \A a, to \in Accounts, n \in TransferAmounts \ {0} :
        CanSub(balance, a, n) =>
          Lacks(TransferTouches(a, to, n), TransferStateKeys(a, to), a) = {}
  BY TransferKeys
<1>2. TypeOK => CallsFindTheirKeys
  BY RegisterFeedKeys, FundFeedKeys, DepositFeedKeys, BribeInsertKeys,
     BribeDeleteKeys DEF CallsFindTheirKeys
<1> QED
  BY <1>1, <1>2, TypeCorrect, PTL DEF DeclaredKeysSuffice
=============================================================================
