--------------------------- MODULE OracleVMProofs ---------------------------
(***************************************************************************)
(* What holds of the virtual machine for every set of accounts, every      *)
(* configuration of feeds and every bound.                                 *)
(***************************************************************************)
EXTENDS OracleVM, OperatorProofs

\* Every state the store is in before the first transaction is well typed.
LEMMA InitTypeOK == Init => TypeOK
<1> SUFFICES ASSUME Init PROVE TypeOK
  OBVIOUS
<1>1. NoRound \in RoundInfo
  BY DEF NoRound, RoundInfo
<1>2. IsLedger(balance, Accounts)
  BY AccountsAssumption DEF Init
<1>3. /\ highestFeedID \in FeedIDs
      /\ DOMAIN feeds \subseteq FeedIDs
      /\ feeds \in [DOMAIN feeds -> FeedInfo]
  BY FeedsAssumption DEF Init, FeedIDs
<1>4. /\ vault \in [FeedIDs -> Nat]
      /\ deposit \in [FeedIDs \X Accounts -> Nat]
      /\ round \in [FeedIDs -> RoundInfo]
      /\ results \in [FeedIDs \X Rounds -> Values \cup {NoValue}]
  BY <1>1 DEF Init
<1>5. /\ DOMAIN reports = FeedIDs \X Rounds
      /\ \A fr \in FeedIDs \X Rounds :
           /\ DOMAIN reports[fr] \subseteq Accounts
           /\ reports[fr] \in [DOMAIN reports[fr] -> Values]
  BY DEF Init
<1>6. /\ DOMAIN bribes \subseteq BribeKeys
      /\ \A k \in DOMAIN bribes :
           /\ DOMAIN bribes[k] \subseteq Accounts
           /\ bribes[k] \in [DOMAIN bribes[k] -> Bribe]
      /\ now \in Nat
      /\ crashed \in BOOLEAN
  BY DEF Init
<1> QED
  BY <1>2, <1>3, <1>4, <1>5, <1>6 DEF TypeOK

\* A quotient is a natural number and its shares do not exceed the whole.
LEMMA SharesBound ==
  ASSUME NEW total \in Nat, NEW shares \in Nat \ {0}
  PROVE  /\ total \div shares \in Nat
         /\ total - (total \div shares) * shares \in Nat
<1>1. total = shares * (total \div shares) + (total % shares)
  BY Z3
<1>2. total % shares \in Nat
  BY Z3
<1>3. total \div shares \in Nat
  BY Z3
<1> QED
  BY <1>1, <1>2, <1>3, Z3

\* Offers read from the store are well typed, also when the key is missing.
LEMMA OffersType ==
  ASSUME TypeOK, NEW k
  PROVE  /\ DOMAIN Offers(k) \subseteq Accounts
         /\ Offers(k) \in [DOMAIN Offers(k) -> Bribe]
BY DEF TypeOK, Offers

\* Wrapping around yields an int64, and changes nothing that is one.
LEMMA Int64Type ==
  ASSUME NEW n \in Int
  PROVE  /\ Int64(n) \in Int
         /\ - HalfRange <= n /\ n < HalfRange => Int64(n) = n
<1>1. HalfRange \in Nat \ {0}
  BY RangeAssumption
<1>2. (n + HalfRange) % (2 * HalfRange) \in 0 .. 2 * HalfRange - 1
  BY <1>1
<1>3. ASSUME NEW m \in 0 .. 2 * HalfRange - 1
      PROVE  m % (2 * HalfRange) = m
  BY <1>1, <1>3
<1>4. ASSUME - HalfRange <= n, n < HalfRange
      PROVE  n + HalfRange \in 0 .. 2 * HalfRange - 1
  BY <1>1, <1>4
<1> QED
  BY <1>1, <1>2, <1>3, <1>4 DEF Int64

\* The current round of an existing feed is well typed.
LEMMA CurrentRoundType ==
  ASSUME TypeOK, NEW f \in DOMAIN feeds, NEW n \in Nat
  PROVE  CurrentRound(f) \in RoundInfo /\ OpenRound(f, n) \in RoundInfo
<1>1. f \in FeedIDs /\ feeds[f].finalizeInterval \in Int
  BY DEF TypeOK, FeedInfo
<1>2. \A m \in Nat : OpenRound(f, m) \in RoundInfo
  <2>1. Int64(now + feeds[f].finalizeInterval) \in Int
    BY <1>1, Int64Type DEF TypeOK
  <2> QED
    BY <2>1 DEF OpenRound, RoundInfo
<1>3. OpenRound(f, 1) \in RoundInfo
  BY <1>2
<1>4. round[f] \in RoundInfo
  BY <1>1 DEF TypeOK
<1> QED
  BY <1>2, <1>3, <1>4 DEF CurrentRound
-----------------------------------------------------------------------------
(***************************************************************************)
(* Every action preserves the type invariant.                              *)
(***************************************************************************)

\* A transfer debits one account and credits another.
LEMMA TransferType ==
  ASSUME TypeOK, NEW a \in Accounts, NEW to \in Accounts,
         NEW n \in TransferAmounts, Transfer(a, to, n)
  PROVE  TypeOK'
<1>1. n \in Nat
  BY AmountsAssumption
<1>2. IsLedger(SubBalance(balance, a, n), Accounts)
  BY <1>1, SubBalanceType DEF TypeOK, Transfer
<1>3. IsLedger(balance', Accounts)
  BY <1>1, <1>2, AddBalanceType DEF Transfer
<1> QED
  BY <1>3 DEF TypeOK, Transfer, Completes

\* Registration extends the feeds and fills the vault of the new one.
LEMMA RegisterFeedType ==
  ASSUME TypeOK, NEW a \in Accounts, NEW f \in FeedIDs,
         NEW info \in FeedConfigs, NEW n \in VaultAmounts,
         RegisterFeed(a, f, info, n)
  PROVE  TypeOK'
<1>1. n \in Nat /\ info \in FeedInfo
  BY AmountsAssumption, FeedsAssumption
<1>2. IsLedger(balance', Accounts)
  BY <1>1, SubBalanceType DEF TypeOK, RegisterFeed
<1>3. highestFeedID' \in FeedIDs
  BY DEF RegisterFeed
<1>4. DOMAIN feeds' \subseteq FeedIDs /\ feeds' \in [DOMAIN feeds' -> FeedInfo]
  BY <1>1 DEF TypeOK, RegisterFeed, Store
<1>5. vault' \in [FeedIDs -> Nat]
  BY <1>1 DEF TypeOK, RegisterFeed
<1> QED
  BY <1>2, <1>3, <1>4, <1>5 DEF TypeOK, RegisterFeed, Completes

\* Funding adds to a vault.
LEMMA FundFeedType ==
  ASSUME TypeOK, NEW a \in Accounts, NEW f \in FeedIDs,
         NEW n \in FundAmounts, FundFeed(a, f, n)
  PROVE  TypeOK'
<1>1. n \in Nat
  BY AmountsAssumption
<1>2. IsLedger(balance', Accounts)
  BY <1>1, SubBalanceType DEF TypeOK, FundFeed
<1>3. vault' \in [FeedIDs -> Nat]
  BY <1>1 DEF TypeOK, FundFeed
<1> QED
  BY <1>2, <1>3 DEF TypeOK, FundFeed, Completes

\* Depositing sets a deposit.
LEMMA DepositFeedType ==
  ASSUME TypeOK, NEW a \in Accounts, NEW f \in FeedIDs,
         NEW n \in DepositAmounts, DepositFeed(a, f, n)
  PROVE  TypeOK'
<1>1. n \in Nat
  BY AmountsAssumption
<1>2. IsLedger(balance', Accounts)
  BY <1>1, SubBalanceType DEF TypeOK, DepositFeed
<1>3. deposit' \in [FeedIDs \X Accounts -> Nat]
  BY <1>1 DEF TypeOK, DepositFeed
<1> QED
  BY <1>2, <1>3 DEF TypeOK, DepositFeed, Completes

\* Shares paid to some accounts leave a well-typed ledger.
LEMMA PaySharesType ==
  ASSUME NEW A, NEW ledger, IsLedger(ledger, A), NEW actor \in A,
         NEW benign \in SUBSET A, NEW share \in Nat
  PROVE  IsLedger(PayShares(ledger, actor, benign, share), A)
<1>1. \A x : GetBalance(ledger, x) \in Nat
  BY GetBalanceType
<1> QED
  BY <1>1 DEF IsLedger, PayShares

\* Sealing pays natural shares, and what is left over goes to the vault.
LEMMA SealType ==
  ASSUME TypeOK, NEW a \in Accounts, NEW f \in FeedIDs, NEW r \in Rounds,
         Seal(a, f, r)
  PROVE  TypeOK'
<1> DEFINE ballot == reports[<<f, r>>]
           benign(m) == Supporters(ballot, m)
           malicious(m) == DOMAIN ballot \ benign(m)
           total(m) == feeds[f].rewardPerRound
                         + SumOf([x \in malicious(m) |-> deposit[<<f, x>>]])
           shares(m) == Cardinality(benign(m)) + 1
           share(m) == total(m) \div shares(m)
           left(m) == total(m) - share(m) * shares(m)
<1>1. PICK m \in Values :
        /\ vault' = [vault EXCEPT ![f] = @ - feeds[f].rewardPerRound + left(m)]
        /\ deposit' = [fx \in DOMAIN deposit |->
                         IF fx[1] = f /\ fx[2] \in malicious(m)
                         THEN 0 ELSE deposit[fx]]
        /\ balance' = PayShares(balance, a, benign(m), share(m))
        /\ results' = [results EXCEPT ![<<f, r>>] = m]
  BY DEF Seal
<1>2. /\ f \in DOMAIN feeds
      /\ feeds[f].rewardPerRound \in Nat
      /\ vault[f] - feeds[f].rewardPerRound \in Nat
  BY DEF Seal, Admitted, CanPayReward, TypeOK, FeedInfo
<1>3. DOMAIN ballot \subseteq Accounts /\ ballot \in [DOMAIN ballot -> Values]
  BY DEF TypeOK
<1>4. IsFiniteSet(DOMAIN ballot)
  BY <1>3, AccountsAssumption, FS_Subset
<1>5. benign(m) \in SUBSET Accounts /\ IsFiniteSet(benign(m))
  BY <1>3, <1>4, TallyType DEF Supporters
<1>6. total(m) \in Nat
  <2>1. IsFiniteSet(malicious(m))
    BY <1>4, FS_Subset
  <2>2. [x \in malicious(m) |-> deposit[<<f, x>>]] \in [malicious(m) -> Nat]
    BY <1>3 DEF TypeOK
  <2>3. SumOf([x \in malicious(m) |-> deposit[<<f, x>>]]) \in Nat
    BY <2>1, <2>2, SumOfType
  <2> QED
    BY <1>2, <2>3
<1>7. shares(m) \in Nat \ {0}
  BY <1>5, FS_CardinalityType
<1>8. share(m) \in Nat /\ left(m) \in Nat
  BY <1>6, <1>7, SharesBound
<1> HIDE DEF benign, malicious, share, left
<1>9. IsLedger(balance', Accounts)
  BY <1>1, <1>5, <1>8, PaySharesType DEF TypeOK
<1>10. vault' \in [FeedIDs -> Nat]
  BY <1>1, <1>2, <1>8 DEF TypeOK
<1>11. deposit' \in [FeedIDs \X Accounts -> Nat]
  BY <1>1 DEF TypeOK
<1>12. results' \in [FeedIDs \X Rounds -> Values \cup {NoValue}]
  BY <1>1 DEF TypeOK
<1>13. round' \in [FeedIDs -> RoundInfo]
  <2>1. OpenRound(f, r + 1) \in RoundInfo
    BY <1>2, CurrentRoundType, FeedsAssumption DEF Rounds
  <2> QED
    BY <2>1 DEF Seal, TypeOK
<1>14. UNCHANGED <<highestFeedID, feeds, reports, bribes, now, crashed>>
  BY DEF Seal, Completes
<1> QED
  BY <1>9, <1>10, <1>11, <1>12, <1>13, <1>14 DEF TypeOK

\* An offer that is filed or withdrawn leaves well-typed offers.
LEMMA StoreBribesType ==
  ASSUME TypeOK, NEW k \in BribeKeys, NEW offers,
         DOMAIN offers \subseteq Accounts,
         offers \in [DOMAIN offers -> Bribe],
         bribes' = Store(bribes, k, offers)
  PROVE  /\ DOMAIN bribes' \subseteq BribeKeys
         /\ \A key \in DOMAIN bribes' :
              /\ DOMAIN bribes'[key] \subseteq Accounts
              /\ bribes'[key] \in [DOMAIN bribes'[key] -> Bribe]
BY DEF TypeOK, Store

\* A report is filed, and the offers it fulfils are paid.
LEMMA ReportType ==
  ASSUME TypeOK, NEW a \in Accounts, NEW f \in FeedIDs, NEW r \in Rounds,
         NEW v \in Values, Report(a, f, r, v)
  PROVE  TypeOK'
<1> DEFINE k         == <<f, a, r>>
           offers    == Offers(k)
           fulfilled == {p \in DOMAIN offers : offers[p].value = v}
           paid      == Amounts(Restrict(offers, fulfilled))
           kept      == Restrict(offers, DOMAIN offers \ fulfilled)
<1>1. /\ balance' = IF fulfilled = {} THEN balance
                    ELSE AddBalance(balance, a, SumOf(paid))
      /\ bribes' = Store(bribes, k, kept)
  BY DEF Report, Payment
<1>2. k \in BribeKeys
  BY DEF BribeKeys
<1>3. DOMAIN offers \subseteq Accounts /\ offers \in [DOMAIN offers -> Bribe]
  BY OffersType
<1>4. IsLedger(balance', Accounts)
  <2>1. IsFiniteSet(fulfilled)
    <3>1. fulfilled \in SUBSET Accounts
      BY <1>3
    <3> QED
      BY <3>1, AccountsAssumption, FS_Subset
  <2>2. paid \in [fulfilled -> Nat]
    BY <1>3 DEF Amounts, Restrict, Bribe
  <2>3. SumOf(paid) \in Nat
    BY <2>1, <2>2, SumOfType
  <2> HIDE DEF fulfilled, paid
  <2> QED
    BY <1>1, <2>3, AddBalanceType DEF TypeOK
<1>5. /\ DOMAIN kept \subseteq Accounts
      /\ kept \in [DOMAIN kept -> Bribe]
  BY <1>3 DEF Restrict
<1>6. /\ DOMAIN bribes' \subseteq BribeKeys
      /\ \A key \in DOMAIN bribes' :
           /\ DOMAIN bribes'[key] \subseteq Accounts
           /\ bribes'[key] \in [DOMAIN bribes'[key] -> Bribe]
  <2> HIDE DEF k, kept
  <2> QED
    BY <1>1, <1>2, <1>5, StoreBribesType
<1>7. results' \in [FeedIDs \X Rounds -> Values \cup {NoValue}]
  BY DEF Report, TypeOK
<1>8. /\ DOMAIN reports' = FeedIDs \X Rounds
      /\ \A fr \in FeedIDs \X Rounds :
           /\ DOMAIN reports'[fr] \subseteq Accounts
           /\ reports'[fr] \in [DOMAIN reports'[fr] -> Values]
  <2>1. reports' = [reports EXCEPT ![<<f, r>>] = Store(@, a, v)]
    BY DEF Report
  <2> QED
    BY <2>1 DEF TypeOK, Store
<1>9. round' \in [FeedIDs -> RoundInfo]
  <2>1. f \in DOMAIN feeds
    BY DEF Report, Admitted
  <2>2. CurrentRound(f) \in RoundInfo
    BY <2>1, CurrentRoundType
  <2> QED
    BY <2>2 DEF Report, TypeOK
<1>10. UNCHANGED <<highestFeedID, feeds, vault, deposit, now, crashed>>
  BY DEF Report, Completes
<1> QED
  BY <1>4, <1>6, <1>7, <1>8, <1>9, <1>10 DEF TypeOK

\* An appeal moves its fee to the vault and the end of the round.
LEMMA AppealFeedType ==
  ASSUME TypeOK, NEW a \in Appellants, NEW f \in FeedIDs, AppealFeed(a, f)
  PROVE  TypeOK'
<1> DEFINE appeals == round[f].appeals \cup {a}
           delay   == AppealDelay(feeds[f], Cardinality(appeals))
<1>1. a \in Accounts
  BY AccountsAssumption
<1>2. /\ feeds[f].appealFee \in Nat
      /\ feeds[f].appealEffect \in Int
      /\ feeds[f].appealMaxDelay \in Int
  BY DEF AppealFeed, CanAppeal, TypeOK, FeedInfo
<1>3. IsLedger(balance', Accounts)
  BY <1>2, SubBalanceType DEF AppealFeed, CanAppeal, TypeOK
<1>4. vault' \in [FeedIDs -> Nat]
  BY <1>2 DEF AppealFeed, TypeOK
<1>5. round' \in [FeedIDs -> RoundInfo]
  <2>1. appeals \in SUBSET Accounts
    BY <1>1 DEF TypeOK, RoundInfo
  <2>2. Cardinality(appeals) \in Nat
    BY <2>1, AccountsAssumption, FS_Subset, FS_CardinalityType
  <2>3. delay \in Int
    <3>1. feeds[f].appealEffect * Cardinality(appeals) \in Int
      BY <1>2, <2>2
    <3>2. Int64(feeds[f].appealEffect * Cardinality(appeals)) \in Int
      BY <3>1, Int64Type
    <3> QED
      BY <1>2, <3>2 DEF AppealDelay
  <2>4. round' = [round EXCEPT ![f].appeals = appeals, ![f].delay = delay]
    BY DEF AppealFeed
  <2> HIDE DEF appeals, delay
  <2> QED
    BY <2>1, <2>3, <2>4 DEF TypeOK, RoundInfo
<1> QED
  BY <1>3, <1>4, <1>5 DEF AppealFeed, TypeOK, Completes

\* A bribe is paid for when it is offered.
LEMMA BribeInsertType ==
  ASSUME TypeOK, NEW a \in Accounts, NEW p \in Accounts,
         NEW k \in BribableKeys, NEW info \in BribeInfos,
         BribeInsert(a, k, p, info)
  PROVE  TypeOK'
<1>1. k \in BribeKeys
  BY AccountsAssumption DEF BribableKeys, BribeKeys
<1>2. info \in Bribe /\ info.amount \in Nat
  BY AmountsAssumption DEF BribeInfos, Bribe
<1>3. IsLedger(balance', Accounts)
  BY <1>2, SubBalanceType DEF BribeInsert, TypeOK
<1>4. /\ DOMAIN Store(Offers(k), p, info) \subseteq Accounts
      /\ Store(Offers(k), p, info)
           \in [DOMAIN Store(Offers(k), p, info) -> Bribe]
  BY <1>2, OffersType DEF Store
<1>5. /\ DOMAIN bribes' \subseteq BribeKeys
      /\ \A key \in DOMAIN bribes' :
           /\ DOMAIN bribes'[key] \subseteq Accounts
           /\ bribes'[key] \in [DOMAIN bribes'[key] -> Bribe]
  BY <1>1, <1>4, StoreBribesType DEF BribeInsert
<1> QED
  BY <1>3, <1>5 DEF BribeInsert, TypeOK, Completes

\* A withdrawn bribe is paid back.
LEMMA BribeDeleteType ==
  ASSUME TypeOK, NEW a \in Accounts, NEW k \in BribableKeys,
         BribeDelete(a, k)
  PROVE  TypeOK'
<1>1. k \in DOMAIN bribes /\ a \in DOMAIN bribes[k]
  BY DEF BribeDelete
<1>2. bribes[k][a].amount \in Nat
  BY <1>1 DEF TypeOK, Bribe
<1>3. IsLedger(balance', Accounts)
  BY <1>2, AddBalanceType DEF BribeDelete, TypeOK
<1>4. bribes' = [bribes EXCEPT ![k] = Restrict(@, DOMAIN @ \ {a})]
  BY DEF BribeDelete
<1>5. /\ DOMAIN bribes' \subseteq BribeKeys
      /\ \A key \in DOMAIN bribes' :
           /\ DOMAIN bribes'[key] \subseteq Accounts
           /\ bribes'[key] \in [DOMAIN bribes'[key] -> Bribe]
  BY <1>1, <1>4 DEF TypeOK, Restrict
<1> QED
  BY <1>3, <1>5 DEF BribeDelete, TypeOK, Completes

\* The induction step.
LEMMA NextTypeOK == TypeOK /\ [Next]_vars => TypeOK'
<1> SUFFICES ASSUME TypeOK, [Next]_vars PROVE TypeOK'
  OBVIOUS
<1>1. CASE Execute
  <2>1. ASSUME NEW a \in Accounts, NEW to \in Accounts,
               NEW n \in TransferAmounts, Transfer(a, to, n)
        PROVE  TypeOK'
    BY <2>1, TransferType
  <2>2. ASSUME NEW a \in Accounts, NEW f \in FeedIDs,
               NEW info \in FeedConfigs, NEW n \in VaultAmounts,
               RegisterFeed(a, f, info, n)
        PROVE  TypeOK'
    BY <2>2, RegisterFeedType
  <2>3. ASSUME NEW a \in Accounts, NEW f \in FeedIDs,
               NEW n \in FundAmounts, FundFeed(a, f, n)
        PROVE  TypeOK'
    BY <2>3, FundFeedType
  <2>4. ASSUME NEW a \in Accounts, NEW f \in FeedIDs,
               NEW n \in DepositAmounts, DepositFeed(a, f, n)
        PROVE  TypeOK'
    BY <2>4, DepositFeedType
  <2>5. ASSUME NEW a \in Accounts, NEW f \in FeedIDs, NEW r \in Rounds,
               Seal(a, f, r)
        PROVE  TypeOK'
    BY <2>5, SealType
  <2>6. ASSUME NEW a \in Accounts, NEW f \in FeedIDs, NEW r \in Rounds,
               NEW v \in Values, Report(a, f, r, v)
        PROVE  TypeOK'
    BY <2>6, ReportType
  <2>7. ASSUME NEW a \in Appellants, NEW f \in FeedIDs, AppealFeed(a, f)
        PROVE  TypeOK'
    BY <2>7, AppealFeedType
  <2>8. ASSUME NEW a \in Accounts, NEW p \in Accounts,
               NEW k \in BribableKeys, NEW info \in BribeInfos,
               BribeInsert(a, k, p, info)
        PROVE  TypeOK'
    BY <2>8, BribeInsertType
  <2>9. ASSUME NEW a \in Accounts, NEW k \in BribableKeys, BribeDelete(a, k)
        PROVE  TypeOK'
    BY <2>9, BribeDeleteType
  <2> QED
    BY <1>1, <2>1, <2>2, <2>3, <2>4, <2>5, <2>6, <2>7, <2>8, <2>9 DEF Execute
<1>2. CASE Panic
  BY <1>2 DEF Panic, TypeOK
<1>3. CASE Tick
  BY <1>3 DEF Tick, TypeOK, Completes
<1>4. CASE Restart
  BY <1>4 DEF Restart, TypeOK
<1>5. CASE UNCHANGED vars
  BY <1>5 DEF vars, TypeOK
<1> QED
  BY <1>1, <1>2, <1>3, <1>4, <1>5 DEF Next

\* TypeOK is an invariant: no handler takes a balance, a vault or a deposit
\* below zero or files a report under a round or a reporter it does not
\* belong to, whatever the feeds are configured with.
THEOREM TypeCorrect == Spec => []TypeOK
BY InitTypeOK, NextTypeOK, PTL DEF Spec

-----------------------------------------------------------------------------
\* The actions other than Report, BribeInsert and BribeDelete leave the
\* offers and the reports alone.
LEMMA OthersKeepBribes ==
  ASSUME [Next]_vars
  PROVE  \/ UNCHANGED <<bribes, reports>>
         \/ \E a \in Accounts, f \in FeedIDs, r \in Rounds, v \in Values :
              Report(a, f, r, v)
         \/ \E a, p \in Accounts, k \in BribableKeys, info \in BribeInfos :
              BribeInsert(a, k, p, info)
         \/ \E a \in Accounts, k \in BribableKeys : BribeDelete(a, k)
BY DEF Next, Execute, Transfer, RegisterFeed, FundFeed, DepositFeed, Seal,
       AppealFeed, Panic, Tick, Restart, vars

\* A key is settled whose offers and whose recipient's report stay as they
\* are.
LEMMA KeptIsSettled ==
  ASSUME NEW k \in DOMAIN bribes, k \in DOMAIN bribes',
         \A p \in DOMAIN bribes[k] :
           p \in DOMAIN bribes'[k] /\ bribes'[k][p] = bribes[k][p],
         \A v \in Values : HasReported(k, v)' => HasReported(k, v)
  PROVE  Settled(k)
BY DEF Settled, Cleared

\* A report is filed under its reporter and changes nobody else's.
LEMMA ReportIsFiled ==
  ASSUME TypeOK, NEW a \in Accounts, NEW f \in FeedIDs, NEW r \in Rounds,
         NEW v \in Values, Report(a, f, r, v), NEW k \in DOMAIN bribes
  PROVE  /\ k = <<f, a, r>> =>
              \A w \in Values : HasReported(k, w)' <=> w = v
         /\ k # <<f, a, r>> =>
              \A w \in Values : HasReported(k, w)' => HasReported(k, w)
<1>1. reports' = [reports EXCEPT ![<<f, r>>] = Store(@, a, v)]
  BY DEF Report
<1>2. DOMAIN reports = FeedIDs \X Rounds
  BY DEF TypeOK
<1>3. k = <<k[1], k[2], k[3]>> /\ k[1] \in FeedIDs /\ k[3] \in Rounds
  BY DEF TypeOK, BribeKeys
<1>4. reports'[<<f, r>>] = Store(reports[<<f, r>>], a, v)
  BY <1>1, <1>2
<1>5. CASE k = <<f, a, r>>
  BY <1>4, <1>5 DEF HasReported, Store
<1>6. CASE <<k[1], k[3]>> # <<f, r>>
  <2>1. reports'[<<k[1], k[3]>>] = reports[<<k[1], k[3]>>]
    BY <1>1, <1>2, <1>3, <1>6
  <2> QED
    BY <1>6, <2>1 DEF HasReported
<1>7. CASE <<k[1], k[3]>> = <<f, r>> /\ k[2] # a
  BY <1>4, <1>7 DEF HasReported, Store
<1> QED
  BY <1>3, <1>5, <1>6, <1>7

\* A report settles the offers for its value, all at once, and keeps the
\* others.
LEMMA ReportSettles ==
  ASSUME TypeOK, NEW a \in Accounts, NEW f \in FeedIDs, NEW r \in Rounds,
         NEW v \in Values, Report(a, f, r, v), NEW k \in DOMAIN bribes
  PROVE  Settled(k)
<1> DEFINE key       == <<f, a, r>>
           offers    == Offers(key)
           fulfilled == {p \in DOMAIN offers : offers[p].value = v}
           paid      == Amounts(Restrict(offers, fulfilled))
           kept      == Restrict(offers, DOMAIN offers \ fulfilled)
<1>1. /\ balance' = IF fulfilled = {} THEN balance
                    ELSE AddBalance(balance, a, SumOf(paid))
      /\ bribes' = Store(bribes, key, kept)
  BY DEF Report, Payment
<1>2. k \in DOMAIN bribes'
  BY <1>1 DEF Store
<1>3. CASE k # key
  <2>1. bribes'[k] = bribes[k]
    <3> HIDE DEF key, kept
    <3> QED
      BY <1>1, <1>3 DEF Store
  <2>2. \A w \in Values : HasReported(k, w)' => HasReported(k, w)
    BY <1>3, ReportIsFiled
  <2> QED
    BY <1>2, <2>1, <2>2, KeptIsSettled
<1>4. CASE k = key
  <2>1. offers = bribes[k] /\ bribes'[k] = kept
    <3>1. offers = bribes[k]
      BY <1>4 DEF Offers
    <3> HIDE DEF key, kept
    <3> QED
      BY <1>1, <1>4, <3>1 DEF Store
  <2>2. Cleared(k) = fulfilled
    BY <2>1 DEF Cleared, Restrict
  <2>3. OffersFor(k, v) = fulfilled
    BY <2>1 DEF OffersFor
  <2>4. \A w \in Values : HasReported(k, w)' <=> w = v
    BY <1>4, ReportIsFiled
  <2>5. \A p \in DOMAIN bribes[k] \ Cleared(k) : bribes'[k][p] = bribes[k][p]
    BY <2>1, <2>2 DEF Restrict
  <2>6. CASE fulfilled = {}
    BY <1>2, <2>2, <2>3, <2>4, <2>5, <2>6 DEF Settled
  <2>7. CASE fulfilled # {}
    <3>1. IsFiniteSet(fulfilled) /\ paid \in [fulfilled -> Nat]
      <4>1. DOMAIN offers \subseteq Accounts /\ offers \in [DOMAIN offers -> Bribe]
        BY OffersType
      <4>2. fulfilled \in SUBSET Accounts
        BY <4>1
      <4>3. IsFiniteSet(fulfilled)
        BY <4>2, AccountsAssumption, FS_Subset
      <4> QED
        BY <4>1, <4>3 DEF Amounts, Restrict, Bribe
    <3>2. SumOf(paid) \in Nat
      <4> HIDE DEF paid, fulfilled
      <4> QED
        BY <3>1, SumOfType
    <3>3. GetBalance(balance', a) = GetBalance(balance, a) + SumOf(paid)
      <4> HIDE DEF paid
      <4> QED
        BY <1>1, <2>7 DEF AddBalance, GetBalance
    <3>4. GetBalance(balance, a) \in Nat
      BY GetBalanceType DEF TypeOK
    <3>5. Gains(a) = SumOf(paid)
      <4> HIDE DEF paid, fulfilled
      <4> QED
        BY <3>2, <3>3, <3>4 DEF Gains
    <3>6. paid = Amounts(Restrict(bribes[k], Cleared(k)))
      BY <2>1, <2>2
    <3>7. k[2] = a
      BY <1>4
    <3>8. PaidToReporter(k)
      <4> HIDE DEF paid, fulfilled, offers, key
      <4> QED
        BY <2>2, <2>3, <2>4, <3>5, <3>6, <3>7 DEF PaidToReporter
    <3> HIDE DEF paid, fulfilled, offers, key
    <3> QED
      BY <1>2, <2>2, <2>3, <2>4, <2>5, <3>8 DEF Settled
  <2> QED
    BY <2>6, <2>7
<1> QED
  BY <1>3, <1>4

\* A new offer replaces none.
LEMMA InsertSettles ==
  ASSUME NEW a \in Accounts, NEW p \in Accounts, NEW key \in BribableKeys,
         NEW info \in BribeInfos, BribeInsert(a, key, p, info),
         NEW k \in DOMAIN bribes
  PROVE  Settled(k)
<1>1. /\ bribes' = Store(bribes, key, Store(Offers(key), p, info))
      /\ p \notin DOMAIN Offers(key)
      /\ UNCHANGED reports
  BY DEF BribeInsert, CanOffer
<1>2. Offers(k) = bribes[k]
  BY DEF Offers
<1>3. k \in DOMAIN bribes'
  BY <1>1 DEF Store
<1>4. \A q \in DOMAIN bribes[k] :
        q \in DOMAIN bribes'[k] /\ bribes'[k][q] = bribes[k][q]
  BY <1>1, <1>2 DEF Store
<1>5. \A v \in Values : HasReported(k, v)' => HasReported(k, v)
  BY <1>1 DEF HasReported
<1> QED
  BY <1>3, <1>4, <1>5, KeptIsSettled

\* Who withdraws an offer gets it back.
LEMMA DeleteSettles ==
  ASSUME TypeOK, NEW a \in Accounts, NEW key \in BribableKeys,
         BribeDelete(a, key), NEW k \in DOMAIN bribes
  PROVE  Settled(k)
<1>1. /\ key \in DOMAIN bribes /\ a \in DOMAIN bribes[key]
      /\ balance' = AddBalance(balance, a, bribes[key][a].amount)
      /\ bribes' = [bribes EXCEPT ![key] = Restrict(@, DOMAIN @ \ {a})]
      /\ UNCHANGED reports
  BY DEF BribeDelete
<1>2. k \in DOMAIN bribes'
  BY <1>1
<1>3. \A v \in Values : HasReported(k, v)' => HasReported(k, v)
  BY <1>1 DEF HasReported
<1>4. CASE k # key
  BY <1>1, <1>2, <1>3, <1>4, KeptIsSettled
<1>5. CASE k = key
  <2>1. bribes[k][a].amount \in Nat
    BY <1>1, <1>5 DEF TypeOK, Bribe
  <2>2. GetBalance(balance, a) \in Nat
    BY GetBalanceType DEF TypeOK
  <2>3. GetBalance(balance', a) = GetBalance(balance, a) + bribes[k][a].amount
    BY <1>1, <1>5 DEF AddBalance, GetBalance
  <2>4. bribes'[k] = Restrict(bribes[k], DOMAIN bribes[k] \ {a})
    BY <1>1, <1>5
  <2>5. Cleared(k) = {a}
    BY <1>1, <1>5, <2>4 DEF Cleared, Restrict
  <2>6. Gains(a) = bribes[k][a].amount
    BY <2>1, <2>2, <2>3 DEF Gains
  <2>7. GivenBack(k)
    BY <2>5, <2>6 DEF GivenBack
  <2>8. \A p \in DOMAIN bribes[k] \ Cleared(k) : bribes'[k][p] = bribes[k][p]
    BY <2>4, <2>5 DEF Restrict
  <2> QED
    BY <1>2, <1>3, <2>7, <2>8 DEF Settled
<1> QED
  BY <1>4, <1>5

\* Bribes are settled exactly and with the right party, several offers that
\* one report fulfils by their sum, for all amounts, providers and
\* recipients, however inserts, withdrawals and reports interleave.
THEOREM BribesSettled == Spec => BribesAreSettled
<1>1. TypeOK /\ [Next]_vars => [\A k \in DOMAIN bribes : Settled(k)]_vars
  <2> SUFFICES ASSUME TypeOK, [Next]_vars, NEW k \in DOMAIN bribes,
                      ~ UNCHANGED vars
               PROVE  Settled(k)
    OBVIOUS
  <2>1. CASE UNCHANGED <<bribes, reports>>
    <3>1. \A v \in Values : HasReported(k, v)' => HasReported(k, v)
      BY <2>1 DEF HasReported
    <3> QED
      BY <2>1, <3>1, KeptIsSettled
  <2>2. ASSUME NEW a \in Accounts, NEW f \in FeedIDs, NEW r \in Rounds,
               NEW v \in Values, Report(a, f, r, v)
        PROVE  Settled(k)
    BY <2>2, ReportSettles
  <2>3. ASSUME NEW a \in Accounts, NEW p \in Accounts, NEW key \in BribableKeys,
               NEW info \in BribeInfos, BribeInsert(a, key, p, info)
        PROVE  Settled(k)
    BY <2>3, InsertSettles
  <2>4. ASSUME NEW a \in Accounts, NEW key \in BribableKeys, BribeDelete(a, key)
        PROVE  Settled(k)
    BY <2>4, DeleteSettles
  <2> QED
    BY <2>1, <2>2, <2>3, <2>4, OthersKeepBribes
<1> QED
  BY <1>1, TypeCorrect, PTL DEF Spec, BribesAreSettled
=============================================================================
