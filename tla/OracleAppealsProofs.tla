------------------------ MODULE OracleAppealsProofs ------------------------
(***************************************************************************)
(* For every feed configuration and every set of appellants, appeals only  *)
(* postpone the end of a round, and by no more than the cap.  The property *)
(* alone is not inductive: the invariant adds that the delay of a round is *)
(* the one its appeals ask for, that its end is an int64, and that no      *)
(* registration replaces the configuration the delay was computed from.    *)
(***************************************************************************)
EXTENDS OracleVMProofs

\* The delay of n appeals against a round of feed f.
DelayOf(f, n) == IF n = 0 THEN 0 ELSE AppealDelay(feeds[f], n)

\* A round that exists belongs to a feed, ends at an int64, and is delayed
\* as its appeals ask for.
DelayFollowsAppeals ==
  \A f \in FeedIDs : HasRound(f) =>
    /\ f \in DOMAIN feeds
    /\ - HalfRange <= round[f].end /\ round[f].end < HalfRange
    /\ round[f].delay = DelayOf(f, Cardinality(round[f].appeals))

\* Registration finds its feed ID free.
FeedsCounted == \A f \in DOMAIN feeds : f <= highestFeedID

\* The inductive invariant.
AppealsInv == TypeOK /\ DelayFollowsAppeals /\ FeedsCounted

-----------------------------------------------------------------------------
\* Multiplication by a natural number is monotone.
LEMMA Monotone ==
  ASSUME NEW e \in Nat, NEW n \in Nat, NEW m \in Nat, n <= m
  PROVE  e * n \in Nat /\ e * n <= e * m
<1>1. m - n \in Nat
  OBVIOUS
<1>2. e * (m - n) \in Nat
  BY <1>1
<1>3. e * m = e * n + e * (m - n)
  OBVIOUS
<1>4. e * n \in Nat /\ e * m \in Nat
  OBVIOUS
<1> QED
  BY <1>2, <1>3, <1>4

\* What wraps around is an int64.
LEMMA Int64Range ==
  ASSUME NEW n \in Int
  PROVE  - HalfRange <= Int64(n) /\ Int64(n) < HalfRange
<1>1. HalfRange \in Nat \ {0}
  BY RangeAssumption
<1>2. (n + HalfRange) % (2 * HalfRange) \in 0 .. 2 * HalfRange - 1
  BY <1>1
<1> QED
  BY <1>1, <1>2 DEF Int64

\* As long as nothing overflows, a round with more appeals has the longer
\* delay, within the cap.
LEMMA DelayGrows ==
  ASSUME TypeOK, NEW f \in DOMAIN feeds, Postponable(f),
         NEW n \in Nat, NEW m \in Nat, n <= m, m <= Cardinality(Accounts)
  PROVE  /\ DelayOf(f, n) \in Nat /\ DelayOf(f, m) \in Nat
         /\ DelayOf(f, n) <= DelayOf(f, m)
         /\ DelayOf(f, m) <= feeds[f].appealMaxDelay
<1> DEFINE e == feeds[f].appealEffect
           cap == feeds[f].appealMaxDelay
<1>1. e \in Nat /\ cap \in Nat
  BY DEF TypeOK, FeedInfo, Postponable
<1>2. HalfRange \in Nat \ {0} /\ Cardinality(Accounts) \in Nat
  BY RangeAssumption, AccountsAssumption, FS_CardinalityType
<1>3. ASSUME NEW i \in Nat, i <= Cardinality(Accounts)
      PROVE  /\ e * i \in Nat
             /\ DelayOf(f, i) = IF i = 0 THEN 0 ELSE IF e * i > cap THEN cap ELSE e * i
  <2>1. e * i \in Nat /\ e * i <= e * Cardinality(Accounts)
    BY <1>1, <1>2, <1>3, Monotone
  <2>2. e * Cardinality(Accounts) < HalfRange /\ e * Cardinality(Accounts) \in Nat
    BY <1>1, <1>2 DEF Postponable
  <2>3. e * i \in Int /\ - HalfRange <= e * i /\ e * i < HalfRange
    <3> HIDE DEF e
    <3> QED
      BY <1>2, <2>1, <2>2
  <2>4. Int64(e * i) = e * i
    BY <2>3, Int64Type
  <2> QED
    BY <2>1, <2>4 DEF DelayOf, AppealDelay
<1>4. e * n <= e * m
  BY <1>1, Monotone
<1>5. e * n \in Nat /\ e * m \in Nat
  BY <1>1
<1>6. n = 0 \/ m # 0
  OBVIOUS
<1>7. /\ DelayOf(f, n) = IF n = 0 THEN 0 ELSE IF e * n > cap THEN cap ELSE e * n
      /\ DelayOf(f, m) = IF m = 0 THEN 0 ELSE IF e * m > cap THEN cap ELSE e * m
  <2>1. n <= Cardinality(Accounts)
    BY <1>2
  <2> QED
    BY <1>3, <2>1
<1> HIDE DEF e
<1> QED
  BY <1>1, <1>4, <1>5, <1>6, <1>7

\* With the delay in range the end of the round is its plain sum.
LEMMA EndIsSum ==
  ASSUME TypeOK, NEW f \in DOMAIN feeds, Postponable(f),
         NEW rd \in RoundInfo, rd.end = round[f].end,
         - HalfRange <= rd.end, rd.delay \in Nat,
         rd.delay <= feeds[f].appealMaxDelay
  PROVE  EndAt(rd) = rd.end + rd.delay
<1>1. rd.end \in Int /\ feeds[f].appealMaxDelay \in Int /\ HalfRange \in Nat
  BY RangeAssumption DEF RoundInfo, TypeOK, FeedInfo
<1>2. rd.end + feeds[f].appealMaxDelay < HalfRange
  BY DEF Postponable
<1>3. /\ rd.end + rd.delay \in Int
      /\ - HalfRange <= rd.end + rd.delay /\ rd.end + rd.delay < HalfRange
  BY <1>1, <1>2
<1> QED
  BY <1>3, Int64Type DEF EndAt
-----------------------------------------------------------------------------
\* Before the first transaction there is no round.
LEMMA AppealsInitInv == Init => AppealsInv
<1> SUFFICES ASSUME Init PROVE AppealsInv
  OBVIOUS
<1>1. DelayFollowsAppeals
  BY DEF Init, NoRound, HasRound, DelayFollowsAppeals
<1>2. FeedsCounted
  BY FeedsAssumption DEF Init, FeedsCounted
<1> QED
  BY <1>1, <1>2, InitTypeOK DEF AppealsInv

\* A round that has just been opened is not delayed.
LEMMA OpenRoundIsPrompt ==
  ASSUME TypeOK, NEW f \in DOMAIN feeds, NEW n \in Nat
  PROVE  LET rd == OpenRound(f, n)
         IN  /\ - HalfRange <= rd.end /\ rd.end < HalfRange
             /\ rd.delay = DelayOf(f, Cardinality(rd.appeals))
<1>1. now + feeds[f].finalizeInterval \in Int
  BY DEF TypeOK, FeedInfo
<1>2. Cardinality({}) = 0
  BY FS_EmptySet
<1> QED
  BY <1>1, <1>2, Int64Range DEF OpenRound, DelayOf

\* Steps that leave rounds and feeds alone preserve the invariant.
LEMMA QuietKeepsInv ==
  ASSUME AppealsInv, TypeOK', UNCHANGED <<round, feeds, highestFeedID>>
  PROVE  AppealsInv'
BY DEF AppealsInv, DelayFollowsAppeals, FeedsCounted, HasRound, DelayOf,
       AppealDelay, Int64

\* A new feed gets an ID of its own.
LEMMA RegisterKeepsInv ==
  ASSUME AppealsInv, TypeOK',
         NEW a \in Accounts, NEW f \in FeedIDs, NEW info \in FeedConfigs,
         NEW n \in VaultAmounts, RegisterFeed(a, f, info, n)
  PROVE  AppealsInv'
<1>1. /\ f = highestFeedID + 1 /\ highestFeedID' = highestFeedID + 1
      /\ feeds' = Store(feeds, f, info) /\ round' = round
      /\ highestFeedID \in Nat
  BY FeedsAssumption DEF RegisterFeed, AppealsInv, TypeOK, FeedIDs
<1>2. f \notin DOMAIN feeds
  BY <1>1 DEF AppealsInv, FeedsCounted
<1>3. /\ DOMAIN feeds' = DOMAIN feeds \cup {f}
      /\ \A g \in DOMAIN feeds : feeds'[g] = feeds[g]
  BY <1>1, <1>2 DEF Store
<1>4. FeedsCounted'
  <2>1. ASSUME NEW g \in DOMAIN feeds PROVE g <= highestFeedID + 1
    <3>1. g <= highestFeedID /\ g \in Int
      BY <2>1 DEF AppealsInv, FeedsCounted, TypeOK, FeedIDs
    <3> QED
      BY <1>1, <3>1
  <2> QED
    BY <1>1, <1>3, <2>1 DEF FeedsCounted
<1>5. DelayFollowsAppeals'
  <2> SUFFICES ASSUME NEW g \in FeedIDs, HasRound(g)'
               PROVE  /\ g \in DOMAIN feeds'
                      /\ - HalfRange <= round'[g].end /\ round'[g].end < HalfRange
                      /\ round'[g].delay
                           = DelayOf(g, Cardinality(round[g].appeals))'
    BY <1>1 DEF DelayFollowsAppeals
  <2>1. HasRound(g)
    BY <1>1 DEF HasRound
  <2>2. /\ g \in DOMAIN feeds
        /\ - HalfRange <= round[g].end /\ round[g].end < HalfRange
        /\ round[g].delay = DelayOf(g, Cardinality(round[g].appeals))
    BY <2>1 DEF AppealsInv, DelayFollowsAppeals
  <2>3. feeds'[g] = feeds[g] /\ g \in DOMAIN feeds'
    BY <1>3, <2>2
  <2> QED
    BY <1>1, <2>2, <2>3 DEF DelayOf, AppealDelay, Int64
<1> QED
  BY <1>4, <1>5 DEF AppealsInv

\* The current round of f is replaced by one that fits its appeals.
LEMMA RoundKeepsInv ==
  ASSUME AppealsInv, TypeOK', NEW f \in DOMAIN feeds, NEW rd \in RoundInfo,
         round' = [round EXCEPT ![f] = rd], UNCHANGED <<feeds, highestFeedID>>,
         - HalfRange <= rd.end, rd.end < HalfRange,
         rd.delay = DelayOf(f, Cardinality(rd.appeals))
  PROVE  AppealsInv'
<1>1. f \in FeedIDs /\ round \in [FeedIDs -> RoundInfo]
  BY DEF AppealsInv, TypeOK
<1>2. \A g \in FeedIDs : round'[g] = IF g = f THEN rd ELSE round[g]
  BY <1>1
<1>3. DelayFollowsAppeals'
  <2> SUFFICES ASSUME NEW g \in FeedIDs, HasRound(g)'
               PROVE  /\ g \in DOMAIN feeds
                      /\ - HalfRange <= round'[g].end /\ round'[g].end < HalfRange
                      /\ round'[g].delay
                           = DelayOf(g, Cardinality(round'[g].appeals))
    BY DEF DelayFollowsAppeals, DelayOf, AppealDelay, Int64
  <2>1. CASE g = f
    BY <1>2, <2>1
  <2>2. CASE g # f
    <3>1. HasRound(g) /\ round'[g] = round[g]
      BY <1>2, <2>2 DEF HasRound
    <3> QED
      BY <3>1 DEF AppealsInv, DelayFollowsAppeals
  <2> QED
    BY <2>1, <2>2
<1>4. FeedsCounted'
  BY DEF AppealsInv, FeedsCounted
<1> QED
  BY <1>3, <1>4 DEF AppealsInv

\* An appeal recomputes the delay from all the appeals.
LEMMA AppealShape ==
  ASSUME AppealsInv, NEW a \in Appellants, NEW f \in FeedIDs,
         AppealFeed(a, f)
  PROVE  LET rd == round'[f]
         IN  /\ f \in DOMAIN feeds /\ HasRound(f)
             /\ rd \in RoundInfo /\ round' = [round EXCEPT ![f] = rd]
             /\ rd.number = round[f].number /\ rd.end = round[f].end
             /\ rd.appeals = round[f].appeals \cup {a}
             /\ a \notin round[f].appeals
             /\ Cardinality(round[f].appeals) \in Nat
             /\ Cardinality(rd.appeals) = Cardinality(round[f].appeals) + 1
             /\ Cardinality(rd.appeals) <= Cardinality(Accounts)
             /\ rd.delay = DelayOf(f, Cardinality(rd.appeals))
<1> DEFINE appeals == round[f].appeals \cup {a}
           delay == AppealDelay(feeds[f], Cardinality(appeals))
           rd == [round[f] EXCEPT !.appeals = appeals, !.delay = delay]
<1>1. /\ f \in DOMAIN feeds /\ HasRound(f) /\ a \notin round[f].appeals
      /\ round' = [round EXCEPT ![f].appeals = appeals, ![f].delay = delay]
  BY DEF AppealFeed, CanAppeal
<1>2. round \in [FeedIDs -> RoundInfo]
  BY DEF AppealsInv, TypeOK
<1>3. round'[f] = rd /\ round' = [round EXCEPT ![f] = rd]
  <2> HIDE DEF appeals, delay
  <2> QED
    BY <1>1, <1>2
<1>4. TypeOK'
  BY AppealFeedType DEF AppealsInv
<1>5. round'[f] \in RoundInfo
  BY <1>4 DEF TypeOK
<1>6. a \in Accounts /\ round[f].appeals \subseteq Accounts
  BY <1>2, AccountsAssumption DEF RoundInfo
<1>7. IsFiniteSet(round[f].appeals)
  BY <1>6, AccountsAssumption, FS_Subset
<1>8. /\ Cardinality(round[f].appeals) \in Nat
      /\ Cardinality(appeals) = Cardinality(round[f].appeals) + 1
  BY <1>1, <1>7, FS_CardinalityType, FS_AddElement
<1>9. Cardinality(appeals) <= Cardinality(Accounts)
  <2>1. appeals \in SUBSET Accounts
    BY <1>6
  <2> QED
    BY <2>1, AccountsAssumption, FS_Subset
<1>10. round[f] \in RoundInfo
  BY <1>2
<1>11. /\ rd.number = round[f].number /\ rd.end = round[f].end
       /\ rd.appeals = appeals /\ rd.delay = delay
  <2> HIDE DEF appeals, delay
  <2> QED
    BY <1>10 DEF RoundInfo
<1>12. delay = DelayOf(f, Cardinality(appeals))
  <2>1. Cardinality(appeals) # 0
    <3> HIDE DEF appeals
    <3> QED
      BY <1>8
  <2> QED
    BY <2>1 DEF DelayOf
<1> HIDE DEF delay, rd
<1> QED
  BY <1>1, <1>3, <1>5, <1>8, <1>9, <1>11, <1>12

\* A report keeps the round, or opens the first one.
LEMMA ReportShape ==
  ASSUME AppealsInv, NEW a \in Accounts, NEW f \in FeedIDs,
         NEW r \in Rounds, NEW v \in Values, Report(a, f, r, v)
  PROVE  LET rd == CurrentRound(f)
         IN  /\ f \in DOMAIN feeds /\ rd \in RoundInfo
             /\ round' = [round EXCEPT ![f] = rd]
             /\ UNCHANGED <<feeds, highestFeedID>>
             /\ - HalfRange <= rd.end /\ rd.end < HalfRange
             /\ rd.delay = DelayOf(f, Cardinality(rd.appeals))
             /\ HasRound(f) => rd = round[f]
<1>1. /\ f \in DOMAIN feeds /\ round' = [round EXCEPT ![f] = CurrentRound(f)]
      /\ UNCHANGED <<feeds, highestFeedID>>
  BY DEF Report, Admitted
<1>2. TypeOK /\ CurrentRound(f) \in RoundInfo
  BY <1>1, CurrentRoundType DEF AppealsInv
<1>3. CASE HasRound(f)
  <2>1. CurrentRound(f) = round[f]
    BY <1>3 DEF CurrentRound
  <2> QED
    BY <1>1, <1>2, <1>3, <2>1 DEF AppealsInv, DelayFollowsAppeals
<1>4. CASE ~ HasRound(f)
  <2>1. CurrentRound(f) = OpenRound(f, 1)
    BY <1>4 DEF CurrentRound
  <2> QED
    BY <1>1, <1>2, <1>4, <2>1, OpenRoundIsPrompt
<1> QED
  BY <1>3, <1>4

\* A seal opens the next round.
LEMMA SealShape ==
  ASSUME AppealsInv, NEW a \in Accounts, NEW f \in FeedIDs,
         NEW r \in Rounds, Seal(a, f, r)
  PROVE  LET rd == OpenRound(f, r + 1)
         IN  /\ f \in DOMAIN feeds /\ rd \in RoundInfo
             /\ round' = [round EXCEPT ![f] = rd]
             /\ UNCHANGED <<feeds, highestFeedID>>
             /\ - HalfRange <= rd.end /\ rd.end < HalfRange
             /\ rd.delay = DelayOf(f, Cardinality(rd.appeals))
             /\ rd.number = r + 1
             /\ HasRound(f) => round[f].number = r
<1>1. /\ f \in DOMAIN feeds /\ round' = [round EXCEPT ![f] = OpenRound(f, r + 1)]
      /\ UNCHANGED <<feeds, highestFeedID>>
      /\ r = CurrentRound(f).number
  BY DEF Seal, Admitted
<1>2. r + 1 \in Nat
  BY FeedsAssumption DEF Rounds
<1>3. TypeOK /\ OpenRound(f, r + 1) \in RoundInfo
  BY <1>1, <1>2, CurrentRoundType DEF AppealsInv
<1>4. OpenRound(f, r + 1).number = r + 1
  BY DEF OpenRound
<1>5. HasRound(f) => round[f].number = r
  BY <1>1 DEF CurrentRound
<1> QED
  BY <1>1, <1>2, <1>3, <1>4, <1>5, OpenRoundIsPrompt

\* The round of a feed after a step: the same, one more appeal, or another
\* number.
Postponed(f) ==
  \/ round'[f] = round[f]
  \/ round'[f].number # round[f].number
  \/ \E a \in Appellants : AppealFeed(a, f)

\* The induction step, and with it what a step does to each round.
LEMMA NextAppealsInv ==
  ASSUME AppealsInv, [Next]_vars
  PROVE  /\ AppealsInv'
         /\ \A f \in FeedIDs : HasRound(f) => Postponed(f)
<1>1. TypeOK' /\ TypeOK
  BY NextTypeOK DEF AppealsInv
<1>2. round \in [FeedIDs -> RoundInfo]
  BY <1>1 DEF TypeOK
<1>3. ASSUME UNCHANGED <<round, feeds, highestFeedID>>
      PROVE  AppealsInv' /\ \A f \in FeedIDs : HasRound(f) => Postponed(f)
  BY <1>1, <1>3, QuietKeepsInv DEF Postponed
<1>4. ASSUME NEW a \in Accounts, NEW f \in FeedIDs, NEW info \in FeedConfigs,
             NEW n \in VaultAmounts, RegisterFeed(a, f, info, n)
      PROVE  AppealsInv' /\ \A g \in FeedIDs : HasRound(g) => Postponed(g)
  <2>1. round' = round
    BY <1>4 DEF RegisterFeed
  <2> QED
    BY <1>1, <1>4, <2>1, RegisterKeepsInv DEF Postponed
<1>5. ASSUME NEW a \in Accounts, NEW f \in FeedIDs, NEW r \in Rounds,
             Seal(a, f, r)
      PROVE  AppealsInv' /\ \A g \in FeedIDs : HasRound(g) => Postponed(g)
  <2> DEFINE rd == OpenRound(f, r + 1)
  <2>1. /\ f \in DOMAIN feeds /\ rd \in RoundInfo
        /\ round' = [round EXCEPT ![f] = rd]
        /\ UNCHANGED <<feeds, highestFeedID>>
        /\ - HalfRange <= rd.end /\ rd.end < HalfRange
        /\ rd.delay = DelayOf(f, Cardinality(rd.appeals))
        /\ rd.number = r + 1
        /\ HasRound(f) => round[f].number = r
    BY <1>5, SealShape
  <2> HIDE DEF rd
  <2>2. AppealsInv'
    BY <1>1, <2>1, RoundKeepsInv
  <2>3. ASSUME NEW g \in FeedIDs, HasRound(g) PROVE Postponed(g)
    <3>1. CASE g = f
      <4>1. r + 1 # r
        BY FeedsAssumption DEF Rounds
      <4> QED
        BY <1>2, <2>1, <2>3, <3>1, <4>1 DEF Postponed
    <3>2. CASE g # f
      BY <1>2, <2>1, <3>2 DEF Postponed
    <3> QED
      BY <3>1, <3>2
  <2> QED
    BY <2>2, <2>3
<1>6. ASSUME NEW a \in Accounts, NEW f \in FeedIDs, NEW r \in Rounds,
             NEW v \in Values, Report(a, f, r, v)
      PROVE  AppealsInv' /\ \A g \in FeedIDs : HasRound(g) => Postponed(g)
  <2> DEFINE rd == CurrentRound(f)
  <2>1. /\ f \in DOMAIN feeds /\ rd \in RoundInfo
        /\ round' = [round EXCEPT ![f] = rd]
        /\ UNCHANGED <<feeds, highestFeedID>>
        /\ - HalfRange <= rd.end /\ rd.end < HalfRange
        /\ rd.delay = DelayOf(f, Cardinality(rd.appeals))
        /\ HasRound(f) => rd = round[f]
    BY <1>6, ReportShape
  <2> HIDE DEF rd
  <2>2. AppealsInv'
    BY <1>1, <2>1, RoundKeepsInv
  <2>3. ASSUME NEW g \in FeedIDs, HasRound(g) PROVE round'[g] = round[g]
    BY <1>2, <2>1, <2>3
  <2> QED
    BY <2>2, <2>3 DEF Postponed
<1>7. ASSUME NEW a \in Appellants, NEW f \in FeedIDs, AppealFeed(a, f)
      PROVE  AppealsInv' /\ \A g \in FeedIDs : HasRound(g) => Postponed(g)
  <2> DEFINE rd == round'[f]
  <2>1. /\ f \in DOMAIN feeds /\ HasRound(f)
        /\ rd \in RoundInfo /\ round' = [round EXCEPT ![f] = rd]
        /\ rd.end = round[f].end
        /\ rd.delay = DelayOf(f, Cardinality(rd.appeals))
    BY <1>7, AppealShape
  <2>2. - HalfRange <= rd.end /\ rd.end < HalfRange
    BY <2>1 DEF AppealsInv, DelayFollowsAppeals
  <2>3. UNCHANGED <<feeds, highestFeedID>>
    BY <1>7 DEF AppealFeed
  <2>4. ASSUME NEW g \in FeedIDs, HasRound(g) PROVE Postponed(g)
    <3>1. CASE g = f
      BY <1>7, <3>1 DEF Postponed
    <3>2. CASE g # f
      <4>1. round'[g] = round[g]
        BY <1>2, <1>7, <3>2 DEF AppealFeed
      <4> QED
        BY <4>1 DEF Postponed
    <3> QED
      BY <3>1, <3>2
  <2> HIDE DEF rd
  <2>5. AppealsInv'
    BY <1>1, <2>1, <2>2, <2>3, RoundKeepsInv
  <2> QED
    BY <2>4, <2>5
<1>8. CASE Execute
  <2>1. ASSUME NEW a \in Accounts, NEW to \in Accounts,
               NEW n \in TransferAmounts, Transfer(a, to, n)
        PROVE  UNCHANGED <<round, feeds, highestFeedID>>
    BY <2>1 DEF Transfer
  <2>2. ASSUME NEW a \in Accounts, NEW f \in FeedIDs,
               NEW n \in FundAmounts, FundFeed(a, f, n)
        PROVE  UNCHANGED <<round, feeds, highestFeedID>>
    BY <2>2 DEF FundFeed
  <2>3. ASSUME NEW a \in Accounts, NEW f \in FeedIDs,
               NEW n \in DepositAmounts, DepositFeed(a, f, n)
        PROVE  UNCHANGED <<round, feeds, highestFeedID>>
    BY <2>3 DEF DepositFeed
  <2>4. ASSUME NEW a \in Accounts, NEW p \in Accounts,
               NEW k \in BribableKeys, NEW info \in BribeInfos,
               BribeInsert(a, k, p, info)
        PROVE  UNCHANGED <<round, feeds, highestFeedID>>
    BY <2>4 DEF BribeInsert
  <2>5. ASSUME NEW a \in Accounts, NEW k \in BribableKeys, BribeDelete(a, k)
        PROVE  UNCHANGED <<round, feeds, highestFeedID>>
    BY <2>5 DEF BribeDelete
  <2> QED
    BY <1>3, <1>4, <1>5, <1>6, <1>7, <1>8, <2>1, <2>2, <2>3, <2>4, <2>5
       DEF Execute
<1>9. CASE Panic \/ Tick \/ Restart \/ UNCHANGED vars
  <2>1. UNCHANGED <<round, feeds, highestFeedID>>
    BY <1>9 DEF Panic, Tick, Restart, vars
  <2> QED
    BY <1>3, <2>1
<1> QED
  BY <1>8, <1>9 DEF Next

\* The inductive invariant of rounds and their appeals.
THEOREM AppealsInvariant == Spec => []AppealsInv
BY AppealsInitInv, NextAppealsInv, PTL DEF Spec

\* What a step does to the end of a round whose number stays.
LEMMA EndMovesLater ==
  ASSUME AppealsInv, AppealsInv', [Next]_vars, NEW f \in DOMAIN feeds,
         HasRound(f), round'[f].number = round[f].number, Postponable(f)
  PROVE  /\ EndAt(round'[f]) >= EndAt(round[f])
         /\ EndAt(round'[f]) <= round[f].end + feeds[f].appealMaxDelay
<1> DEFINE rd == round[f]
           cap == feeds[f].appealMaxDelay
           n == Cardinality(rd.appeals)
<1>1. TypeOK /\ f \in FeedIDs
  BY DEF AppealsInv, TypeOK
<1>2. /\ rd \in RoundInfo /\ rd.end \in Int /\ cap \in Int
      /\ - HalfRange <= rd.end /\ rd.delay = DelayOf(f, n)
  BY <1>1 DEF AppealsInv, DelayFollowsAppeals, TypeOK, RoundInfo, FeedInfo
<1>3. n \in Nat /\ n <= Cardinality(Accounts)
  <2>1. rd.appeals \in SUBSET Accounts
    BY <1>2 DEF RoundInfo
  <2> QED
    BY <2>1, AccountsAssumption, FS_Subset, FS_CardinalityType
<1>4. rd.delay \in Nat /\ rd.delay <= cap
  BY <1>1, <1>2, <1>3, DelayGrows
<1>5. EndAt(rd) = rd.end + rd.delay
  BY <1>1, <1>2, <1>4, EndIsSum
<1>6. CASE round'[f] = rd
  BY <1>2, <1>4, <1>5, <1>6
<1>7. ASSUME NEW a \in Appellants, AppealFeed(a, f)
      PROVE  /\ EndAt(round'[f]) >= EndAt(rd)
             /\ EndAt(round'[f]) <= rd.end + cap
  <2> DEFINE next == round'[f]
  <2>1. /\ next \in RoundInfo /\ next.end = rd.end
        /\ Cardinality(next.appeals) = n + 1
        /\ n + 1 <= Cardinality(Accounts)
        /\ next.delay = DelayOf(f, n + 1)
    BY <1>1, <1>7, AppealShape
  <2>2. /\ next.delay \in Nat /\ rd.delay <= next.delay
        /\ next.delay <= cap
    BY <1>1, <1>2, <1>3, <2>1, DelayGrows
  <2>3. EndAt(next) = rd.end + next.delay
    BY <1>1, <1>2, <2>1, <2>2, EndIsSum
  <2> HIDE DEF rd, cap
  <2> QED
    BY <1>2, <1>4, <1>5, <2>2, <2>3
<1> QED
  BY <1>1, <1>6, <1>7, NextAppealsInv DEF Postponed

\* While a round is current, whatever anybody does, its end only moves later
\* and stays within the cap (types.go 40-57).
THEOREM AppealsPostpone == Spec => AppealsOnlyPostpone
<1> DEFINE Step(f) ==
      /\ HasRound(f) /\ round'[f].number = round[f].number
      /\ Postponable(f)
      => /\ EndAt(round'[f]) >= EndAt(round[f])
         /\ EndAt(round'[f]) <= round[f].end + feeds[f].appealMaxDelay
<1>1. AppealsInv /\ AppealsInv' /\ [Next]_vars
      => [\A f \in DOMAIN feeds : Step(f)]_vars
  <2> SUFFICES ASSUME AppealsInv, AppealsInv', [Next]_vars,
                      NEW f \in DOMAIN feeds
               PROVE  Step(f)
    OBVIOUS
  <2> QED
    BY EndMovesLater
<1> QED
  BY <1>1, AppealsInvariant, PTL DEF Spec, AppealsOnlyPostpone
=============================================================================
