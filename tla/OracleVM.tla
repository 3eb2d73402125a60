------------------------------ MODULE OracleVM ------------------------------
(***************************************************************************)
(* The oracle virtual machine: the state the actions of actions/*.go keep  *)
(* in the key-value store of storage/storage.go, and one action of Next    *)
(* per transaction handler.                                                *)
(*                                                                         *)
(* A transaction whose handler returns an error leaves the store as it     *)
(* was, which is a stuttering step; the guards below are the conditions    *)
(* under which a handler returns no error.  A handler that dereferences a  *)
(* nil pointer takes the process down before anything is stored: those are *)
(* the actions named ...Panics.                                            *)
(***************************************************************************)
EXTENDS Plurality, Tokens

CONSTANTS
  Accounts,         \* the addresses that issue transactions
  Genesis,          \* the balance records at the start
  MaxFeedID,        \* bound: the feed IDs are 0 .. MaxFeedID
  StoredFeeds,      \* the feeds the store holds at the start, by ID
  FeedConfigs,      \* the configurations RegisterFeed may be given
  NoValue,          \* "no result is stored"
  UnreadableValues, \* bribe values that can be written but not read back
  TransferAmounts, VaultAmounts, FundAmounts, DepositAmounts, BribeAmounts,
  Appellants,       \* the addresses that issue AppealFeed
  Recipients,       \* the reporters somebody tries to bribe
  MaxRound,         \* bound: the rounds are 1 .. MaxRound
  MaxTime,          \* bound: block timestamps are 0 .. MaxTime
  HalfRange         \* int64 has the values - HalfRange .. HalfRange - 1

FeedIDs == 0 .. MaxFeedID
Rounds  == 1 .. MaxRound

BinaryAggregatorProgramID == 0

\* The part of a RegisterFeed action that later handlers read back.
FeedInfo == [rewardPerRound : Nat, minDeposit : Nat, appealFee : Nat,
             appealEffect : Int, appealMaxDelay : Int,
             finalizeInterval : Int, programID : Nat]

RoundInfo == [number : Nat, end : Int, delay : Int,
              appeals : SUBSET Accounts]

Bribe == [amount : Nat, value : Values \cup UnreadableValues]

ASSUME AccountsAssumption ==
  /\ IsFiniteSet(Accounts)
  /\ IsLedger(Genesis, Accounts)
  /\ Appellants \subseteq Accounts
  /\ Recipients \subseteq Accounts

ASSUME FeedsAssumption ==
  /\ MaxFeedID \in Nat
  /\ MaxRound \in Nat \ {0}
  /\ MaxTime \in Nat
  /\ FeedConfigs \subseteq FeedInfo
  /\ DOMAIN StoredFeeds \subseteq {0}      \* none has been registered yet
  /\ StoredFeeds \in [DOMAIN StoredFeeds -> FeedInfo]

ASSUME RangeAssumption == HalfRange \in Nat \ {0}

ASSUME AmountsAssumption ==
  TransferAmounts \cup VaultAmounts \cup FundAmounts \cup DepositAmounts
    \cup BribeAmounts \subseteq Nat

ASSUME ValuesAssumption == NoValue \notin Values

VARIABLES
  balance,        \* balance records
  highestFeedID,  \* the ID of the last registered feed, 0 if none
  feeds,          \* feed ID -> FeedInfo, defined on the feeds that exist
  vault,          \* feed ID -> reward vault
  deposit,        \* <<feed, account>> -> deposit
  round,          \* feed ID -> RoundInfo of the current round
  reports,        \* <<feed, round>> -> reports by listed reporter
  results,        \* <<feed, round>> -> published result
  bribes,         \* <<feed, recipient, round>> -> offers by provider
  now,            \* timestamp of the block being executed
  crashed         \* a handler has panicked and the process is down

vars == <<balance, highestFeedID, feeds, vault, deposit, round, reports,
          results, bribes, now, crashed>>
-----------------------------------------------------------------------------
\* No round is stored: rounds are numbered from 1.
NoRound == [number |-> 0, end |-> 0, delay |-> 0, appeals |-> {}]

HasRound(f) == round[f].number # 0

\* Sums and products of int64 wrap around.
Int64(n) == ((n + HalfRange) % (2 * HalfRange)) - HalfRange

OpenRound(f, n) == [number |-> n,
                    end |-> Int64(now + feeds[f].finalizeInterval),
                    delay |-> 0, appeals |-> {}]

EndAt(rd) == Int64(rd.end + rd.delay)

\* The first report of a feed opens its round 1.
CurrentRound(f) == IF HasRound(f) THEN round[f] ELSE OpenRound(f, 1)

BribeKeys == FeedIDs \X Accounts \X Rounds

\* The offers under a key; there may be no such key in the store.
Offers(k) == IF k \in DOMAIN bribes THEN bribes[k] ELSE [p \in {} |-> NoValue]

\* One offer that cannot be decoded makes the whole list unreadable.
Readable(offers) == \A p \in DOMAIN offers : offers[p].value \in Values

Amounts(offers) == [p \in DOMAIN offers |-> offers[p].amount]
-----------------------------------------------------------------------------
Init ==
  /\ balance = Genesis
  /\ highestFeedID = 0
  /\ feeds = StoredFeeds
  /\ vault = [f \in FeedIDs |-> 0]
  /\ deposit = [fa \in FeedIDs \X Accounts |-> 0]
  /\ round = [f \in FeedIDs |-> NoRound]
  /\ reports = [fr \in FeedIDs \X Rounds |-> [a \in {} |-> NoValue]]
  /\ results = [fr \in FeedIDs \X Rounds |-> NoValue]
  /\ bribes = [k \in {} |-> NoValue]
  /\ now = 0
  /\ crashed = FALSE

\* The transaction runs in a live process and panics nowhere.
Completes == ~ crashed /\ UNCHANGED crashed

Transfer(a, to, n) ==
  /\ Completes
  /\ n > 0
  /\ CanSub(balance, a, n)
  /\ balance' = AddBalance(SubBalance(balance, a, n), to, n)
  /\ UNCHANGED <<highestFeedID, feeds, vault, deposit, round, reports,
                 results, bribes, now>>

RegisterFeed(a, f, info, n) ==
  /\ Completes
  /\ f = highestFeedID + 1
  /\ CanSub(balance, a, n)
  /\ feeds' = Store(feeds, f, info)
  /\ highestFeedID' = highestFeedID + 1
  /\ balance' = SubBalance(balance, a, n)
  /\ vault' = [vault EXCEPT ![f] = n]
  /\ UNCHANGED <<deposit, round, reports, results, bribes, now>>

\* The feed is not looked up: 0 is accepted once any feed is registered.
FundFeed(a, f, n) ==
  /\ Completes
  /\ highestFeedID # 0 /\ f <= highestFeedID
  /\ CanSub(balance, a, n)
  /\ balance' = SubBalance(balance, a, n)
  /\ vault' = [vault EXCEPT ![f] = @ + n]
  /\ UNCHANGED <<highestFeedID, feeds, deposit, round, reports, results,
                 bribes, now>>

\* The deposit is set, not added to: an earlier one is lost.
DepositFeed(a, f, n) ==
  /\ Completes
  /\ f \in DOMAIN feeds
  /\ CanSub(balance, a, n)
  /\ balance' = SubBalance(balance, a, n)
  /\ deposit' = [deposit EXCEPT ![<<f, a>>] = n]
  /\ UNCHANGED <<highestFeedID, feeds, vault, round, reports, results,
                 bribes, now>>
-----------------------------------------------------------------------------
(***************************************************************************)
(* ReportFeed.  The handler first admits the report, then either seals an  *)
(* expired round or counts the report into an open one.                    *)
(***************************************************************************)
\* A variant of the admission with a mistake: any round will do.
AdmittedAnyRound(a, f, r) ==
  f \in DOMAIN feeds /\ deposit[<<f, a>>] >= feeds[f].minDeposit

Admitted(a, f, r) ==
  /\ f \in DOMAIN feeds
  /\ r = CurrentRound(f).number
  /\ deposit[<<f, a>>] >= feeds[f].minDeposit

Expired(f) == now > EndAt(CurrentRound(f))

\* A variant with a mistake: an actor who is benign gets one share only.
PayOnce(ledger, actor, benign, share) ==
  [x \in DOMAIN ledger \cup benign \cup {actor} |->
     GetBalance(ledger, x) + (IF x \in benign \cup {actor} THEN share ELSE 0)]

\* Every benign reporter gets a share, the sealing actor one more.
PayShares(ledger, actor, benign, share) ==
  [x \in DOMAIN ledger \cup benign \cup {actor} |->
     GetBalance(ledger, x) + (IF x = actor THEN share ELSE 0)
                           + (IF x \in benign THEN share ELSE 0)]

\* The code passes the feed's ID where the aggregator's ID is expected.
CanAggregateToSeal(f) == f = BinaryAggregatorProgramID

CanPayReward(f) == feeds[f].rewardPerRound <= vault[f]

Seal(a, f, r) ==
  /\ Completes
  /\ Admitted(a, f, r)
  /\ Expired(f)
  /\ CanAggregateToSeal(f)
  /\ CanPayReward(f)
  /\ r < MaxRound
  /\ \E majority \in Values :
       LET ballot    == reports[<<f, r>>]
           benign    == Supporters(ballot, majority)
           malicious == DOMAIN ballot \ benign
           total     == feeds[f].rewardPerRound
                          + SumOf([x \in malicious |-> deposit[<<f, x>>]])
           shares    == Cardinality(benign) + 1
           share     == total \div shares
           left      == total - share * shares
       IN  /\ IsMajority(Tally(ballot), majority)
           /\ vault' = [vault EXCEPT ![f] = @ - feeds[f].rewardPerRound + left]
           /\ deposit' = [fx \in DOMAIN deposit |->
                            IF fx[1] = f /\ fx[2] \in malicious
                            THEN 0 ELSE deposit[fx]]
           /\ balance' = PayShares(balance, a, benign, share)
           /\ results' = [results EXCEPT ![<<f, r>>] = majority]
  /\ round' = [round EXCEPT ![f] = OpenRound(f, r + 1)]
  /\ UNCHANGED <<highestFeedID, feeds, reports, bribes, now>>

\* The tally an open round decides on: the stored reports, an older one of
\* the same reporter included, and the report at hand.
TallyWith(f, r, v) == CountIn(Tally(reports[<<f, r>>]), v)

\* A variant with a mistake: one of the fulfilled offers is paid.
PaymentOfOne(offers, fulfilled) ==
  CHOOSE n \in {offers[p].amount : p \in fulfilled} : TRUE

\* What the reporter gets: the amounts of all offers that are fulfilled.
Payment(offers, fulfilled) == SumOf(Amounts(Restrict(offers, fulfilled)))

CanAggregate(f) == feeds[f].programID = BinaryAggregatorProgramID

Report(a, f, r, v) ==
  /\ Completes
  /\ Admitted(a, f, r)
  /\ ~ Expired(f)
  /\ CanAggregate(f)
  /\ \E majority \in Values :
       /\ IsMajority(TallyWith(f, r, v), majority)
       /\ results' = [results EXCEPT ![<<f, r>>] = majority]
  /\ LET k         == <<f, a, r>>
         offers    == Offers(k)
         fulfilled == {p \in DOMAIN offers : offers[p].value = v}
     IN  /\ Readable(offers)
         /\ balance' = IF fulfilled = {} THEN balance
                       ELSE AddBalance(balance, a, Payment(offers, fulfilled))
         /\ bribes' = Store(bribes, k, Restrict(offers, DOMAIN offers \ fulfilled))
  /\ reports' = [reports EXCEPT ![<<f, r>>] = Store(@, a, v)]
  /\ round' = [round EXCEPT ![f] = CurrentRound(f)]
  /\ UNCHANGED <<highestFeedID, feeds, vault, deposit, now>>

\* Without a majority the handler uses a nil report.
SealPanics(a, f, r) ==
  /\ Admitted(a, f, r)
  /\ Expired(f)
  /\ CanAggregateToSeal(f)
  /\ CanPayReward(f)
  /\ Undecided(Tally(reports[<<f, r>>]))

ReportPanics(a, f, r, v) ==
  /\ Admitted(a, f, r)
  /\ ~ Expired(f)
  /\ CanAggregate(f)
  /\ Undecided(TallyWith(f, r, v))
-----------------------------------------------------------------------------
(***************************************************************************)
(* AppealFeed.                                                             *)
(***************************************************************************)
CanAppeal(a, f) ==
  /\ f <= highestFeedID
  /\ f \in DOMAIN feeds
  /\ CanSub(balance, a, feeds[f].appealFee)

\* A variant with a mistake: the cap is forgotten.
UncappedDelay(info, n) == Int64(info.appealEffect * n)

\* The delay of n appeals, capped.
AppealDelay(info, n) ==
  LET delay == Int64(info.appealEffect * n)
  IN  IF delay > info.appealMaxDelay THEN info.appealMaxDelay ELSE delay

AppealFeed(a, f) ==
  /\ Completes
  /\ CanAppeal(a, f)
  /\ HasRound(f)
  /\ a \notin round[f].appeals
  /\ balance' = SubBalance(balance, a, feeds[f].appealFee)
  /\ vault' = [vault EXCEPT ![f] = @ + feeds[f].appealFee]
  /\ LET appeals == round[f].appeals \cup {a}
     IN  round' = [round EXCEPT
                     ![f].appeals = appeals,
                     ![f].delay = AppealDelay(feeds[f], Cardinality(appeals))]
  /\ UNCHANGED <<highestFeedID, feeds, deposit, reports, results, bribes,
                 now>>

AppealPanics(a, f) == CanAppeal(a, f) /\ ~ HasRound(f)
-----------------------------------------------------------------------------
(***************************************************************************)
(* BribeFeed, with its two opcodes.  Whoever inserts pays; the offer is    *)
(* filed under the provider the transaction names.                         *)
(***************************************************************************)
\* A variant with a mistake: a second offer of a provider is accepted.
CanOfferAgain(k, provider) == Readable(Offers(k))

CanOffer(k, provider) ==
  Readable(Offers(k)) /\ provider \notin DOMAIN Offers(k)

BribeInsert(a, k, provider, info) ==
  /\ Completes
  /\ HasRound(k[1])
  /\ round[k[1]].number <= k[3]
  /\ CanSub(balance, a, info.amount)
  /\ CanOffer(k, provider)
  /\ balance' = SubBalance(balance, a, info.amount)
  /\ bribes' = Store(bribes, k, Store(Offers(k), provider, info))
  /\ UNCHANGED <<highestFeedID, feeds, vault, deposit, round, reports,
                 results, now>>

BribeInsertPanics(k) == ~ HasRound(k[1])

BribeDelete(a, k) ==
  /\ Completes
  /\ k \in DOMAIN bribes
  /\ Readable(bribes[k])
  /\ a \in DOMAIN bribes[k]
  /\ balance' = AddBalance(balance, a, bribes[k][a].amount)
  /\ bribes' = [bribes EXCEPT ![k] = Restrict(@, DOMAIN @ \ {a})]
  /\ UNCHANGED <<highestFeedID, feeds, vault, deposit, round, reports,
                 results, now>>

BribeDeletePanics(k) == k \notin DOMAIN bribes
-----------------------------------------------------------------------------
Tick ==
  /\ Completes
  /\ now < MaxTime
  /\ now' = now + 1
  /\ UNCHANGED <<balance, highestFeedID, feeds, vault, deposit, round,
                 reports, results, bribes>>

BribableKeys == FeedIDs \X Recipients \X Rounds

BribeInfos == [amount : BribeAmounts, value : Values \cup UnreadableValues]

Panic ==
  /\ ~ crashed
  /\ \/ \E a \in Accounts, f \in FeedIDs, r \in Rounds :
          \/ SealPanics(a, f, r)
          \/ \E v \in Values : ReportPanics(a, f, r, v)
     \/ \E a \in Appellants, f \in FeedIDs : AppealPanics(a, f)
     \/ \E k \in BribableKeys : BribeInsertPanics(k) \/ BribeDeletePanics(k)
  /\ crashed' = TRUE
  /\ UNCHANGED <<balance, highestFeedID, feeds, vault, deposit, round,
                 reports, results, bribes, now>>

\* The process starts again from the store, where nothing was written.
Restart ==
  /\ crashed
  /\ crashed' = FALSE
  /\ UNCHANGED <<balance, highestFeedID, feeds, vault, deposit, round,
                 reports, results, bribes, now>>

Execute ==
  \/ \E a, to \in Accounts, n \in TransferAmounts : Transfer(a, to, n)
  \/ \E a \in Accounts, f \in FeedIDs, info \in FeedConfigs,
        n \in VaultAmounts : RegisterFeed(a, f, info, n)
  \/ \E a \in Accounts, f \in FeedIDs, n \in FundAmounts : FundFeed(a, f, n)
  \/ \E a \in Accounts, f \in FeedIDs, n \in DepositAmounts :
        DepositFeed(a, f, n)
  \/ \E a \in Accounts, f \in FeedIDs, r \in Rounds : Seal(a, f, r)
  \/ \E a \in Accounts, f \in FeedIDs, r \in Rounds, v \in Values :
        Report(a, f, r, v)
  \/ \E a \in Appellants, f \in FeedIDs : AppealFeed(a, f)
  \/ \E a, p \in Accounts, k \in BribableKeys, info \in BribeInfos :
        BribeInsert(a, k, p, info)
  \/ \E a \in Accounts, k \in BribableKeys : BribeDelete(a, k)

Next == Execute \/ Panic \/ Tick \/ Restart

Spec == Init /\ [][Next]_vars
-----------------------------------------------------------------------------
(***************************************************************************)
(* Properties.                                                             *)
(***************************************************************************)

\* Type invariant: what the keys of storage.go can hold.
TypeOK ==
  /\ IsLedger(balance, Accounts)
  /\ highestFeedID \in FeedIDs
  /\ DOMAIN feeds \subseteq FeedIDs
  /\ feeds \in [DOMAIN feeds -> FeedInfo]
  /\ vault \in [FeedIDs -> Nat]
  /\ deposit \in [FeedIDs \X Accounts -> Nat]
  /\ round \in [FeedIDs -> RoundInfo]
  /\ DOMAIN reports = FeedIDs \X Rounds
  /\ \A fr \in FeedIDs \X Rounds :
       /\ DOMAIN reports[fr] \subseteq Accounts
       /\ reports[fr] \in [DOMAIN reports[fr] -> Values]
  /\ results \in [FeedIDs \X Rounds -> Values \cup {NoValue}]
  /\ DOMAIN bribes \subseteq BribeKeys
  /\ \A k \in DOMAIN bribes :
       /\ DOMAIN bribes[k] \subseteq Accounts
       /\ bribes[k] \in [DOMAIN bribes[k] -> Bribe]
  /\ now \in Nat
  /\ crashed \in BOOLEAN

\* The result a feed shows is never one that the reports on file contradict:
\* no other value has more reports, although an open round counts a report
\* that replaces an older one of the same reporter together with that older
\* one (report_feed.go 230-253), and a round has a result exactly when it
\* has reports.
PublishedLeads ==
  \A f \in FeedIDs, r \in Rounds :
    IF DOMAIN reports[<<f, r>>] = {}
    THEN results[<<f, r>>] = NoValue
    ELSE /\ results[<<f, r>>] \in Values
         /\ Leads(Tally(reports[<<f, r>>]), results[<<f, r>>])

\* Nobody reports into a round before it is open: what is on file belongs to
\* the current round or an earlier one (report_feed.go 84-99).
NoReportsAhead ==
  \A f \in FeedIDs, r \in Rounds :
    r > round[f].number => DOMAIN reports[<<f, r>>] = {}

\* Once a feed has moved on to a later round, nothing a transaction does
\* changes the result or the reports of the earlier ones: the round number
\* in a ReportFeed (report_feed.go 97-99) is all that keeps a late report
\* out.
SealedRoundsAreFinal ==
  [][\A f \in FeedIDs, r \in Rounds :
       r < round[f].number => /\ results'[<<f, r>>] = results[<<f, r>>]
                              /\ reports'[<<f, r>>] = reports[<<f, r>>]]_vars

Sealed(f) == HasRound(f) /\ round'[f].number # round[f].number

\* Sealing takes exactly the deposits of the reporters who contradict the
\* result that was already public before the seal, although the handler
\* decides who is malicious from a count of its own (report_feed.go
\* 145-175): nobody loses a deposit to a majority that was never shown, and
\* nobody who contradicts the result keeps it.
SlashingFollowsPublished ==
  [][\A f \in FeedIDs : Sealed(f) =>
       LET ballot == reports[<<f, round[f].number>>]
           shown  == results[<<f, round[f].number>>]
       IN  \A a \in Accounts :
             deposit'[<<f, a>>] =
               IF a \in DOMAIN ballot \ Supporters(ballot, shown)
               THEN 0 ELSE deposit[<<f, a>>]]_vars

\* The tokens in balances, vaults, deposits and bribes together.
Escrow ==
  SumOf([kp \in UNION {{k} \X DOMAIN bribes[k] : k \in DOMAIN bribes} |->
           bribes[kp[1]][kp[2]].amount])

Supply == SumOf(balance) + SumOf(vault) + SumOf(deposit) + Escrow

\* No handler makes tokens, the division of a reward and the collection of
\* deposits in a seal included (report_feed.go 161-190); tokens disappear
\* only when an account deposits again into a feed where it already has a
\* deposit, which is overwritten (deposit_feed.go 71), and then exactly that
\* much.
OnlyRedepositsBurn ==
  [][\/ Supply' = Supply
     \/ \E f \in FeedIDs, a \in Accounts :
          /\ deposit[<<f, a>>] > 0
          /\ UNCHANGED <<vault, bribes, round>>
          /\ GetBalance(balance', a) + deposit'[<<f, a>>] = GetBalance(balance, a)
          /\ Supply' = Supply - deposit[<<f, a>>]]_vars

\* The additions that the code does not check for an overflow, of a payment
\* to a vault (fund_feed.go 59) and of collected deposits to a reward that a
\* vault covers (report_feed.go 174), yield no more than all the tokens of
\* the genesis, which fit: whatever was paid out before, an account and a
\* vault never hold more together, nor do a vault and all its deposits.
UncheckedSumsFit ==
  \A f \in FeedIDs :
    /\ \A a \in Accounts : vault[f] + GetBalance(balance, a) <= SumOf(Genesis)
    /\ vault[f] + SumOf([a \in Accounts |-> deposit[<<f, a>>]]) <= SumOf(Genesis)

\* What RegisterFeed does not check of a configuration: effect and cap are
\* not negative, and with them the latest end of the round is an int64.
Postponable(f) ==
  /\ feeds[f].appealEffect >= 0 /\ feeds[f].appealMaxDelay >= 0
  /\ feeds[f].appealEffect * Cardinality(Accounts) < HalfRange
  /\ round[f].end + feeds[f].appealMaxDelay < HalfRange

\* While a round is current its end only moves later, and all the appeals
\* together move it by no more than the cap of the feed, as long as the
\* sums and products of types.go 40-57 do not leave int64.
AppealsOnlyPostpone ==
  [][\A f \in DOMAIN feeds :
       /\ HasRound(f) /\ round'[f].number = round[f].number
       /\ Postponable(f)
       => /\ EndAt(round'[f]) >= EndAt(round[f])
          /\ EndAt(round'[f]) <= round[f].end + feeds[f].appealMaxDelay]_vars

\* What a step adds to the balance of an account.
Gains(a) == GetBalance(balance', a) - GetBalance(balance, a)

\* The offers under a key that a step takes out of the store.
Cleared(k) == DOMAIN bribes[k] \ DOMAIN bribes'[k]

\* The recipient of the bribes under k has reported v into their round.
HasReported(k, v) ==
  LET ballot == reports[<<k[1], k[3]>>]
  IN  k[2] \in DOMAIN ballot /\ ballot[k[2]] = v

\* The offers under a key that ask for a report of v.
OffersFor(k, v) == {p \in DOMAIN bribes[k] : bribes[k][p].value = v}

\* The recipient, whose report on file is the wanted one, gains the sum of
\* all the offers that are gone.
PaidToReporter(k) ==
  \E v \in Values :
    /\ HasReported(k, v)'
    /\ Cleared(k) \subseteq OffersFor(k, v)
    /\ Gains(k[2]) = SumOf(Amounts(Restrict(bribes[k], Cleared(k))))

\* One offer is gone, and the provider it was filed under has its amount.
GivenBack(k) ==
  \E p \in Cleared(k) : Cleared(k) = {p} /\ Gains(p) = bribes[k][p].amount

\* Under the key nothing is altered, what is gone is paid, and a report that
\* is new or other than the one before leaves no offer for its value behind.
Settled(k) ==
  /\ k \in DOMAIN bribes'
  /\ \A p \in DOMAIN bribes[k] \ Cleared(k) : bribes'[k][p] = bribes[k][p]
  /\ Cleared(k) = {} \/ PaidToReporter(k) \/ GivenBack(k)
  /\ \A v \in Values : HasReported(k, v)' /\ ~ HasReported(k, v)
                         => OffersFor(k, v) \subseteq Cleared(k)

\* The offers under a key leave the store only to be paid, exactly: those
\* for one value together to the recipient, who then has the wanted report
\* on file for that round, or a single one back to the provider it is filed
\* under; and they leave it at the latest when the recipient turns to the
\* value they ask for (report_feed.go 271-293, bribe_feed.go 91-98).  This
\* is so for any number of providers, and with withdrawals, although the
\* comment at bribe_feed.go 36-37 says that only one provider works and that
\* withdrawal is not implemented.
BribesAreSettled == [][\A k \in DOMAIN bribes : Settled(k)]_vars

\* The rounds and results of the virtual machine behave as RoundLifecycle
\* says: a seal (report_feed.go 110-217) publishes the result that open
\* reports had published before it.
Lifecycle == INSTANCE RoundLifecycle
               WITH Feeds <- FeedIDs,
                    number <- [f \in FeedIDs |-> round[f].number],
                    published <- results

ImplementsLifecycle == Lifecycle!LifecycleSpec
=============================================================================
