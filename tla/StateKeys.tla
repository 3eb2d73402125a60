----------------------------- MODULE StateKeys -----------------------------
(***************************************************************************)
(* The keys of the store that each handler declares in its StateKeys, with *)
(* the permissions it asks for, and the keys its Execute touches in a      *)
(* given state.  A permission is a pair of a key and "read", "write" (of a *)
(* key that is there) or "allocate" (needed to write one that is not).     *)
(*                                                                         *)
(* The virtual machine of OracleVM gives every handler all permissions, as *)
(* the unit tests do; hypersdk, which executes transactions in parallel,   *)
(* fails a transaction that touches what it has not declared.  Whoever     *)
(* issues a transaction also pays its fee, and the balances are the ones   *)
(* that are left after it.                                                 *)
(***************************************************************************)
EXTENDS OracleVM

FeedIDKey           == <<"highest">>
BalanceKey(a)       == <<"balance", a>>
FeedKey(f)          == <<"feed", f>>
FeedRoundKey(f)     == <<"round", f>>
ReportIndexKey(f, r) == <<"reporters", f, r>>
ReportKey(f, r, a)  == <<"report", f, r, a>>
FeedResultKey(f, r) == <<"result", f, r>>
FeedDepositKey(f, a) == <<"deposit", f, a>>
FeedRewardVaultKey(f) == <<"vault", f>>
FeedBribeKey(k)     == <<"bribes", k[1], k[2], k[3]>>

All       == {"read", "write", "allocate"}
ReadWrite == {"read", "write"}

\* Reading the values of some keys.
Reads(keys) == keys \X {"read"}

\* Reading the value of a key and writing it back; it may be missing.
Updates(key, present) == {key} \X (IF present THEN ReadWrite ELSE All)

\* Writing a value without looking at the old one.
Writes(key, present) ==
  {key} \X (IF present THEN {"write"} ELSE {"write", "allocate"})
-----------------------------------------------------------------------------
SponsorStateKeys(a) == {BalanceKey(a)} \X ReadWrite

\* A variant with a mistake: the entries of the map in the other order.
TransferStateKeysSwapped(a, to) ==
  ({BalanceKey(to)} \ {BalanceKey(a)}) \X All \cup {BalanceKey(a)} \X ReadWrite

\* Of two entries for one key in a map the later one counts.
TransferStateKeys(a, to) ==
  ({BalanceKey(a)} \ {BalanceKey(to)}) \X ReadWrite \cup {BalanceKey(to)} \X All

RegisterFeedStateKeys(f) ==
  {FeedIDKey, FeedKey(f), FeedRewardVaultKey(f)} \X All

FundFeedStateKeys(f) ==
  {FeedIDKey} \X All \cup {FeedRewardVaultKey(f)} \X ReadWrite

DepositFeedStateKeys(a, f) ==
  Reads({FeedKey(f)}) \cup {FeedDepositKey(f, a)} \X All
    \cup {BalanceKey(a)} \X ReadWrite

ReportFeedStateKeys(a, f, r) ==
  Reads({FeedKey(f), FeedDepositKey(f, a)})
    \cup {FeedRewardVaultKey(f)} \X ReadWrite
    \cup {ReportIndexKey(f, r), ReportKey(f, r, a), BalanceKey(a)} \X All

AppealFeedStateKeys(a, f) ==
  Reads({FeedKey(f)})
    \cup {BalanceKey(a), FeedRoundKey(f), FeedRewardVaultKey(f)} \X ReadWrite

\* A variant with a mistake: the first bribe cannot be written.
BribeFeedStateKeysNoAllocate(a, k) ==
  Reads({FeedRoundKey(k[1])})
    \cup {FeedBribeKey(k), BalanceKey(a)} \X ReadWrite

BribeFeedStateKeys(a, k) ==
  Reads({FeedRoundKey(k[1])})
    \cup {FeedBribeKey(k)} \X All \cup {BalanceKey(a)} \X ReadWrite
-----------------------------------------------------------------------------
(***************************************************************************)
(* What the functions of storage.go need of the keys they touch.  They     *)
(* have the names they have there, except for the two that Tokens models.  *)
(***************************************************************************)
AddToBalance(a, ledger) == Updates(BalanceKey(a), a \in DOMAIN ledger)

SubFromBalance(a) == Updates(BalanceKey(a), TRUE)

GetHighestFeedID == Reads({FeedIDKey})

IncrementFeedID == Updates(FeedIDKey, highestFeedID # 0)

GetFeed(f) == Reads({FeedKey(f)})

SetFeed(f) == Writes(FeedKey(f), f \in DOMAIN feeds)

GetFeedRound(f) == Reads({FeedRoundKey(f)})

SetFeedRound(f) == Writes(FeedRoundKey(f), HasRound(f))

GetReportAddresses(f, r) == Reads({ReportIndexKey(f, r)})

SetReportAddresses(f, r) ==
  Writes(ReportIndexKey(f, r), DOMAIN reports[<<f, r>>] # {})

GetReport(f, r, a) == Reads({ReportKey(f, r, a)})

SetReport(f, r, a) == Writes(ReportKey(f, r, a), a \in DOMAIN reports[<<f, r>>])

SetFeedResult(f, r) == Writes(FeedResultKey(f, r), results[<<f, r>>] # NoValue)

\* A deposit or a vault that holds nothing may or may not have a record.
GetFeedDeposit(f, a) == Reads({FeedDepositKey(f, a)})

SetFeedDeposit(f, a) == Writes(FeedDepositKey(f, a), deposit[<<f, a>>] > 0)

RemoveFeedDeposit(f, a) == Updates(FeedDepositKey(f, a), deposit[<<f, a>>] > 0)

GetFeedRewardVault(f) == Reads({FeedRewardVaultKey(f)})

SetFeedRewardVault(f) == Writes(FeedRewardVaultKey(f), vault[f] > 0)

\* The vault holds n tokens when more are added.
AddFeedRewardVault(f, n) == Updates(FeedRewardVaultKey(f), n > 0)

SubFeedRewardVault(f) == Updates(FeedRewardVaultKey(f), TRUE)

GetFeedBribes(k) == Reads({FeedBribeKey(k)})

SetFeedBribes(k) == Writes(FeedBribeKey(k), k \in DOMAIN bribes)

AddFeedBribe(k) == Updates(FeedBribeKey(k), k \in DOMAIN bribes)

RemoveFeedBribe(k) == Updates(FeedBribeKey(k), TRUE)
-----------------------------------------------------------------------------
(***************************************************************************)
(* What the handlers touch.                                                *)
(***************************************************************************)
TransferTouches(a, to, n) ==
  SubFromBalance(a) \cup AddToBalance(to, SubBalance(balance, a, n))

RegisterFeedTouches(a, f) ==
  GetHighestFeedID \cup SetFeed(f) \cup IncrementFeedID
    \cup SubFromBalance(a) \cup SetFeedRewardVault(f)

FundFeedTouches(a, f) ==
  GetHighestFeedID \cup SubFromBalance(a)
    \cup GetFeedRewardVault(f) \cup SetFeedRewardVault(f)

DepositFeedTouches(a, f) ==
  GetFeed(f) \cup SubFromBalance(a) \cup SetFeedDeposit(f, a)

\* Up to the reports on file, which are read whether the report seals the
\* round or is counted in it.
AdmissionTouches(a, f, r) ==
  GetFeed(f) \cup GetFeedRound(f)
    \cup (IF HasRound(f) THEN {} ELSE SetFeedRound(f))
    \cup GetFeedDeposit(f, a) \cup GetReportAddresses(f, r)
    \cup UNION {GetReport(f, r, x) : x \in DOMAIN reports[<<f, r>>]}

SealTouches(a, f, r) ==
  LET ballot == reports[<<f, r>>]
      benign == Supporters(ballot, results'[<<f, r>>])
      kept   == vault[f] - feeds[f].rewardPerRound
  IN  AdmissionTouches(a, f, r) \cup SubFeedRewardVault(f)
        \cup UNION {RemoveFeedDeposit(f, x) : x \in DOMAIN ballot \ benign}
        \cup UNION {AddToBalance(x, balance) : x \in benign \cup {a}}
        \cup (IF vault'[f] = kept THEN {} ELSE AddFeedRewardVault(f, kept))
        \cup SetFeedRound(f) \cup SetFeedResult(f, r)

ReportTouches(a, f, r, v) ==
  LET k         == <<f, a, r>>
      fulfilled == {p \in DOMAIN Offers(k) : Offers(k)[p].value = v}
  IN  AdmissionTouches(a, f, r) \cup SetFeedResult(f, r)
        \cup GetFeedBribes(k)
        \cup (IF fulfilled = {} THEN {} ELSE AddToBalance(a, balance))
        \cup SetFeedBribes(k)
        \cup SetReportAddresses(f, r) \cup SetReport(f, r, a)

AppealFeedTouches(a, f) ==
  GetHighestFeedID \cup GetFeed(f)
    \cup SubFromBalance(a) \cup AddFeedRewardVault(f, vault[f])
    \cup GetFeedRound(f) \cup SetFeedRound(f)

BribeInsertTouches(a, k) ==
  GetFeedRound(k[1]) \cup SubFromBalance(a) \cup AddFeedBribe(k)

BribeDeleteTouches(a, k) == RemoveFeedBribe(k) \cup AddToBalance(a, balance)
-----------------------------------------------------------------------------
\* What is touched without a declaration, of the action or for its fee.
Lacks(touched, declared, a) == touched \ (declared \cup SponsorStateKeys(a))

\* Registrations, deposits and offers touch declared keys only.  A vault that
\* holds nothing cannot be allocated by whoever funds it (fund_feed.go 31),
\* nor the balance record of a provider by a refund when it is gone
\* (bribe_feed.go 54, 96).
CallsFindTheirKeys ==
  /\ \A a \in Accounts, f \in FeedIDs, info \in FeedConfigs,
        n \in VaultAmounts :
       RegisterFeed(a, f, info, n) =>
         Lacks(RegisterFeedTouches(a, f), RegisterFeedStateKeys(f), a) = {}
  /\ \A a \in Accounts, f \in FeedIDs, n \in FundAmounts :
       FundFeed(a, f, n) =>
         Lacks(FundFeedTouches(a, f), FundFeedStateKeys(f), a)
           \subseteq {<<FeedRewardVaultKey(g), "allocate">> :
                        g \in {h \in FeedIDs : vault[h] = 0}}
  /\ \A a \in Accounts, f \in FeedIDs, n \in DepositAmounts :
       DepositFeed(a, f, n) =>
         Lacks(DepositFeedTouches(a, f), DepositFeedStateKeys(a, f), a) = {}
  /\ \A a, p \in Accounts, k \in BribableKeys, info \in BribeInfos :
       BribeInsert(a, k, p, info) =>
         Lacks(BribeInsertTouches(a, k), BribeFeedStateKeys(a, k), a) = {}
  /\ \A a \in Accounts, k \in BribableKeys :
       BribeDelete(a, k) =>
         Lacks(BribeDeleteTouches(a, k), BribeFeedStateKeys(a, k), a)
           \subseteq {<<BalanceKey(x), "allocate">> :
                        x \in Accounts \ DOMAIN balance}

\* Transfers (to oneself included), registrations, deposits and bribes find
\* every key they touch among the ones they declare, with the permissions
\* they need in the state they meet.  Funding and refunds find them too,
\* except in a state that an earlier transaction has emptied.
DeclaredKeysSuffice ==
  /\ [](\A a, to \in Accounts, n \in TransferAmounts \ {0} :
          CanSub(balance, a, n) =>
            Lacks(TransferTouches(a, to, n), TransferStateKeys(a, to), a) = {})
  /\ [][CallsFindTheirKeys]_vars

\* "All database keys that could be touched during execution. Will fail if a
\* key is missing or has wrong permissions" (README.md 99-100): what is
\* reported, sealed and appealed touches declared keys only.
VotesFindTheirKeys ==
  [][/\ \A a \in Accounts, f \in FeedIDs, r \in Rounds, v \in Values :
          Report(a, f, r, v) =>
            Lacks(ReportTouches(a, f, r, v), ReportFeedStateKeys(a, f, r), a) = {}
     /\ \A a \in Accounts, f \in FeedIDs, r \in Rounds :
          Seal(a, f, r) =>
            Lacks(SealTouches(a, f, r), ReportFeedStateKeys(a, f, r), a) = {}
     /\ \A a \in Appellants, f \in FeedIDs :
          AppealFeed(a, f) =>
            Lacks(AppealFeedTouches(a, f), AppealFeedStateKeys(a, f), a) = {}]_vars
=============================================================================
