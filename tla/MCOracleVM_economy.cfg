\* A rewarding feed 0 and one that is registered, with all flows of tokens.
SPECIFICATION Spec
CONSTANTS
  Alice = Alice
  Bob = Bob
  Carol = Carol
  Yes = Yes
  No = No
  Maybe = Maybe
  NoValue = NoValue
  Accounts = {Alice, Bob}
  Values = {Yes, No}
  UnreadableValues = {}
  Genesis <- MostlyAlice
  MaxFeedID = 1
  StoredFeeds <- RewardingStored
  FeedConfigs <- JustRewarding
  TransferAmounts = {1, 2}
  VaultAmounts = {0, 1}
  FundAmounts = {1}
  DepositAmounts = {0, 1}
  BribeAmounts = {}
  Appellants = {}
  Recipients = {}
  MaxRound = 2
  MaxTime = 2
  HalfRange = 64
INVARIANTS
  TypeOK
  UncheckedSumsFit
PROPERTIES
  OnlyRedepositsBurn
  DeclaredKeysSuffice
CHECK_DEADLOCK FALSE
