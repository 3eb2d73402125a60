\* The vault of a feed that does not exist is funded.
SPECIFICATION Spec
CONSTANTS
  Alice = Alice
  Bob = Bob
  Carol = Carol
  Yes = Yes
  No = No
  Maybe = Maybe
  NoValue = NoValue
  Accounts = {Alice, Bob}
  Values = {Yes, No}
  UnreadableValues = {}
  Genesis <- TwoEach
  MaxFeedID = 1
  StoredFeeds <- NoFeeds
  FeedConfigs <- JustPlain
  TransferAmounts = {}
  VaultAmounts = {0}
  FundAmounts = {1}
  DepositAmounts = {1}
  BribeAmounts = {}
  Appellants = {}
  Recipients = {}
  MaxRound = 3
  MaxTime = 2
  HalfRange = 64
INVARIANTS
  VaultsBelongToFeeds
CHECK_DEADLOCK FALSE
