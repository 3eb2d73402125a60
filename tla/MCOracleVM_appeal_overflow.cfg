\* Appeals whose delay leaves int64.
SPECIFICATION Spec
CONSTANTS
  Alice = Alice
  Bob = Bob
  Carol = Carol
  Yes = Yes
  No = No
  Maybe = Maybe
  NoValue = NoValue
  Accounts = {Alice, Bob, Carol}
  Values = {Yes, No}
  UnreadableValues = {}
  Genesis <- TwoEach
  MaxFeedID = 0
  StoredFeeds <- WrappingStored
  FeedConfigs = {}
  TransferAmounts = {}
  VaultAmounts = {}
  FundAmounts = {}
  DepositAmounts = {}
  BribeAmounts = {}
  Appellants = {Alice, Bob, Carol}
  Recipients = {}
  MaxRound = 2
  MaxTime = 2
  HalfRange = 8
PROPERTIES
  AppealsDelay
CHECK_DEADLOCK FALSE
