\* A consumer of feed 0, which two accounts report into.
SPECIFICATION QuerySpec
CONSTANTS
  Alice = Alice
  Bob = Bob
  Carol = Carol
  Yes = Yes
  No = No
  Maybe = Maybe
  NoValue = NoValue
  NoAnswer = NoAnswer
  Accounts = {Alice, Bob}
  Values = {Yes, No}
  UnreadableValues = {}
  Genesis <- TwoEach
  MaxFeedID = 0
  StoredFeeds <- OpenStored
  FeedConfigs = {}
  TransferAmounts = {}
  VaultAmounts = {}
  FundAmounts = {}
  DepositAmounts = {}
  BribeAmounts = {}
  Appellants = {}
  Recipients = {}
  MaxRound = 3
  MaxTime = 2
  HalfRange = 64
SYMMETRY Symmetric
INVARIANTS
  SecondAnswersHold
CHECK_DEADLOCK FALSE
