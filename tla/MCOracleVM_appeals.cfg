\* Appeals to a stored feed 0.
SPECIFICATION Spec
CONSTANTS
  Alice = Alice
  Bob = Bob
  Carol = Carol
  Yes = Yes
  No = No
  Maybe = Maybe
  NoValue = NoValue
  Accounts = {Alice, Bob, Carol}
  Values = {Yes, No}
  UnreadableValues = {}
  Genesis <- TwoEach
  MaxFeedID = 0
  StoredFeeds <- AppealableStored
  FeedConfigs = {}
  TransferAmounts = {}
  VaultAmounts = {}
  FundAmounts = {}
  DepositAmounts = {1}
  BribeAmounts = {}
  Appellants = {Alice, Bob, Carol}
  Recipients = {}
  MaxRound = 2
  MaxTime = 5
  HalfRange = 8
SYMMETRY Symmetric
PROPERTIES
  AppealsOnlyPostpone
CHECK_DEADLOCK FALSE
