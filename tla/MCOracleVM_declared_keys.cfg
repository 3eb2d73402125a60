\* Reports, seals and appeals, and the keys they declare.
SPECIFICATION Spec
CONSTANTS
  Alice = Alice
  Bob = Bob
  Carol = Carol
  Yes = Yes
  No = No
  Maybe = Maybe
  NoValue = NoValue
  Accounts = {Alice, Bob}
  Values = {Yes, No}
  UnreadableValues = {Maybe}
  Genesis <- TwoEach
  MaxFeedID = 0
  StoredFeeds <- OpenStored
  FeedConfigs = {}
  TransferAmounts = {}
  VaultAmounts = {}
  FundAmounts = {}
  DepositAmounts = {}
  BribeAmounts = {1}
  Appellants = {Alice}
  Recipients = {Bob}
  MaxRound = 2
  MaxTime = 2
  HalfRange = 64
PROPERTIES
  VotesFindTheirKeys
CHECK_DEADLOCK FALSE
