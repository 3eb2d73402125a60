\* Three reporters of a feed 0, three values, no rewards, appeals or bribes.
SPECIFICATION Spec
CONSTANTS
  Alice = Alice
  Bob = Bob
  Carol = Carol
  Yes = Yes
  No = No
  Maybe = Maybe
  Accounts = {Alice, Bob, Carol}
  Values = {Yes, No, Maybe}
  NoValue = NoValue
  UnreadableValues = {}
  Genesis <- FourEach
  MaxFeedID = 0
  StoredFeeds <- PlainStored
  FeedConfigs = {}
  TransferAmounts = {}
  VaultAmounts = {}
  FundAmounts = {}
  DepositAmounts = {4}
  BribeAmounts = {}
  Appellants = {}
  Recipients = {}
  MaxRound = 4
  MaxTime = 3
  HalfRange = 64
SYMMETRY Symmetric
INVARIANTS
  PublishedLeads
  NoReportsAhead
PROPERTIES
  SealedRoundsAreFinal
  SlashingFollowsPublished
  OnlyRedepositsBurn
  ImplementsLifecycle
CHECK_DEADLOCK FALSE
