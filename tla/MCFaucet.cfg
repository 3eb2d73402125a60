\* Two requests for one address or for two, after an initial transfer.
SPECIFICATION FairFaucetSpec
CONSTANTS
  Requests = {R1, R2}
  Main = Main
  Addresses = {Ann, Ben}
  RandomAddress = Random
  Remotes = {Remote}
  Burst = 1
  Attempts = 2
  MaxSecond = 2
  Funds = 3
  NoTx = NoTx
INVARIANTS
  FaucetTypeOK
  AnswersAreBacked
  ReadinessIsEarned
PROPERTIES
  NoTransfersOncePaid
  CallsReturn
CHECK_DEADLOCK FALSE
