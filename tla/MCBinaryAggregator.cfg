\* Every list of at most six reports over three values.
SPECIFICATION AggregatorSpec
CONSTANTS
  Values = {Yes, No, Maybe}
  NoMajority = NoMajority
  MaxReports = 6
INVARIANTS
  MajorityIsPlurality
CHECK_DEADLOCK FALSE
