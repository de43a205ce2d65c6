SPECIFICATION FairSystemSpec
CONSTANTS
  Orders = {o1}
  Workers = {w1}
  Methods = {"COD", "BANK_TRANSFER"}
  RetryLimit = 1
  MaxResumes = 1
CHECK_DEADLOCK FALSE
INVARIANTS
  EndingsTrue
  TimelineTrue
PROPERTIES
  ImplementsSaga
  Settles
